----------------------------- MODULE ResultSync -----------------------------
(***************************************************************************)
(* The transfer of the results (adapters/submit_results.py) by the button  *)
(* of the admin page, whose handler keeps the web process to itself until  *)
(* the course system has answered everything, and by `planer sync`, which  *)
(* runs beside it.  It reads students, marks and presentations, each with  *)
(* a SELECT of its own, then the assessments, and writes; any request can  *)
(* be retried, fail, or be applied although it failed, and the process can *)
(* be killed anywhere.  Tutors submit marks and rounds are solved meanwhile *)
(* (Attendance).                                                           *)
(*                                                                         *)
(* `sync` has for each process: pc; round, force and dry, its arguments;   *)
(* members, marks and marked, what it has read; graded, who gets an        *)
(* assessment; patches and creates, what is left to write; request, the    *)
(* one being made; created, updated, skipped and failed, the report.       *)
(* Three are history variables.  `calm`: no two syncs ran at the same time, *)
(* and no write was applied that the client took for failed; `overwritten`: *)
(* the users whose assessment a forced transfer has patched; `replanned`:  *)
(* the transfers for which the schedule of their round is no longer the    *)
(* one they have read, a solve or an edit having changed it since.         *)
(***************************************************************************)
EXTENDS Attendance, CourseClient

CONSTANTS
    Syncs,          \* processes that transfer results, Web may be one of them
    Courses         \* states of the course at the beginning

VARIABLES course, sync, calm, overwritten, replanned

syncVars == <<attVars, course, sync, calm, overwritten, replanned>>

NoSync == [pc |-> "idle", round |-> 1, force |-> FALSE, dry |-> FALSE,
           members |-> {}, marks |-> {}, marked |-> {}, graded |-> {},
           patches |-> {}, creates |-> {}, request |-> NoRequest,
           created |-> {}, updated |-> {}, skipped |-> {}, failed |-> {}]

Syncing(p, pc)  == sync[p].pc = pc
Continues(p, s) == sync' = [sync EXCEPT ![p] = s]

\* Where a transfer has read all that it reads here, and knows whom it grades.
Decided == {"existing", "write", "request"}

\* The web process is not waiting for the course system.
NoWebSync == Web \in Syncs => Syncing(Web, "idle")

Writes == [create : SUBSET UserIds, patch : SUBSET [user : UserIds, n : Nat \ {0}]]

CourseSet ==
    [assessments : SUBSET [user : UserIds, n : Nat \ {0}, draft : BOOLEAN, passed : BOOLEAN],
     late : Seq(Writes), group : [UserIds -> GroupIds \cup {NoTeam}],
     results : [UserIds -> SUBSET Nat], prev : SUBSET UserIds]

OnceEach(c) == \A a, b \in c.assessments : a.user = b.user => a = b

OneResult(c) == \A u \in UserIds : \A x, y \in c.results[u] : x = y

ASSUME CoursesAssumption ==
    \A c \in Courses :
        /\ c \in CourseSet /\ IsFiniteSet(c.assessments) /\ c.late = << >>
        /\ OnceEach(c) /\ OneResult(c)

-----------------------------------------------------------------------------

\* Up to the GET of the assignment.  The button has no --force.
StartSync(p, round, force, dry) ==
    /\ Syncing(p, "idle")
    /\ p = Web => HandlerFree /\ ~force
    /\ Continues(p, [NoSync EXCEPT !.pc = "students", !.round = round,
                                 !.force = force, !.dry = dry])
    /\ calm' = (calm /\ \A q \in Syncs : Syncing(q, "idle"))
    /\ UNCHANGED <<attVars, course, overwritten, replanned>>

ReadMembers(p) ==
    /\ Syncing(p, "students")
    /\ Continues(p, [sync[p] EXCEPT !.pc = "marks",
          !.members = {[user |-> s.user_id, group |-> s.group] : s \in db.students}])
    /\ UNCHANGED <<attVars, course, calm, overwritten, replanned>>

\* {a.student_id: a.status}: of a student with rows in several slots of the
\* round the last one counts, and the SELECT states no order.
ReadMarks(p) ==
    LET rows   == {a \in db.att : a.round = sync[p].round}
        read   == {[user |-> a.student, status |-> a.status] : a \in rows}
    IN  /\ Syncing(p, "marks")
        /\ \E marks \in SUBSET read :
              /\ \A m \in read : \E k \in marks :
                    k.user = m.user /\ \A l \in marks : l.user = m.user => l = k
              /\ Continues(p, [sync[p] EXCEPT !.pc = "statuses", !.marks = marks,
                                            !.marked = {a.group : a \in rows}])
        /\ UNCHANGED <<attVars, course, calm, overwritten, replanned>>

Presented(m, row, s) ==
    IF row.group \in s.marked THEN [user |-> m.user, status |-> PRESENTED] \in s.marks
                              ELSE row.status = PRESENTED

\* Mutant: the status of the group for everyone.
ReadStatuses_mutant(p) ==
    LET rows == get_presentations_for_round(db, sync[p].round) IN
    /\ Syncing(p, "statuses")
    /\ Continues(p, [sync[p] EXCEPT !.pc = "existing", !.members = {}, !.marks = {},
          !.marked = {},
          !.graded = {m.user : m \in {x \in sync[p].members :
                        \E row \in rows : row.group = x.group /\ row.status = PRESENTED}}])
    /\ UNCHANGED <<attVars, course, calm, overwritten, replanned>>

\* The marks decide for a group that has any, the status of the presentation
\* for the others; build_assessments keeps who PRESENTED, once.
ReadStatuses(p) ==
    LET rows == get_presentations_for_round(db, sync[p].round) IN
    /\ Syncing(p, "statuses")
    /\ Continues(p, [sync[p] EXCEPT !.pc = "existing", !.members = {}, !.marks = {},
          !.marked = {},
          !.graded = {m.user : m \in {x \in sync[p].members :
                        \E row \in rows : row.group = x.group /\ Presented(x, row, sync[p])}}])
    /\ UNCHANGED <<attVars, course, calm, overwritten, replanned>>

\* Mutant: everybody who has an assessment is updated.
ReadExisting_mutant(p) ==
    LET s == sync[p] IN
    /\ Syncing(p, "existing")
    /\ \E keys \in ExistingChoices(course.assessments) :
          LET known == s.graded \cap {k.user : k \in keys}
              new   == s.graded \ known
          IN  Continues(p, [s EXCEPT !.pc = "write",
                 !.updated = IF s.dry THEN known ELSE {},
                 !.patches = IF ~s.dry THEN {k \in keys : k.user \in known} ELSE {},
                 !.created = IF s.dry THEN new ELSE {},
                 !.creates = IF s.dry THEN {} ELSE new])
    /\ UNCHANGED <<attVars, course, calm, overwritten, replanned>>

\* The GET of the assessments, and the part of the loop that only sorts: who
\* has one is skipped or, with --force, patched, the others are collected.
ReadExisting(p) ==
    LET s == sync[p] IN
    /\ Syncing(p, "existing")
    /\ \E keys \in ExistingChoices(course.assessments) :
          LET known == s.graded \cap {k.user : k \in keys}
              new   == s.graded \ known
          IN  Continues(p, [s EXCEPT !.pc = "write",
                 !.skipped = IF s.force THEN {} ELSE known,
                 !.updated = IF s.force /\ s.dry THEN known ELSE {},
                 !.patches = IF s.force /\ ~s.dry THEN {k \in keys : k.user \in known} ELSE {},
                 !.created = IF s.dry THEN new ELSE {},
                 !.creates = IF s.dry THEN {} ELSE new])
    /\ UNCHANGED <<attVars, course, calm, overwritten, replanned>>

\* client.patch for one of them; the order among users is of no consequence.
BeginPatch(p, key) ==
    /\ Syncing(p, "write") /\ key \in sync[p].patches
    /\ Continues(p, [sync[p] EXCEPT !.pc = "request", !.patches = @ \ {key},
                      !.request = NewRequest([create |-> {}, patch |-> {key}])])
    /\ overwritten' = IF sync[p].force THEN overwritten \cup {key.user} ELSE overwritten
    /\ UNCHANGED <<attVars, course, calm, replanned>>

\* One bulk POST for all the others, after the patches.
BeginBulk(p) ==
    /\ Syncing(p, "write") /\ sync[p].patches = {} /\ sync[p].creates # {}
    /\ Continues(p, [sync[p] EXCEPT !.pc = "request", !.creates = {},
                      !.request = NewRequest([create |-> sync[p].creates, patch |-> {}])])
    /\ UNCHANGED <<attVars, course, calm, overwritten, replanned>>

\* What the request was for goes to the report once it has returned or raised.
Settled(s, req) ==
    LET patched == {k.user : k \in req.write.patch} IN
    CASE req.state = "open" -> [s EXCEPT !.request = req]
      [] req.state = "ok" ->
            [s EXCEPT !.pc = "write", !.request = NoRequest,
                      !.updated = @ \cup patched, !.created = @ \cup req.write.create]
      [] req.state = "raised" ->
            [s EXCEPT !.pc = "write", !.request = NoRequest,
                      !.failed = @ \cup patched \cup req.write.create]

\* One attempt.
Attempt(p, answer, effect) ==
    LET s == sync[p]
        w == s.request.write
    IN  /\ Syncing(p, "request") /\ effect \in Effects(answer)
        /\ Continues(p, Settled(s, AfterAnswer(s.request, answer)))
        /\ course' = CASE effect = "now"   -> Write(course, w)
                       [] effect = "late"  -> [course EXCEPT !.late = Append(@, w)]
                       [] effect = "never" -> course
        /\ calm' = (calm /\ (effect # "never" => answer = "done"))
        /\ UNCHANGED <<attVars, overwritten, replanned>>

\* Everything is written: the command prints the report, the button shows it.
Through(p) ==
    Syncing(p, "write") /\ sync[p].patches = {} /\ sync[p].creates = {}

Report(p) ==
    /\ Through(p)
    /\ Continues(p, NoSync)
    /\ replanned' = replanned \ {p}
    /\ UNCHANGED <<attVars, course, calm, overwritten>>

\* A GET fails, or the process is killed; what a killed process has sent is
\* what an attempt before it has done.
SyncCrash(p) ==
    /\ ~Syncing(p, "idle")
    /\ Continues(p, NoSync)
    /\ replanned' = replanned \ {p}
    /\ UNCHANGED <<attVars, course, calm, overwritten>>

SyncStep(p) ==
    \/ ReadMembers(p) \/ ReadMarks(p) \/ ReadStatuses(p) \/ ReadExisting(p)
    \/ \E key \in sync[p].patches : BeginPatch(p, key)
    \/ BeginBulk(p)
    \/ \E answer \in Answers : \E effect \in Effects(answer) : Attempt(p, answer, effect)
    \/ Report(p)

-----------------------------------------------------------------------------
(* The other side, the tutors, and who makes the schedules.               *)

\* A write nobody waits for any more is applied.
Land(i) ==
    /\ course' = [Write(course, course.late[i]) EXCEPT !.late = RemoveAt(@, i)]
    /\ UNCHANGED <<attVars, sync, calm, overwritten, replanned>>

\* A lecturer releases a draft.
Release(a) ==
    /\ a \in course.assessments /\ a.draft
    /\ course' = [course EXCEPT !.assessments = (@ \ {a}) \cup {[a EXCEPT !.draft = FALSE]}]
    /\ UNCHANGED <<attVars, sync, calm, overwritten, replanned>>

Tutors ==
    /\ NoWebSync
    /\ \/ \E s \in db.slots : TutorForm(s)
       \/ \E page \in pages : \E form \in Forms(page) : TutorSubmit(page, form)
       \/ PostStep \/ PostCrash
    /\ UNCHANGED <<course, sync, calm, overwritten, replanned>>

Planner(A) ==
    /\ A
    /\ replanned' = replanned \cup
          {q \in Syncs : sync[q].pc \in Decided
                        /\ get_presentations_for_round(db', sync[q].round)
                              # get_presentations_for_round(db, sync[q].round)}
    /\ UNCHANGED <<course, sync, calm, overwritten>>

\* Solves and edits; those of the web process wait for the button, a `plan` of
\* the CLI does not.
Planners ==
    Planner(\/ \E p \in Procs : \E r \in db.rounds : (p = Web => NoWebSync) /\ StartSolve(p, r)
            \/ Solving
            \/ (\E p \in Procs : Crash(p)) /\ UNCHANGED <<pages, post>>
            \/ NoWebSync /\ AttEdit)

SyncInit ==
    /\ AttInit
    /\ course \in Courses
    /\ sync = [p \in Syncs |-> NoSync]
    /\ calm = TRUE /\ overwritten = {} /\ replanned = {}

SyncNext ==
    \/ \E p \in Syncs :
          \/ \E r \in RoundIds, force, dry \in BOOLEAN : StartSync(p, r, force, dry)
          \/ SyncStep(p) \/ SyncCrash(p)
    \/ \E i \in DOMAIN course.late : Land(i)
    \/ \E a \in course.assessments : Release(a)
    \/ Tutors \/ Planners

-----------------------------------------------------------------------------
(* Properties.                                                             *)

RequestSet ==
    [state : {"none", "open"}, write : Writes, attempt : 0..(MaxAttempts - 1),
     reauthed : BOOLEAN]

SyncSet ==
    [pc : {"idle", "students", "marks", "statuses", "existing", "write", "request"},
     round : RoundIds, force : BOOLEAN, dry : BOOLEAN,
     members : SUBSET [user : UserIds, group : GroupIds],
     marks : SUBSET [user : UserIds, status : Statuses], marked : SUBSET GroupIds,
     graded : SUBSET UserIds, patches : SUBSET [user : UserIds, n : Nat \ {0}],
     creates : SUBSET UserIds, request : RequestSet, created : SUBSET UserIds,
     updated : SUBSET UserIds, skipped : SUBSET UserIds, failed : SUBSET UserIds]

\* The shape of the course and of the transfers; CourseTypeOK joins it.
SyncTypeOK ==
    /\ course \in CourseSet /\ sync \in [Syncs -> SyncSet]
    /\ calm \in BOOLEAN /\ overwritten \subseteq UserIds /\ replanned \subseteq Syncs
    /\ \A p \in Syncs : Syncing(p, "request") => sync[p].request.state = "open"

\* The report is never ahead of the course: whoever it calls created, updated
\* or skipped has an assessment there, whatever was retried, failed and came
\* late.
ReportedIsStored ==
    \A p \in Syncs : ~sync[p].dry =>
        \A u \in sync[p].created \cup sync[p].updated \cup sync[p].skipped :
            AssessmentsOf(course, u) # {}

\* "Idempotent per user" (submit_results.py:9): nobody is assessed twice, in
\* whatever order results are transferred again, forced, crash and are released,
\* as long as syncs follow one another and no write was applied unknown to the
\* client.
NothingTwice == calm => OnceEach(course)

\* "A member of a group that presented but who was marked absent is excluded"
\* (results_submission.py:35): the button transfers only those whom a tutor has
\* marked as having presented, although it reads students, marks and statuses
\* one after the other, imports and solves commit in between, and a submission
\* may have been cut short.  And it transfers all of them whose group has a
\* presentation in the round, unless the schedule has changed since the transfer
\* read it: a `plan` that deletes the rows before and creates them afterwards
\* (planning.py:107) makes it leave out those who have presented, until results
\* are transferred again.  (A student who has marks in several slots of the
\* round, or changes groups, aside.)
OnlyPresentersGraded ==
    (Web \in Syncs /\ sync[Web].pc \in Decided) =>
        LET s       == sync[Web]
            marksOf == [u \in UserIds |-> {a \in db.att : a.student = u /\ a.round = s.round}]
        IN  /\ \A u \in s.graded : \E a \in marksOf[u] : a.status = PRESENTED
            /\ Web \notin replanned =>
                  \A u \in UserIds : \A a \in marksOf[u] :
                     (/\ marksOf[u] = {a} /\ a.status = PRESENTED
                      /\ \E t \in db.students : t.user_id = u /\ t.group = a.group
                      /\ \E row \in db.pres : row.group = a.group /\ row.round = s.round)
                     => u \in s.graded

\* However badly the course system answers, the web process gets back to its
\* users: a handler that has begun ends, the sync included.
WebGetsFree ==
    (~HandlerFree \/ ~NoWebSync) ~> (HandlerFree /\ NoWebSync)
=============================================================================
