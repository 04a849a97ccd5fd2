------------------------------ MODULE MCImport ------------------------------
(***************************************************************************)
(* Instances of ResultSync and Import: group 1 of students a and b is      *)
(* scheduled in slot 1 of round 1; student c, without a group, has joined  *)
(* the course since the last import.  Groups 4, 5 and 6 are the students'  *)
(* own ones.  The web process does not solve here (the button excludes it, *)
(* and MCAttendance has it); a command of the CLI may plan the round again *)
(* under the transfers, and places group 1 where it was.                   *)
(***************************************************************************)
EXTENDS Import, SlotTexts

CONSTANTS
    MaxPages,       \* bound: pages of the tutor
    MaxPosts,       \* bound: submissions
    MaxRequests,    \* bound: transfers and imports
    MaxChanges,     \* bound: what lecturers do in the course
    MaxSolves,      \* bound: solves of the CLI
    MaxTroubles,    \* bound: attempts that fail, crashes, late writes
    Options,        \* of transfers: "plain", "force", "dry"
    Sources         \* of imports: "api", "excel"

VARIABLES posts, requests, changes, solves, troubles

counters == <<posts, requests, changes, solves, troubles>>

mcVars == <<importVars, counters>>

\* The processes that only solve.
Commands == Procs \ {Web}

Count(c, max) == c < max /\ c' = c + 1

OpenPage ==
    /\ \E s \in db.slots : TutorForm(s)
    /\ Cardinality(pages') =< MaxPages
    /\ UNCHANGED <<course, sync, calm, overwritten, replanned, import, counters>>

TutorStep(A) ==
    /\ NoWebSync /\ A
    /\ UNCHANGED <<course, sync, calm, overwritten, replanned, import>>

Submit ==
    /\ Count(posts, MaxPosts)
    /\ TutorStep(\E page \in pages : \E form \in Forms(page) : TutorSubmit(page, form))
    /\ UNCHANGED <<requests, changes, solves, troubles>>

Marking == TutorStep(PostStep) /\ UNCHANGED counters

SyncRequest ==
    /\ Count(requests, MaxRequests)
    /\ Beside(\E p \in Syncs, how \in Options :
                    StartSync(p, 1, how = "force", how = "dry"))
    /\ UNCHANGED <<posts, changes, solves, troubles>>

\* A step of a transfer, and what may befall it.  An attempt that fails without
\* effect needs no bound, the client stops by itself.
Transfer(p) ==
    \/ ReadMembers(p) \/ ReadMarks(p) \/ ReadStatuses(p) \/ ReadExisting(p)
    \/ \E key \in sync[p].patches : BeginPatch(p, key)
    \/ BeginBulk(p) \/ Attempt(p, "done", "now") \/ Report(p)
    \/ \E answer \in Answers \ {"done"} : Attempt(p, answer, "never")

Trouble(p) ==
    \/ SyncCrash(p)
    \/ \E answer \in Answers \ {"done"} : \E effect \in Effects(answer) \ {"never"} :
          Attempt(p, answer, effect)

Transfers(p) == Beside(Transfer(p)) /\ UNCHANGED counters

Troubles ==
    /\ Count(troubles, MaxTroubles)
    /\ \/ \E p \in Syncs : Beside(Trouble(p))
       \/ TutorStep(PostCrash)
       \/ Beside(Planner((\E p \in Commands : Crash(p)) /\ UNCHANGED <<pages, post>>))
    /\ UNCHANGED <<posts, requests, changes, solves>>

Landing ==
    /\ Beside(\E i \in DOMAIN course.late : Land(i))
    /\ UNCHANGED counters

Change ==
    /\ Count(changes, MaxChanges)
    /\ Beside(\/ \E a \in course.assessments : Release(a)
              \/ \E points \in Points : EnterResult("c", points)
              \/ \E g \in {1, NoTeam} : course.group["c"] # g /\ MoveStudent("c", g))
    /\ UNCHANGED <<posts, requests, solves, troubles>>

ImportRequest ==
    /\ Count(requests, MaxRequests)
    /\ ("api" \in Sources /\ StartImport) \/ ("excel" \in Sources /\ StartExcel)
    /\ UNCHANGED <<posts, changes, solves, troubles>>

Imports == ImportStep /\ UNCHANGED counters

PlanRequest ==
    /\ Count(solves, MaxSolves)
    /\ Beside(Planner(\E p \in Commands, r \in db.rounds : StartSolve(p, r)))
    /\ UNCHANGED <<posts, requests, changes, troubles>>

Plans == Beside(Planner(Solving)) /\ UNCHANGED counters

MCUsers  == {"a", "b", "c"}
MCGroups == {1, 4, 5, 6}
MCSolo   == [a |-> 4, b |-> 5, c |-> 6]

Student(u, assessed) ==
    [user_id |-> u, group |-> 1, prev |-> FALSE, assessed |-> assessed, points |-> 0]

\* Round 1 is still to be held, or has been: a presented, was transferred and
\* released, and has been imported since.
MCDatabases ==
    {[students  |-> {Student("a", held), Student("b", FALSE)},
      groups    |-> {1},
      rounds    |-> {[id |-> 1, mode |-> "availability", quorum |-> "all"]},
      slots     |-> {[id |-> 1, round |-> 1, capacity |-> 1]},
      avail     |-> {[student |-> u, slot |-> 1, available |-> TRUE] : u \in {"a", "b"}},
      curations |-> {},
      pres      |-> {[group |-> 1, slot |-> 1, round |-> 1,
                      status |-> IF held THEN PRESENTED ELSE SCHEDULED]},
      att       |-> IF ~held THEN {}
                    ELSE {[student |-> "a", slot |-> 1, group |-> 1, round |-> 1,
                           status |-> PRESENTED]}] : held \in BOOLEAN}

OfA(passed) == {[user |-> "a", n |-> 1, draft |-> FALSE, passed |-> passed]}

\* Student a has no assessment, one below the pass points, or has passed.
MCCourses ==
    {[assessments |-> assessments, late |-> << >>,
      group   |-> [u \in MCUsers |-> IF u = "c" THEN NoTeam ELSE 1],
      results |-> [u \in MCUsers |-> IF u = "c" THEN {} ELSE {0}],
      prev    |-> {}] :
        assessments \in {{}, OfA(FALSE), OfA(TRUE)}}

MCInit ==
    /\ ImportInit
    /\ \A s \in db.students :
          s.assessed <=> s.user_id \in passed_assessment_user_ids(course.assessments)
    /\ posts = 0 /\ requests = 0 /\ changes = 0 /\ solves = 0 /\ troubles = 0

MCNext ==
    \/ OpenPage \/ Submit \/ Marking
    \/ SyncRequest \/ (\E p \in Syncs : Transfers(p)) \/ Troubles \/ Landing
    \/ Change
    \/ ImportRequest \/ Imports
    \/ PlanRequest \/ Plans

\* The web process goes on with what it has begun.
MCSpec ==
    /\ MCInit /\ [][MCNext]_mcVars
    /\ WF_mcVars(Marking) /\ (Web \in Syncs => WF_mcVars(Transfers(Web)))
=============================================================================
