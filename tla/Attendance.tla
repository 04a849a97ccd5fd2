----------------------------- MODULE Attendance -----------------------------
(***************************************************************************)
(* The tutor's page (src/planer/web/tutor.py) on the schedules that        *)
(* SolveRound makes: a page is rendered from the tables, stays open as     *)
(* long as the tutor likes, and its POST marks the members one commit at a *)
(* time and then sets the status of each group.  The handlers of the web   *)
(* process exclude each other, a `plan` of the CLI interleaves with the    *)
(* commits, and the process may be killed between two of them.             *)
(*                                                                         *)
(* `pages` are the pages tutors have open: [slot, round, marks], marks a   *)
(* function from the students listed to the radio button that is set,      *)
(* SCHEDULED for none.  `post` is the submission the web process is        *)
(* working on: pc, slot, round, form (as marks), members (the due members  *)
(* of each group); presentations, the groups not begun yet; group, the one *)
(* it is at; left, its members still to visit; statuses, what it collected *)
(* for the rollup; expired, the groups whose loaded row a commit has       *)
(* expired; handled, the groups it has finished.                           *)
(***************************************************************************)
EXTENDS SolveRound

VARIABLES pages, post

attVars == <<solveVars, pages, post>>

NoGroup == 0

NoPost == [pc |-> "idle", slot |-> 1, round |-> 1, form |-> << >>,
           members |-> << >>, presentations |-> {}, group |-> NoGroup, left |-> {}, statuses |-> {},
           expired |-> {}, handled |-> {}]

\* The web process runs no other handler.
HandlerFree == WebFree /\ post.pc = "idle"

AttInit == SolveInit /\ pages = {} /\ post = NoPost

-----------------------------------------------------------------------------

\* Only due members are listed and marked.
DueStudents(g) ==
    {s.user_id : s \in {t \in db.students : t.group = g /\ student_is_due(t, Threshold)}}

\* Mutant: an unmarked member gets a value that is no status.
MarkOf_mutant(u, slot, round) ==
    LET row == {a \in db.att : a.student = u /\ a.slot = slot /\ a.round = round}
    IN  IF row = {} THEN "none" ELSE (CHOOSE a \in row : TRUE).status

\* The mark shown for a student: the row of this slot, if there is one.
MarkOf(u, slot, round) ==
    LET row == {a \in db.att : a.student = u /\ a.slot = slot /\ a.round = round}
    IN  IF row = {} THEN SCHEDULED ELSE (CHOOSE a \in row : TRUE).status

\* GET; the dashboard signs a link for each slot with the slot's round.
TutorForm(s) ==
    LET listed == UNION {DueStudents(p.group) :
                            p \in get_presentations_for_slot(db, s.round, s.id)}
    IN  /\ HandlerFree /\ s \in db.slots
        /\ pages' = pages \cup {[slot |-> s.id, round |-> s.round,
                marks |-> [u \in listed |-> MarkOf(u, s.id, s.round)]]}
        /\ UNCHANGED <<db, solver, post>>

\* What the browser can send: a radio button that is set can be changed but not
\* be cleared.
Forms(page) ==
    {f \in [DOMAIN page.marks -> Statuses] :
        \A u \in DOMAIN f : f[u] = SCHEDULED => page.marks[u] = SCHEDULED}

\* POST, up to the loop: the presentations of the slot and the due members of
\* their groups are read again.
TutorSubmit(page, form) ==
    LET groups == {p.group : p \in get_presentations_for_slot(db, page.round, page.slot)}
    IN  /\ HandlerFree
        /\ post' = [NoPost EXCEPT !.pc = "next", !.slot = page.slot, !.round = page.round,
                       !.form = form, !.presentations = groups,
                       !.members = [g \in groups |-> DueStudents(g)]]
        /\ UNCHANGED <<db, solver, pages>>

\* The row of the presentation is still there when the session loads it again.
StillThere(g) == \E p \in db.pres : p.group = g /\ p.slot = post.slot

\* for p in presentations.
BeginGroup(g) ==
    /\ post.pc = "next" /\ g \in post.presentations
    /\ post' = IF g \in post.expired /\ ~StillThere(g) THEN NoPost
               ELSE [post EXCEPT !.pc = "members", !.group = g, !.left = post.members[g],
                        !.presentations = @ \ {g}, !.statuses = {}, !.expired = @ \ {g}]
    /\ UNCHANGED <<db, solver, pages>>

Sent(u) == IF u \in DOMAIN post.form THEN post.form[u] ELSE SCHEDULED

\* for student in students_by_group[p.group_id]; a marked member is committed,
\* which expires the rows the session has loaded.
MarkMember(u) ==
    /\ post.pc = "members" /\ u \in post.left /\ post.group \notin post.expired
    /\ IF Sent(u) = SCHEDULED
       THEN /\ post' = [post EXCEPT !.left = @ \ {u}, !.statuses = @ \cup {SCHEDULED}]
            /\ UNCHANGED db
       ELSE /\ db' = upsert_member_attendance(db, u, post.slot, post.group, post.round, Sent(u))
            /\ post' = [post EXCEPT !.left = @ \ {u}, !.statuses = @ \cup {Sent(u)},
                                    !.expired = @ \cup {post.group} \cup post.presentations]
    /\ UNCHANGED <<solver, pages>>

\* The log line after the commit reads p.group_id, which loads the row again and
\* fails when a solve has deleted it.
LogMark ==
    /\ post.pc = "members" /\ post.group \in post.expired
    /\ post' = IF StillThere(post.group) THEN [post EXCEPT !.expired = @ \ {post.group}]
               ELSE NoPost
    /\ UNCHANGED <<db, solver, pages>>

\* Mutant: a status that is set already is kept.
RollUp_mutant ==
    LET rolled == rollup_status(post.statuses)
        done   == [post EXCEPT !.pc = "next", !.group = NoGroup,
                               !.handled = @ \cup {post.group}]
    IN  /\ post.pc = "members" /\ post.left = {} /\ post.group \notin post.expired
        /\ post' = done
        /\ db' = IF rolled = SCHEDULED
                    \/ \E p \in db.pres : p.group = post.group /\ p.slot = post.slot
                                          /\ p.status # SCHEDULED
                 THEN db ELSE update_presentation_status(db, post.group, post.slot, rolled)
        /\ UNCHANGED <<solver, pages>>

\* rollup_status of the form, then update_presentation_status, which raises
\* ValueError when the row is gone.
RollUp ==
    LET rolled == rollup_status(post.statuses)
        done   == [post EXCEPT !.pc = "next", !.group = NoGroup,
                               !.handled = @ \cup {post.group}]
    IN  /\ post.pc = "members" /\ post.left = {} /\ post.group \notin post.expired
        /\ IF rolled = SCHEDULED THEN post' = done /\ UNCHANGED db
           ELSE IF ~StillThere(post.group) THEN post' = NoPost /\ UNCHANGED db
           ELSE /\ db' = update_presentation_status(db, post.group, post.slot, rolled)
                /\ post' = [done EXCEPT !.expired = @ \cup post.presentations]
        /\ UNCHANGED <<solver, pages>>

Answered200 ==
    /\ post.pc = "next" /\ post.presentations = {}
    /\ post' = NoPost
    /\ UNCHANGED <<db, solver, pages>>

PostCrash ==
    /\ post.pc # "idle"
    /\ post' = NoPost
    /\ UNCHANGED <<db, solver, pages>>

PostStep ==
    \/ \E g \in post.presentations : BeginGroup(g)
    \/ \E u \in post.left : MarkMember(u)
    \/ LogMark \/ RollUp \/ Answered200

\* A solve as an action of this module: the web process starts one only when no
\* POST is being worked on.
StartSolve(p, r) ==
    /\ p = Web => post.pc = "idle"
    /\ Start(p, r) /\ UNCHANGED <<pages, post>>

AttEdit == post.pc = "idle" /\ Edit /\ UNCHANGED <<pages, post>>

Solving == (\E p \in Procs : SolveStep(p)) /\ UNCHANGED <<pages, post>>
Crashes == PostCrash \/ ((\E p \in Procs : Crash(p)) /\ UNCHANGED <<pages, post>>)

AttNext ==
    \/ \E s \in db.slots : TutorForm(s)
    \/ \E page \in pages : \E form \in Forms(page) : TutorSubmit(page, form)
    \/ PostStep
    \/ \E p \in Procs : \E r \in db.rounds : StartSolve(p, r)
    \/ Solving \/ Crashes \/ AttEdit

AttSpec == AttInit /\ [][AttNext]_attVars

-----------------------------------------------------------------------------
(* Properties.                                                             *)

Marks == UNION {[S -> Statuses] : S \in SUBSET UserIds}

MembersOf == UNION {[S -> SUBSET UserIds] : S \in SUBSET GroupIds}

\* The shape of the pages and of the submission in progress.
AttTypeOK ==
    /\ SolveTypeOK
    /\ pages \subseteq [slot : SlotIds, round : RoundIds, marks : Marks]
    /\ post \in [pc : {"idle", "next", "members"}, slot : SlotIds, round : RoundIds,
                 form : Marks, members : MembersOf, presentations : SUBSET GroupIds,
                 group : GroupIds \cup {NoGroup}, left : SUBSET UserIds,
                 statuses : SUBSET Statuses, expired : SUBSET GroupIds,
                 handled : SUBSET GroupIds]
    /\ post.pc # "idle" => post.presentations \subseteq DOMAIN post.members
    /\ post.pc = "members" => post.group \in GroupIds

Rows(g, slot) == {p \in db.pres : p.group = g /\ p.slot = slot}

\* The marks of the due members of a group at a slot, SCHEDULED for none.
MemberMarks(g, slot) ==
    {IF \E a \in db.att : a.student = u /\ a.slot = slot
     THEN (CHOOSE a \in db.att : a.student = u /\ a.slot = slot).status
     ELSE SCHEDULED : u \in DueStudents(g)}

\* Nothing is being worked on.
Quiet == post.pc = "idle" /\ \A p \in Procs : At(p, "idle")

\* A POST that has gone through a group has set its status by what the tutor
\* sent: PRESENTED when somebody presented, NO_SHOW when everybody was marked
\* absent, whatever was marked before and from how old a page it was sent.
PostTakesEffect ==
    \A g \in post.handled : \A p \in Rows(g, post.slot) :
        LET sent == {Sent(u) : u \in DueStudents(g)}
        IN  /\ PRESENTED \in sent => p.status = PRESENTED
            /\ sent = {NO_SHOW} => p.status = NO_SHOW

\* A member who is marked as having presented makes the group count as
\* presented: what the grading reads (the marks) and what the next round reads
\* (the status) agree on it between requests.  Several pages may be open, and
\* may be sent in any order.
PresentedMemberCounts ==
    Quiet => \A p \in db.pres :
        PRESENTED \in MemberMarks(p.group, p.slot) => p.status = PRESENTED

\* A status is never ahead of the marks it rolls up, whatever solve, correction
\* or crash comes between the commits: a group is PRESENTED or NO_SHOW at a slot
\* only if somebody, or everybody, who is due has been marked there.
MarksBackStatus ==
    \A p \in db.pres :
        /\ p.status = PRESENTED => MemberMarks(p.group, p.slot) # {SCHEDULED}
        /\ p.status = NO_SHOW => SCHEDULED \notin MemberMarks(p.group, p.slot)

\* "A group that has PRESENTED in any prior round is done — excluded from future
\* assignment" (tracking.py:4), said of the marks: a solved round has no group
\* with a member marked PRESENTED in an earlier one, pins aside.
DoneIsExcluded ==
    \A r \in db.rounds : SolvedRound(r) =>
        \A p \in db.pres : p.round = r.id /\ PinsOf(r, p.group) = {} =>
            ~ \E a \in db.att :
                a.group = p.group /\ a.round < r.id /\ a.status = PRESENTED
=============================================================================
