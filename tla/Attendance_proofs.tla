-------------------------- MODULE Attendance_proofs --------------------------
(***************************************************************************)
(* Theorems about Attendance, for every set of students, groups, rounds,   *)
(* slots, databases and solving processes.                                 *)
(***************************************************************************)
EXTENDS Attendance, SolveRound_proofs

-----------------------------------------------------------------------------
(* What the operators return.                                              *)

LEMMA DueType == ASSUME db \in DB, NEW g PROVE DueStudents(g) \in SUBSET UserIds
  BY DEF DB, Database, DueStudents

LEMMA MarkOfType ==
    ASSUME db \in DB, NEW u, NEW s, NEW r PROVE MarkOf(u, s, r) \in Statuses
<1> DEFINE row == {a \in db.att : a.student = u /\ a.slot = s /\ a.round = r}
<1>1. row # {} => (CHOOSE a \in row : TRUE) \in row
  OBVIOUS
<1>2. \A a \in row : a.status \in Statuses
  BY DEF DB, Database
<1> HIDE DEF row
<1>3. (IF row = {} THEN SCHEDULED ELSE (CHOOSE a \in row : TRUE).status) \in Statuses
  BY <1>1, <1>2 DEF Statuses
<1> QED BY <1>3 DEF MarkOf, row

LEMMA EmptyForm == << >> \in Marks /\ << >> \in MembersOf
<1>1. << >> \in [{} -> Statuses] /\ << >> \in [{} -> SUBSET UserIds]
  OBVIOUS
<1> QED BY <1>1 DEF Marks, MembersOf

PostSet ==
    [pc : {"idle", "next", "members"}, slot : SlotIds, round : RoundIds,
     form : Marks, members : MembersOf, presentations : SUBSET GroupIds,
     group : GroupIds \cup {NoGroup}, left : SUBSET UserIds,
     statuses : SUBSET Statuses, expired : SUBSET GroupIds,
     handled : SUBSET GroupIds]

PostOK(q) ==
    /\ q \in PostSet
    /\ q.pc # "idle" => q.presentations \subseteq DOMAIN q.members
    /\ q.pc = "members" => q.group \in GroupIds

LEMMA NoPostOK == PostOK(NoPost)
  BY EmptyForm, IdsAssumption DEF NoPost, PostOK, PostSet, SlotIds, RoundIds

LEMMA AttTypes ==
    AttTypeOK <=> /\ SolveTypeOK
                  /\ pages \subseteq [slot : SlotIds, round : RoundIds, marks : Marks]
                  /\ PostOK(post)
  BY DEF AttTypeOK, PostOK, PostSet

-----------------------------------------------------------------------------
(* Type correctness.                                                       *)

LEMMA TutorFormType ==
    ASSUME AttTypeOK, NEW s, TutorForm(s) PROVE AttTypeOK'
<1> DEFINE listed == UNION {DueStudents(p.group) : p \in get_presentations_for_slot(db, s.round, s.id)}
           page == [slot |-> s.id, round |-> s.round,
                    marks |-> [u \in listed |-> MarkOf(u, s.id, s.round)]]
<1>0. db \in DB
  BY DEF AttTypeOK, SolveTypeOK
<1>1. listed \in SUBSET UserIds
  BY <1>0, DueType
<1>2. [u \in listed |-> MarkOf(u, s.id, s.round)] \in Marks
  <2> HIDE DEF listed
  <2> QED BY <1>0, <1>1, MarkOfType DEF Marks
<1>3. s.id \in SlotIds /\ s.round \in RoundIds
  BY <1>0 DEF TutorForm, DB, Database
<1>4. page \in [slot : SlotIds, round : RoundIds, marks : Marks]
  BY <1>2, <1>3
<1>5. pages' = pages \cup {page} /\ UNCHANGED <<db, solver, post>>
  BY DEF TutorForm
<1> HIDE DEF page
<1> QED BY <1>4, <1>5, AttTypes DEF AttTypeOK, SolveTypeOK

\* A step of a submission that leaves a database and a submission behind.
LEMMA PostFrame ==
    ASSUME AttTypeOK, db' \in DB, PostOK(post'), UNCHANGED <<solver, pages>>
    PROVE  AttTypeOK'
  BY DEF AttTypeOK, SolveTypeOK, PostOK, PostSet, ProcOK

LEMMA TutorSubmitType ==
    ASSUME AttTypeOK, NEW page \in pages, NEW form \in Forms(page), TutorSubmit(page, form)
    PROVE  AttTypeOK'
<1> DEFINE groups == {p.group : p \in get_presentations_for_slot(db, page.round, page.slot)}
           due    == [g \in groups |-> DueStudents(g)]
<1>0. db \in DB /\ page \in [slot : SlotIds, round : RoundIds, marks : Marks]
  BY DEF AttTypeOK, SolveTypeOK
<1>1. groups \in SUBSET GroupIds
  BY <1>0 DEF DB, Database, get_presentations_for_slot
<1>2. due \in MembersOf /\ DOMAIN due = groups
  <2> HIDE DEF groups
  <2> QED BY <1>0, <1>1, DueType DEF MembersOf
<1>3. form \in Marks
  BY <1>0 DEF Forms, Marks
<1>4. post' = [NoPost EXCEPT !.pc = "next", !.slot = page.slot, !.round = page.round,
                  !.form = form, !.presentations = groups, !.members = due]
  BY DEF TutorSubmit
<1> HIDE DEF groups, due
<1>5. PostOK(post')
  BY <1>0, <1>1, <1>2, <1>3, <1>4, NoPostOK DEF PostOK, PostSet, NoPost
<1> QED BY <1>0, <1>5, PostFrame DEF TutorSubmit

LEMMA BeginGroupType ==
    ASSUME AttTypeOK, NEW g, BeginGroup(g) PROVE AttTypeOK'
<1>0. db \in DB /\ PostOK(post)
  BY AttTypes DEF SolveTypeOK
<1>1. post.members[g] \in SUBSET UserIds /\ g \in GroupIds
  BY <1>0 DEF BeginGroup, PostOK, PostSet, MembersOf
<1>2. PostOK([post EXCEPT !.pc = "members", !.group = g, !.left = post.members[g],
                 !.presentations = @ \ {g}, !.statuses = {}, !.expired = @ \ {g}])
  BY <1>0, <1>1 DEF PostOK, PostSet, BeginGroup
<1>3. PostOK(post')
  BY <1>2, NoPostOK DEF BeginGroup
<1> QED BY <1>0, <1>3, PostFrame DEF BeginGroup

LEMMA MarkMemberType ==
    ASSUME AttTypeOK, NEW u, MarkMember(u) PROVE AttTypeOK'
<1>0. db \in DB /\ PostOK(post) /\ post \in PostSet
  BY AttTypes DEF SolveTypeOK, PostOK
<1>1. Sent(u) \in Statuses
  BY <1>0 DEF Sent, PostSet, Marks, Statuses
<1>2. PostOK([post EXCEPT !.left = @ \ {u}, !.statuses = @ \cup {SCHEDULED}])
  BY <1>0 DEF PostOK, PostSet, Statuses
<1>3. PostOK([post EXCEPT !.left = @ \ {u}, !.statuses = @ \cup {Sent(u)},
                          !.expired = @ \cup {post.group} \cup post.presentations])
  BY <1>0, <1>1 DEF PostOK, PostSet, MarkMember
<1>4. upsert_member_attendance(db, u, post.slot, post.group, post.round, Sent(u)) \in DB
  BY <1>0, <1>1, UpsertAttendanceType DEF PostOK, PostSet, MarkMember
<1>5. db' \in DB /\ PostOK(post')
  BY <1>0, <1>2, <1>3, <1>4, NoPostOK DEF MarkMember
<1> QED BY <1>5, PostFrame DEF MarkMember

\* The line that is logged ends the submission or changes nothing but `expired`.
LEMMA LogMarkFrame ==
    ASSUME AttTypeOK, LogMark
    PROVE  /\ UNCHANGED <<db, solver, pages>> /\ post.pc = "members" /\ PostOK(post')
           /\ \/ post' = NoPost
              \/ /\ post'.pc = "members" /\ post'.group = post.group /\ post'.slot = post.slot
                 /\ post'.round = post.round /\ post'.form = post.form /\ post'.left = post.left
                 /\ post'.statuses = post.statuses /\ post'.members = post.members
                 /\ post'.presentations = post.presentations /\ post'.handled = post.handled
<1>1. PostOK(post) /\ post \in PostSet
  BY AttTypes DEF PostOK
<1>2. CASE post' = [post EXCEPT !.expired = @ \ {post.group}]
  BY <1>1, <1>2 DEF LogMark, PostOK, PostSet
<1> QED BY <1>2, NoPostOK DEF LogMark

LEMMA RollUpType == ASSUME AttTypeOK, RollUp PROVE AttTypeOK'
<1> DEFINE done == [post EXCEPT !.pc = "next", !.group = NoGroup,
                                !.handled = @ \cup {post.group}]
<1>0. db \in DB /\ PostOK(post) /\ post.pc = "members"
  BY AttTypes DEF SolveTypeOK, RollUp
<1>1. PostOK(done) /\ PostOK([done EXCEPT !.expired = @ \cup post.presentations])
  BY <1>0 DEF PostOK, PostSet
<1>2. rollup_status(post.statuses) \in Statuses
  BY DEF rollup_status, Statuses
<1>3. update_presentation_status(db, post.group, post.slot, rollup_status(post.statuses)) \in DB
  BY <1>0, <1>2, UpdateStatusType
<1>4. db' \in DB /\ PostOK(post')
  BY <1>0, <1>1, <1>3, NoPostOK DEF RollUp
<1> QED BY <1>4, PostFrame DEF RollUp

LEMMA PostStepType ==
    ASSUME AttTypeOK, PostStep \/ PostCrash PROVE AttTypeOK'
<1>1. CASE Answered200 \/ PostCrash
  BY <1>1, NoPostOK, PostFrame DEF Answered200, PostCrash, AttTypeOK, SolveTypeOK
<1>2. CASE LogMark
  BY <1>2, LogMarkFrame, PostFrame DEF AttTypeOK, SolveTypeOK
<1> QED BY <1>1, <1>2, BeginGroupType, MarkMemberType, RollUpType DEF PostStep

LEMMA AttStepType == ASSUME AttTypeOK, [AttNext]_attVars PROVE AttTypeOK'
<1>0. SolveTypeOK
  BY DEF AttTypeOK
<1>1. CASE UNCHANGED attVars
  BY <1>1 DEF attVars, solveVars, AttTypeOK, SolveTypeOK, ProcOK
<1>2. ASSUME SolveTypeOK', UNCHANGED <<pages, post>> PROVE AttTypeOK'
  BY <1>2 DEF AttTypeOK
<1>3. CASE Solving \/ \E p \in Procs : \E r \in db.rounds : StartSolve(p, r)
  BY <1>0, <1>2, <1>3, SolveStepType DEF Solving, StartSolve
<1>4. CASE AttEdit
  <2>1. db' \in DB /\ solver' = solver
    BY <1>0, <1>4, EditType DEF AttEdit, Edit, SolveTypeOK
  <2> QED BY <1>0, <1>2, <1>4, <2>1 DEF AttEdit, SolveTypeOK, ProcOK
<1>5. ASSUME NEW s \in db.slots, TutorForm(s) PROVE AttTypeOK'
  BY <1>5, TutorFormType
<1>6. ASSUME NEW page \in pages, NEW form \in Forms(page), TutorSubmit(page, form)
      PROVE  AttTypeOK'
  BY <1>6, TutorSubmitType
<1>7. CASE PostStep \/ Crashes
  BY <1>0, <1>2, <1>7, PostStepType, SolveStepType DEF Crashes
<1> QED BY <1>1, <1>3, <1>4, <1>5, <1>6, <1>7 DEF AttNext

\* The tables, the pages tutors have open and the submission in progress keep
\* their shape, whatever is submitted, solved, edited and killed.
THEOREM AttTypeCorrect == AttSpec => []AttTypeOK
<1>1. AttInit => AttTypeOK
  BY IdleOK, IdsAssumption, NoPostOK, AttTypes DEF AttInit, SolveInit, SolveTypeOK
<1> QED BY <1>1, AttStepType, PTL DEF AttSpec
-----------------------------------------------------------------------------
(* The status of a presentation is never ahead of the marks.               *)

Marked(u, slot) == \E a \in db.att : a.student = u /\ a.slot = slot

\* The row of a mark always says something.
NoBlankMark == \A a \in db.att : a.status # SCHEDULED

\* MarksBackStatus in terms of who has a mark, whatever it says.
BackedRow(p) ==
    /\ p.status = PRESENTED =>
          DueStudents(p.group) = {} \/ \E u \in DueStudents(p.group) : Marked(u, p.slot)
    /\ p.status = NO_SHOW => \A u \in DueStudents(p.group) : Marked(u, p.slot)

\* What the submission in progress has already backed: the marks it collects
\* for the rollup are committed, and its groups are those of the tables.
Backing ==
    /\ post.pc # "idle" => \A g \in post.presentations : post.members[g] = DueStudents(g)
    /\ post.pc = "members" =>
          /\ post.left \subseteq DueStudents(post.group)
          /\ PRESENTED \in post.statuses =>
                \E u \in DueStudents(post.group) : Marked(u, post.slot)
          /\ SCHEDULED \notin post.statuses =>
                \A u \in DueStudents(post.group) \ post.left : Marked(u, post.slot)

BackInv ==
    /\ AttTypeOK /\ NoBlankMark
    /\ \A p \in db.pres : BackedRow(p)
    /\ Backing

LEMMA BackedMeans ==
    ASSUME NoBlankMark PROVE MarksBackStatus <=> \A p \in db.pres : BackedRow(p)
<1> DEFINE of(u, slot) == IF \E a \in db.att : a.student = u /\ a.slot = slot
                          THEN (CHOOSE a \in db.att : a.student = u /\ a.slot = slot).status
                          ELSE SCHEDULED
<1>1. ASSUME NEW u, NEW slot PROVE of(u, slot) = SCHEDULED <=> ~Marked(u, slot)
  <2>1. CASE Marked(u, slot)
    <3>1. (CHOOSE a \in db.att : a.student = u /\ a.slot = slot) \in db.att
      BY <2>1 DEF Marked
    <3> QED BY <2>1, <3>1 DEF Marked, NoBlankMark
  <2> QED BY <2>1 DEF Marked
<1>2. \A g, slot : MemberMarks(g, slot) = {of(u, slot) : u \in DueStudents(g)}
  BY DEF MemberMarks
<1> HIDE DEF of
<1>3. ASSUME NEW p \in db.pres
      PROVE  /\ MemberMarks(p.group, p.slot) # {SCHEDULED} <=>
                   \/ DueStudents(p.group) = {}
                   \/ \E u \in DueStudents(p.group) : Marked(u, p.slot)
             /\ SCHEDULED \notin MemberMarks(p.group, p.slot) <=>
                   \A u \in DueStudents(p.group) : Marked(u, p.slot)
  <2>1. MemberMarks(p.group, p.slot) = {of(u, p.slot) : u \in DueStudents(p.group)}
    BY <1>2
  <2>2. \A u : of(u, p.slot) = SCHEDULED <=> ~Marked(u, p.slot)
    BY <1>1
  <2> QED BY <2>1, <2>2
<1> QED BY <1>3 DEF MarksBackStatus, BackedRow

-----------------------------------------------------------------------------
(* Who else writes leaves students and marks alone.                        *)

Keeps == db'.students = db.students /\ db'.att = db.att

LEMMA SolveKeeps ==
    ASSUME db \in DB, NEW p \in Procs,
           SolveStep(p) \/ Crash(p) \/ \E r \in db.rounds : Start(p, r)
    PROVE  /\ Keeps
           /\ \A x \in db'.pres : x \in db.pres \/ x.status = SCHEDULED
<1>1. CASE DeleteOld(p)
  BY <1>1 DEF DeleteOld, delete_presentations, DB, Database, Keeps
<1>2. ASSUME NEW row, Create(p, row)
      PROVE  Keeps /\ \A x \in db'.pres : x \in db.pres \/ x.status = SCHEDULED
  BY <1>2 DEF Create, create_presentation, DB, Database, Keeps
<1>3. CASE UNCHANGED db
  BY <1>3 DEF Keeps
<1> QED BY <1>1, <1>2, <1>3
        DEF SolveStep, Crash, Start, ReadSlots, ReadAvail, ReadCurations, ReadGroups,
            ReadGroupMembers, ReadPriorAndAssign, SelectOld, CreateFails, Return

-----------------------------------------------------------------------------
(* The invariant.                                                          *)

LEMMA SameDue ==
    ASSUME db'.students = db.students PROVE \A g : DueStudents(g)' = DueStudents(g)
  BY DEF DueStudents

\* Marks that only become more back whatever they backed.
LEMMA StillBacked ==
    ASSUME db'.students = db.students, \A u, s : Marked(u, s) => Marked(u, s)'
    PROVE  \A x : BackedRow(x) => BackedRow(x)'
  BY SameDue DEF BackedRow

\* A step that changes neither students nor marks and adds no status.
LEMMA KeepingStep ==
    ASSUME BackInv, AttTypeOK', Keeps,
           \A x \in db'.pres : x \in db.pres \/ x.status = SCHEDULED,
           Backing'
    PROVE  BackInv'
<1>1. \A u, s : Marked(u, s)' <=> Marked(u, s)
  BY DEF Marked, Keeps
<1>2. \A x \in db.pres : BackedRow(x)'
  BY <1>1, StillBacked DEF BackInv, Keeps
<1>3. \A x : x.status = SCHEDULED => BackedRow(x)'
  BY DEF BackedRow, SCHEDULED, PRESENTED, NO_SHOW
<1> QED BY <1>2, <1>3 DEF BackInv, NoBlankMark, Keeps

LEMMA SameBacking ==
    ASSUME Backing, Keeps, UNCHANGED post PROVE Backing'
<1>1. \A u, s : Marked(u, s)' <=> Marked(u, s)
  BY DEF Marked, Keeps
<1> QED BY <1>1, SameDue DEF Backing, Keeps

LEMMA IdleBacking == ASSUME post' = NoPost PROVE Backing'
  BY DEF Backing, NoPost

LEMMA OtherStep ==
    ASSUME BackInv, AttTypeOK', UNCHANGED post,
           \/ AdminRequest
           \/ \E p \in Procs : SolveStep(p) \/ Crash(p) \/ \E r \in db.rounds : Start(p, r)
           \/ UNCHANGED db
    PROVE  BackInv'
<1>0. db \in DB /\ Backing
  BY DEF BackInv, AttTypeOK, SolveTypeOK
<1>1. CASE AdminRequest
  <2>1. Keeps
    BY <1>0, <1>1, EditKeeps DEF Keeps
  <2> QED BY <1>0, <1>1, <2>1, EditType, SameBacking, KeepingStep
<1>2. ASSUME NEW p \in Procs,
             SolveStep(p) \/ Crash(p) \/ \E r \in db.rounds : Start(p, r)
      PROVE  BackInv'
  BY <1>0, <1>2, SolveKeeps, SameBacking, KeepingStep
<1>3. CASE UNCHANGED db
  <2>1. Keeps /\ \A x \in db'.pres : x \in db.pres
    BY <1>3 DEF Keeps
  <2> QED BY <1>0, <2>1, SameBacking, KeepingStep
<1> QED BY <1>1, <1>2, <1>3

\* The web process reads its groups, begins one of them, or stops.
LEMMA ReadingStep ==
    ASSUME BackInv, AttTypeOK', UNCHANGED db, Backing' PROVE BackInv'
<1>1. Keeps /\ \A x \in db'.pres : x \in db.pres
  BY DEF Keeps
<1> QED BY <1>1, KeepingStep

LEMMA SubmitBacking ==
    ASSUME AttTypeOK, NEW page \in pages, NEW form, TutorSubmit(page, form) PROVE Backing'
<1> DEFINE groups == {p.group : p \in get_presentations_for_slot(db, page.round, page.slot)}
<1>1. /\ post'.pc = "next" /\ post'.presentations = groups
      /\ post'.members = [g \in groups |-> DueStudents(g)]
  BY DEF TutorSubmit, NoPost
<1>2. \A g : DueStudents(g)' = DueStudents(g)
  BY SameDue DEF TutorSubmit
<1> HIDE DEF groups
<1> QED BY <1>1, <1>2 DEF Backing

LEMMA BeginBacking ==
    ASSUME BackInv, NEW g, BeginGroup(g) PROVE Backing'
<1>0. post \in PostSet /\ Backing /\ post.pc = "next" /\ g \in post.presentations
  BY AttTypes DEF BackInv, PostOK, BeginGroup
<1>1. CASE post' = NoPost
  BY <1>1, IdleBacking
<1>2. CASE post' # NoPost
  <2>1. /\ post'.pc = "members" /\ post'.group = g /\ post'.left = DueStudents(g)
        /\ post'.presentations \subseteq post.presentations /\ post'.statuses = {}
        /\ post'.members = post.members
    BY <1>0, <1>2 DEF BeginGroup, PostSet, Backing
  <2>2. \A h : DueStudents(h)' = DueStudents(h)
    BY SameDue DEF BeginGroup
  <2> QED BY <1>0, <2>1, <2>2 DEF Backing
<1> QED BY <1>1, <1>2

LEMMA MarkStep ==
    ASSUME BackInv, AttTypeOK', NEW u, MarkMember(u) PROVE BackInv'
<1>0. /\ post \in PostSet /\ Backing /\ db \in DB
      /\ post.pc = "members" /\ u \in post.left
  BY AttTypes DEF BackInv, PostOK, MarkMember, SolveTypeOK
<1>2. CASE /\ UNCHANGED db
           /\ post' = [post EXCEPT !.left = @ \ {u}, !.statuses = @ \cup {SCHEDULED}]
  <2>1. /\ post'.pc = "members" /\ post'.group = post.group /\ post'.slot = post.slot
        /\ post'.left = post.left \ {u} /\ post'.statuses = post.statuses \cup {SCHEDULED}
        /\ post'.presentations = post.presentations /\ post'.members = post.members
    BY <1>0, <1>2 DEF PostSet
  <2>2. \A g : DueStudents(g)' = DueStudents(g)
    BY <1>2, SameDue
  <2>3. \A w, s : Marked(w, s)' <=> Marked(w, s)
    BY <1>2 DEF Marked
  <2>4. Backing'
    BY <1>0, <2>1, <2>2, <2>3 DEF Backing, SCHEDULED, PRESENTED
  <2> QED BY <1>2, <2>4, ReadingStep
<1>3. CASE /\ Sent(u) # SCHEDULED
           /\ db' = upsert_member_attendance(db, u, post.slot, post.group, post.round, Sent(u))
           /\ post' = [post EXCEPT !.left = @ \ {u}, !.statuses = @ \cup {Sent(u)},
                                   !.expired = @ \cup {post.group} \cup post.presentations]
  <2> DEFINE row == [student |-> u, slot |-> post.slot, group |-> post.group,
                     round |-> post.round, status |-> Sent(u)]
  <2>1. /\ post'.pc = "members" /\ post'.group = post.group /\ post'.slot = post.slot
        /\ post'.left = post.left \ {u} /\ post'.statuses = post.statuses \cup {Sent(u)}
        /\ post'.presentations = post.presentations /\ post'.members = post.members
    BY <1>0, <1>3 DEF PostSet
  <2>2. /\ db'.students = db.students /\ db'.pres = db.pres
        /\ db'.att = {a \in db.att : ~(a.student = u /\ a.slot = post.slot)} \cup {row}
    BY <1>0, <1>3 DEF upsert_member_attendance, DB, Database
  <2>3. \A g : DueStudents(g)' = DueStudents(g)
    BY <2>2, SameDue
  <2>4. (\A w, s : Marked(w, s) => Marked(w, s)') /\ Marked(u, post.slot)'
    <3>1. row \in db'.att /\ row.student = u /\ row.slot = post'.slot
      BY <2>1, <2>2
    <3>2. \A a \in db.att : a \in db'.att \/ (a.student = u /\ a.slot = post'.slot)
      BY <2>1, <2>2
    <3> HIDE DEF row
    <3> QED BY <3>1, <3>2 DEF Marked
  <2>5. NoBlankMark'
    BY <1>3, <2>2 DEF BackInv, NoBlankMark
  <2>6. \A x \in db'.pres : BackedRow(x)'
    BY <2>2, <2>4, StillBacked DEF BackInv
  <2>7. Backing'
    BY <1>0, <2>1, <2>3, <2>4 DEF Backing
  <2> QED BY <2>5, <2>6, <2>7 DEF BackInv
<1> QED BY <1>2, <1>3 DEF MarkMember

LEMMA LogStep ==
    ASSUME BackInv, AttTypeOK', LogMark PROVE BackInv'
<1>1. UNCHANGED db /\ AttTypeOK
  BY DEF LogMark, BackInv
<1>2. Backing'
  <2>1. CASE post' = NoPost
    BY <2>1, IdleBacking
  <2>2. CASE post' # NoPost
    <3>1. \A w, s : Marked(w, s)' <=> Marked(w, s)
      BY <1>1 DEF Marked
    <3>2. \A g : DueStudents(g)' = DueStudents(g)
      BY <1>1, SameDue
    <3> QED BY <1>1, <2>2, <3>1, <3>2, LogMarkFrame DEF Backing, BackInv
  <2> QED BY <2>1, <2>2
<1> QED BY <1>1, <1>2, ReadingStep

\* The rollup gives the group a status that its marks back.
LEMMA RollStep ==
    ASSUME BackInv, AttTypeOK', RollUp PROVE BackInv'
<1> DEFINE rolled == rollup_status(post.statuses)
           done   == [post EXCEPT !.pc = "next", !.group = NoGroup,
                                  !.handled = @ \cup {post.group}]
<1>0. /\ post \in PostSet /\ Backing /\ db \in DB
      /\ post.pc = "members" /\ post.left = {}
  BY AttTypes DEF BackInv, PostOK, RollUp, SolveTypeOK
<1>1. CASE post' = NoPost /\ UNCHANGED db
  BY <1>1, IdleBacking, ReadingStep
<1>2. ASSUME NEW e \in SUBSET GroupIds, post' = [done EXCEPT !.expired = e] \/ post' = done,
             db'.students = db.students
      PROVE  Backing'
  <2>1. /\ post'.pc = "next" /\ post'.presentations = post.presentations
        /\ post'.members = post.members
    BY <1>0, <1>2 DEF PostSet
  <2> QED BY <1>0, <1>2, <2>1, SameDue DEF Backing
<1>3. CASE post' = done /\ UNCHANGED db
  BY <1>2, <1>3, ReadingStep
<1>4. CASE /\ rolled # SCHEDULED
           /\ db' = update_presentation_status(db, post.group, post.slot, rolled)
           /\ post' = [done EXCEPT !.expired = @ \cup post.presentations]
  <2>1. /\ db'.students = db.students /\ db'.att = db.att
        /\ db'.pres = {IF x.group = post.group /\ x.slot = post.slot
                       THEN [x EXCEPT !.status = rolled] ELSE x : x \in db.pres}
    BY <1>0, <1>4 DEF update_presentation_status, DB, Database
  <2>2. Backing'
    <3>1. done.expired = post.expired /\ post.expired \cup post.presentations \in SUBSET GroupIds
      BY <1>0 DEF PostSet
    <3> QED BY <1>2, <1>4, <2>1, <3>1
  <2>3. \A u, s : Marked(u, s)' <=> Marked(u, s)
    BY <2>1 DEF Marked
  <2>4. /\ rolled = PRESENTED => \E u \in DueStudents(post.group) : Marked(u, post.slot)
        /\ rolled = NO_SHOW => \A u \in DueStudents(post.group) : Marked(u, post.slot)
    <3>1. rolled = PRESENTED => PRESENTED \in post.statuses
      BY DEF rollup_status, PRESENTED, NO_SHOW, SCHEDULED
    <3>2. rolled = NO_SHOW => SCHEDULED \notin post.statuses
      BY DEF rollup_status, PRESENTED, NO_SHOW, SCHEDULED
    <3> HIDE DEF rolled
    <3> QED BY <1>0, <3>1, <3>2 DEF Backing
  <2>5. \A x \in db'.pres : BackedRow(x)'
    <3>0. \A z : BackedRow(z) => BackedRow(z)'
      BY <2>1, <2>3, StillBacked
    <3> SUFFICES ASSUME NEW x \in db.pres, NEW y,
                        y = IF x.group = post.group /\ x.slot = post.slot
                            THEN [x EXCEPT !.status = rolled] ELSE x
                 PROVE  BackedRow(y)
      BY <2>1, <3>0
    <3>1. CASE x.group = post.group /\ x.slot = post.slot
      <4>1. x \in [group : GroupIds, slot : SlotIds, round : RoundIds, status : Statuses]
        BY <1>0 DEF DB, Database
      <4>2. y.group = post.group /\ y.slot = post.slot /\ y.status = rolled
        BY <3>1, <4>1
      <4> HIDE DEF rolled
      <4> QED BY <2>4, <4>2 DEF BackedRow
    <3>2. CASE ~(x.group = post.group /\ x.slot = post.slot)
      BY <3>2 DEF BackInv
    <3> QED BY <3>1, <3>2
  <2>6. NoBlankMark'
    BY <2>1 DEF BackInv, NoBlankMark
  <2> QED BY <2>2, <2>5, <2>6 DEF BackInv
<1> QED BY <1>1, <1>3, <1>4 DEF RollUp

LEMMA BackStep ==
    ASSUME BackInv, AttTypeOK', [AttNext]_attVars PROVE BackInv'
<1>1. CASE UNCHANGED attVars
  BY <1>1, OtherStep DEF attVars, solveVars
<1>2. ASSUME NEW s, TutorForm(s) PROVE BackInv'
  BY <1>2, OtherStep DEF TutorForm
<1>3. ASSUME NEW page \in pages, NEW form, TutorSubmit(page, form) PROVE BackInv'
  BY <1>3, SubmitBacking, ReadingStep DEF TutorSubmit, BackInv
<1>4. ASSUME NEW g, BeginGroup(g) PROVE BackInv'
  BY <1>4, BeginBacking, ReadingStep DEF BeginGroup
<1>5. CASE Answered200 \/ PostCrash
  BY <1>5, IdleBacking, ReadingStep DEF Answered200, PostCrash
<1>6. CASE PostStep
  BY <1>4, <1>5, <1>6, MarkStep, LogStep, RollStep DEF PostStep
<1>7. ASSUME NEW p \in Procs, NEW r \in db.rounds, StartSolve(p, r) PROVE BackInv'
  BY <1>7, OtherStep DEF StartSolve
<1>8. CASE Solving \/ ((\E p \in Procs : Crash(p)) /\ UNCHANGED <<pages, post>>) \/ AttEdit
  BY <1>8, OtherStep DEF Solving, AttEdit, Edit
<1> QED BY <1>1, <1>2, <1>3, <1>5, <1>6, <1>7, <1>8 DEF AttNext, Crashes

\* A presentation is PRESENTED or NO_SHOW only if somebody, or everybody, who is
\* due has a mark there, however submissions, crashes, edits and solves of any
\* number of processes interleave, if it was so to begin with.
THEOREM StatusIsBacked ==
    AttSpec /\ NoBlankMark /\ MarksBackStatus => []MarksBackStatus
<1>1. AttInit /\ NoBlankMark /\ MarksBackStatus /\ AttTypeOK => BackInv
  <2>1. AttInit => Backing
    BY DEF AttInit, Backing, NoPost
  <2> QED BY <2>1, BackedMeans DEF BackInv
<1>2. BackInv /\ AttTypeOK' /\ [AttNext]_attVars => BackInv'
  BY BackStep
<1>3. BackInv => MarksBackStatus
  BY BackedMeans DEF BackInv
<1> QED BY <1>1, <1>2, <1>3, AttTypeCorrect, PTL DEF AttSpec

-----------------------------------------------------------------------------
(* Keys and foreign keys.                                                  *)

Users == {s.user_id : s \in db.students}

\* What a mark of a member of g would name is there.
Parents(g, names) ==
    /\ g \in db.groups /\ names \subseteq Users
    /\ post.slot \in Ids(db.slots) /\ post.round \in Ids(db.rounds)

\* The handler that marks keeps the only ones that delete from running.
ParentsStay ==
    /\ post.pc # "idle" => \A g \in post.presentations : Parents(g, post.members[g])
    /\ post.pc = "members" => Parents(post.group, post.left)

SameParents ==
    /\ db'.students = db.students /\ db'.groups = db.groups
    /\ db'.slots = db.slots /\ db'.rounds = db.rounds

LEMMA SolveSameParents ==
    ASSUME db \in DB, NEW p \in Procs,
           SolveStep(p) \/ Crash(p) \/ \E r \in db.rounds : Start(p, r)
    PROVE  SameParents
<1>1. CASE DeleteOld(p)
  BY <1>1 DEF DeleteOld, delete_presentations, DB, Database, SameParents
<1>2. ASSUME NEW row, Create(p, row) PROVE SameParents
  BY <1>2 DEF Create, create_presentation, DB, Database, SameParents
<1>3. CASE UNCHANGED db
  BY <1>3 DEF SameParents
<1> QED BY <1>1, <1>2, <1>3
        DEF SolveStep, Crash, Start, ReadSlots, ReadAvail, ReadCurations, ReadGroups,
            ReadGroupMembers, ReadPriorAndAssign, SelectOld, CreateFails, Return

LEMMA ParentsFrame ==
    ASSUME SameParents, post'.slot = post.slot, post'.round = post.round
    PROVE  \A g, names : Parents(g, names)' <=> Parents(g, names)
  BY DEF SameParents, Parents, Users

LEMMA UnchangedParents ==
    ASSUME ParentsStay, SameParents, UNCHANGED post PROVE ParentsStay'
  BY ParentsFrame DEF ParentsStay

ConsistentInv == AttTypeOK /\ DatabaseConsistent /\ ParentsStay

LEMMA SubmitParents ==
    ASSUME ConsistentInv, NEW page \in pages, NEW form, TutorSubmit(page, form)
    PROVE  ParentsStay'
<1> DEFINE groups == {p.group : p \in get_presentations_for_slot(db, page.round, page.slot)}
<1>0. db \in DB /\ Consistent(db)
  BY DEF ConsistentInv, AttTypeOK, SolveTypeOK, DatabaseConsistent
<1>1. /\ post'.pc = "next" /\ post'.presentations = groups
      /\ post'.members = [g \in groups |-> DueStudents(g)]
      /\ post'.slot = page.slot /\ post'.round = page.round /\ db' = db
  BY DEF TutorSubmit, NoPost
<1>2. \A g \in groups : g \in db.groups /\ page.slot \in Ids(db.slots)
                        /\ page.round \in Ids(db.rounds)
  BY <1>0 DEF Consistent, ForeignKeys, get_presentations_for_slot
<1>3. \A g : DueStudents(g) \subseteq Users
  BY DEF DueStudents, Users
<1>4. Users' = Users
  BY <1>1 DEF Users
<1> HIDE DEF groups
<1>5. \A g \in groups : post'.members[g] = DueStudents(g)
  BY <1>1
<1> QED BY <1>1, <1>2, <1>3, <1>4, <1>5 DEF ParentsStay, Parents

LEMMA BeginParents ==
    ASSUME ConsistentInv, NEW g, BeginGroup(g) PROVE ParentsStay'
<1>0. post \in PostSet /\ ParentsStay /\ post.pc = "next" /\ g \in post.presentations
  BY AttTypes DEF ConsistentInv, PostOK, BeginGroup
<1>1. CASE post' = NoPost
  BY <1>1 DEF ParentsStay, NoPost
<1>2. CASE post' # NoPost
  <2>1. /\ post'.pc = "members" /\ post'.group = g /\ post'.left = post.members[g]
        /\ post'.presentations \subseteq post.presentations
        /\ post'.members = post.members /\ post'.slot = post.slot /\ post'.round = post.round
    BY <1>0, <1>2 DEF BeginGroup, PostSet
  <2>2. SameParents
    BY DEF BeginGroup, SameParents
  <2> QED BY <1>0, <2>1, <2>2, ParentsFrame DEF ParentsStay
<1> QED BY <1>1, <1>2

LEMMA MarkConsistent ==
    ASSUME ConsistentInv, NEW u, MarkMember(u)
    PROVE  DatabaseConsistent' /\ ParentsStay'
<1>0. /\ post \in PostSet /\ db \in DB /\ Consistent(db) /\ ParentsStay
      /\ post.pc = "members" /\ u \in post.left
  BY AttTypes DEF ConsistentInv, PostOK, MarkMember, SolveTypeOK, DatabaseConsistent
<1>1. Parents(post.group, post.left)
  BY <1>0 DEF ParentsStay
<1>2. DatabaseConsistent'
  <2>1. Consistent(upsert_member_attendance(db, u, post.slot, post.group, post.round, Sent(u)))
    BY <1>0, <1>1, UpsertAttendanceConsistent DEF Parents, Users
  <2> QED BY <1>0, <2>1 DEF MarkMember, DatabaseConsistent
<1>3. SameParents
  BY <1>0 DEF MarkMember, SameParents, upsert_member_attendance, DB, Database
<1>4. /\ post'.pc = "members" /\ post'.group = post.group /\ post'.left \subseteq post.left
      /\ post'.presentations = post.presentations /\ post'.members = post.members
      /\ post'.slot = post.slot /\ post'.round = post.round
  <2>1. CASE post' = [post EXCEPT !.left = @ \ {u}, !.statuses = @ \cup {SCHEDULED}]
    BY <1>0, <2>1 DEF PostSet
  <2>2. CASE post' = [post EXCEPT !.left = @ \ {u}, !.statuses = @ \cup {Sent(u)},
                                  !.expired = @ \cup {post.group} \cup post.presentations]
    BY <1>0, <2>2 DEF PostSet
  <2> QED BY <2>1, <2>2 DEF MarkMember
<1>5. Parents(post.group, post'.left)
  BY <1>1, <1>4 DEF Parents
<1> QED BY <1>0, <1>2, <1>3, <1>4, <1>5, ParentsFrame DEF ParentsStay

LEMMA LogConsistent ==
    ASSUME ConsistentInv, LogMark PROVE DatabaseConsistent' /\ ParentsStay'
<1>0. AttTypeOK /\ DatabaseConsistent /\ ParentsStay /\ UNCHANGED db
  BY DEF ConsistentInv, LogMark
<1>1. SameParents
  BY <1>0 DEF SameParents
<1>2. CASE post' = NoPost
  BY <1>0, <1>2 DEF ParentsStay, NoPost, DatabaseConsistent
<1>3. CASE post' # NoPost
  BY <1>0, <1>1, <1>3, LogMarkFrame, ParentsFrame DEF ParentsStay, DatabaseConsistent
<1> QED BY <1>2, <1>3

LEMMA RollConsistent ==
    ASSUME ConsistentInv, RollUp PROVE DatabaseConsistent' /\ ParentsStay'
<1>0. /\ post \in PostSet /\ db \in DB /\ Consistent(db) /\ ParentsStay /\ post.pc = "members"
  BY AttTypes DEF ConsistentInv, PostOK, RollUp, SolveTypeOK, DatabaseConsistent
<1>1. DatabaseConsistent'
  BY <1>0, UpdateStatusConsistent DEF RollUp, DatabaseConsistent
<1>2. SameParents
  BY <1>0 DEF RollUp, SameParents, update_presentation_status, DB, Database
<1>3. CASE post' = NoPost
  BY <1>1, <1>3 DEF ParentsStay, NoPost
<1>4. CASE post' # NoPost
  <2>1. /\ post'.pc = "next" /\ post'.presentations = post.presentations
        /\ post'.members = post.members /\ post'.slot = post.slot /\ post'.round = post.round
    <3> DEFINE done == [post EXCEPT !.pc = "next", !.group = NoGroup,
                                    !.handled = @ \cup {post.group}]
    <3>1. post' = done \/ post' = [done EXCEPT !.expired = @ \cup post.presentations]
      BY <1>4 DEF RollUp
    <3> QED BY <1>0, <3>1 DEF PostSet
  <2> QED BY <1>0, <1>1, <1>2, <2>1, ParentsFrame DEF ParentsStay
<1> QED BY <1>3, <1>4

LEMMA AttConsistentStep ==
    ASSUME ConsistentInv, [AttNext]_attVars PROVE DatabaseConsistent' /\ ParentsStay'
<1>0. db \in DB /\ DatabaseConsistent /\ ParentsStay
  BY DEF ConsistentInv, AttTypeOK, SolveTypeOK
<1>1. ASSUME UNCHANGED <<db, post>> PROVE DatabaseConsistent' /\ ParentsStay'
  <2>1. SameParents
    BY <1>1 DEF SameParents
  <2> QED BY <1>0, <1>1, <2>1, UnchangedParents DEF DatabaseConsistent
<1>2. ASSUME NEW p \in Procs, SolveStep(p) \/ Crash(p) \/ \E r \in db.rounds : Start(p, r),
             UNCHANGED post
      PROVE  DatabaseConsistent' /\ ParentsStay'
  BY <1>0, <1>2, SolveConsistent, SolveSameParents, UnchangedParents
<1>3. CASE AttEdit
  <2>1. DatabaseConsistent'
    BY <1>0, <1>3, EditConsistent DEF AttEdit, Edit, DatabaseConsistent
  <2> QED BY <1>3, <2>1 DEF AttEdit, ParentsStay
<1>4. ASSUME NEW page \in pages, NEW form, TutorSubmit(page, form)
      PROVE  DatabaseConsistent' /\ ParentsStay'
  BY <1>0, <1>4, SubmitParents DEF TutorSubmit, DatabaseConsistent
<1>5. CASE PostStep \/ PostCrash
  <2>1. ASSUME NEW g, BeginGroup(g) PROVE DatabaseConsistent' /\ ParentsStay'
    BY <1>0, <2>1, BeginParents DEF BeginGroup, DatabaseConsistent
  <2>2. CASE Answered200 \/ PostCrash
    BY <1>0, <2>2 DEF Answered200, PostCrash, DatabaseConsistent, ParentsStay, NoPost
  <2> QED BY <1>5, <2>1, <2>2, MarkConsistent, LogConsistent, RollConsistent DEF PostStep
<1>6. ASSUME NEW s, TutorForm(s) PROVE DatabaseConsistent' /\ ParentsStay'
  BY <1>1, <1>6 DEF TutorForm
<1>7. CASE UNCHANGED attVars
  BY <1>1, <1>7 DEF attVars, solveVars
<1>8. CASE Solving \/ Crashes \/ \E p \in Procs : \E r \in db.rounds : StartSolve(p, r)
  BY <1>2, <1>5, <1>8 DEF Solving, Crashes, StartSolve
<1> QED BY <1>3, <1>4, <1>5, <1>6, <1>7, <1>8 DEF AttNext

\* No mark and no status breaks a key or a foreign key, although commands solve
\* between the commits of a submission and delete the rows it has read.
THEOREM AttConsistencyKept == AttSpec => []DatabaseConsistent
<1>1. AttInit => DatabaseConsistent /\ ParentsStay
  BY IdsAssumption DEF AttInit, SolveInit, DatabaseConsistent, ParentsStay, NoPost
<1>2. AttTypeOK /\ (DatabaseConsistent /\ ParentsStay) /\ [AttNext]_attVars
         => (DatabaseConsistent /\ ParentsStay)'
  BY AttConsistentStep DEF ConsistentInv
<1> QED BY <1>1, <1>2, AttTypeCorrect, PTL DEF AttSpec

-----------------------------------------------------------------------------
(* The handlers of the web process, when no command solves.                *)

\* Nothing solves while a submission is worked on.
NobodySolves == post.pc # "idle" => \A p \in Procs : At(p, "idle")

\* What the submission has collected of the group it is at.
Collecting ==
    /\ post.pc = "idle" => post.handled = {}
    /\ post.pc # "idle" => \A g \in post.presentations : post.members[g] = DueStudents(g)
    /\ post.pc = "members" =>
          /\ post.left \subseteq DueStudents(post.group)
          /\ post.statuses = {Sent(u) : u \in DueStudents(post.group) \ post.left}

\* The status of a group is what was sent makes of it.
Follows(status, sent) ==
    /\ PRESENTED \in sent => status = PRESENTED
    /\ sent = {NO_SHOW} => status = NO_SHOW

SentOf(g) == {Sent(u) : u \in DueStudents(g)}

EffectInv == NobodySolves /\ Collecting /\ PostTakesEffect

LEMMA EffectMeans ==
    PostTakesEffect <=>
        \A g \in post.handled : \A p \in db.pres :
            p.group = g /\ p.slot = post.slot => Follows(p.status, SentOf(g))
  BY DEF PostTakesEffect, Rows, Follows, SentOf

LEMMA IdleEffect ==
    ASSUME post' = NoPost PROVE EffectInv'
  BY DEF EffectInv, NobodySolves, Collecting, PostTakesEffect, NoPost

LEMMA SameSent ==
    ASSUME db'.students = db.students, post'.form = post.form
    PROVE  (\A u : Sent(u)' = Sent(u)) /\ (\A g : SentOf(g)' = SentOf(g))
<1>1. \A u : Sent(u)' = Sent(u)
  BY DEF Sent
<1>2. \A g : DueStudents(g)' = DueStudents(g)
  BY SameDue
<1> QED BY <1>1, <1>2 DEF SentOf

\* Nothing of the submission changes before it is there.
LEMMA QuietEffect ==
    ASSUME EffectInv, post.pc = "idle", UNCHANGED post PROVE EffectInv'
  BY DEF EffectInv, NobodySolves, Collecting, PostTakesEffect

\* A step of the submission that leaves the presentations alone.
LEMMA CollectingStep ==
    ASSUME EffectInv, UNCHANGED solver, post.pc # "idle", Collecting',
           db'.students = db.students, db'.pres = db.pres,
           post'.form = post.form, post'.slot = post.slot, post'.handled = post.handled
    PROVE  EffectInv'
<1>1. NobodySolves'
  BY DEF EffectInv, NobodySolves, At
<1>2. \A g \in post'.handled : \A p \in db'.pres :
         p.group = g /\ p.slot = post'.slot => Follows(p.status, SentOf(g)')
  BY SameSent, EffectMeans DEF EffectInv
<1>3. PostTakesEffect'
  BY <1>2 DEF PostTakesEffect, Rows, Follows, SentOf
<1> QED BY <1>1, <1>3 DEF EffectInv

LEMMA SubmitEffect ==
    ASSUME Procs \subseteq {Web}, NEW page \in pages, NEW form, TutorSubmit(page, form)
    PROVE  EffectInv'
<1> DEFINE groups == {p.group : p \in get_presentations_for_slot(db, page.round, page.slot)}
<1>1. /\ post'.pc = "next" /\ post'.presentations = groups /\ post'.handled = {}
      /\ post'.members = [g \in groups |-> DueStudents(g)]
  BY DEF TutorSubmit, NoPost
<1>2. \A g : DueStudents(g)' = DueStudents(g)
  BY SameDue DEF TutorSubmit
<1>3. NobodySolves'
  BY DEF TutorSubmit, HandlerFree, WebFree, NobodySolves, At
<1> HIDE DEF groups
<1> QED BY <1>1, <1>2, <1>3 DEF EffectInv, Collecting, PostTakesEffect

LEMMA BeginEffect ==
    ASSUME AttTypeOK, EffectInv, NEW g, BeginGroup(g) PROVE EffectInv'
<1>0. post \in PostSet /\ Collecting /\ post.pc = "next" /\ g \in post.presentations
  BY AttTypes DEF EffectInv, PostOK, BeginGroup
<1>1. CASE post' # NoPost
  <2>1. /\ post'.pc = "members" /\ post'.group = g /\ post'.left = DueStudents(g)
        /\ post'.presentations \subseteq post.presentations /\ post'.statuses = {}
        /\ post'.members = post.members /\ post'.form = post.form
        /\ post'.slot = post.slot /\ post'.handled = post.handled
    BY <1>0, <1>1 DEF BeginGroup, PostSet, Collecting
  <2>2. \A h : DueStudents(h)' = DueStudents(h)
    BY SameDue DEF BeginGroup
  <2>3. Collecting'
    BY <1>0, <2>1, <2>2 DEF Collecting
  <2> QED BY <1>0, <2>1, <2>3, CollectingStep DEF BeginGroup
<1> QED BY <1>1, IdleEffect

LEMMA MarkEffect ==
    ASSUME AttTypeOK, EffectInv, NEW u, MarkMember(u) PROVE EffectInv'
<1>0. /\ post \in PostSet /\ Collecting /\ db \in DB
      /\ post.pc = "members" /\ u \in post.left
  BY AttTypes DEF EffectInv, PostOK, MarkMember, SolveTypeOK
<1>1. /\ post'.pc = "members" /\ post'.group = post.group /\ post'.slot = post.slot
      /\ post'.left = post.left \ {u} /\ post'.statuses = post.statuses \cup {Sent(u)}
      /\ post'.presentations = post.presentations /\ post'.members = post.members
      /\ post'.form = post.form /\ post'.handled = post.handled
  BY <1>0 DEF MarkMember, PostSet
<1>2. db'.students = db.students /\ db'.pres = db.pres
  BY <1>0 DEF MarkMember, upsert_member_attendance, DB, Database
<1>3. (\A g : DueStudents(g)' = DueStudents(g)) /\ (\A w : Sent(w)' = Sent(w))
  BY <1>1, <1>2, SameDue, SameSent
<1>4. {Sent(w) : w \in DueStudents(post.group) \ (post.left \ {u})}
        = {Sent(w) : w \in DueStudents(post.group) \ post.left} \cup {Sent(u)}
  BY <1>0 DEF Collecting
<1>5. Collecting'
  BY <1>0, <1>1, <1>3, <1>4 DEF Collecting
<1> QED BY <1>0, <1>1, <1>2, <1>5, CollectingStep DEF MarkMember

LEMMA LogEffect ==
    ASSUME AttTypeOK, EffectInv, LogMark PROVE EffectInv'
<1>1. CASE post' # NoPost
  <2>1. Collecting /\ UNCHANGED <<db, solver>>
    BY DEF EffectInv, LogMark
  <2>2. (\A g : DueStudents(g)' = DueStudents(g)) /\ (\A w : Sent(w)' = Sent(w))
    BY <1>1, <2>1, LogMarkFrame, SameDue, SameSent
  <2>3. Collecting'
    BY <1>1, <2>1, <2>2, LogMarkFrame DEF Collecting
  <2> QED BY <1>1, <2>1, <2>3, LogMarkFrame, CollectingStep
<1> QED BY <1>1, IdleEffect

LEMMA RolledFollows == \A sent : Follows(rollup_status(sent), sent)
  BY DEF Follows, rollup_status, PRESENTED, NO_SHOW, SCHEDULED

LEMMA UnrolledFollows ==
    ASSUME NEW sent, rollup_status(sent) = SCHEDULED, NEW status PROVE Follows(status, sent)
  BY DEF Follows, rollup_status, PRESENTED, NO_SHOW, SCHEDULED

LEMMA RollEffect ==
    ASSUME AttTypeOK, EffectInv, RollUp PROVE EffectInv'
<1> DEFINE sent   == SentOf(post.group)
           rolled == rollup_status(post.statuses)
           done   == [post EXCEPT !.pc = "next", !.group = NoGroup,
                                  !.handled = @ \cup {post.group}]
<1>0. /\ post \in PostSet /\ Collecting /\ db \in DB
      /\ post.pc = "members" /\ post.left = {} /\ post.statuses = sent
  BY AttTypes DEF EffectInv, PostOK, RollUp, SolveTypeOK, Collecting, SentOf
<1>1. CASE post' # NoPost
  <2>1. /\ post'.pc = "next" /\ post'.slot = post.slot /\ post'.form = post.form
        /\ post'.presentations = post.presentations /\ post'.members = post.members
        /\ post'.handled = post.handled \cup {post.group}
    <3>1. post' = done \/ post' = [done EXCEPT !.expired = @ \cup post.presentations]
      BY <1>1 DEF RollUp
    <3> QED BY <1>0, <3>1 DEF PostSet
  <2>2. db'.students = db.students
    BY <1>0, <1>1 DEF RollUp, update_presentation_status, DB, Database
  <2>3. (\A g : DueStudents(g)' = DueStudents(g)) /\ (\A g : SentOf(g)' = SentOf(g))
    BY <2>1, <2>2, SameDue, SameSent
  <2>4. Collecting'
    BY <1>0, <2>1, <2>3 DEF Collecting
  <2>5. NobodySolves'
    BY <1>0 DEF EffectInv, NobodySolves, At, RollUp
  <2>6. \A g \in post.handled : \A p \in db.pres :
           p.group = g /\ p.slot = post.slot => Follows(p.status, SentOf(g))
    BY EffectMeans DEF EffectInv
  <2>7. \A g \in post.handled \cup {post.group} : \A p \in db'.pres :
           p.group = g /\ p.slot = post.slot => Follows(p.status, SentOf(g))
    <3>1. CASE rolled = SCHEDULED
      <4>1. db' = db
        BY <3>1 DEF RollUp
      <4>2. \A status : Follows(status, sent)
        BY <1>0, <3>1, UnrolledFollows
      <4> QED BY <2>6, <4>1, <4>2
    <3>2. CASE rolled # SCHEDULED
      <4>1. db'.pres = {IF x.group = post.group /\ x.slot = post.slot
                        THEN [x EXCEPT !.status = rolled] ELSE x : x \in db.pres}
        BY <1>0, <1>1, <3>2 DEF RollUp, update_presentation_status, DB, Database
      <4>2. Follows(rolled, sent)
        BY <1>0, RolledFollows
      <4> SUFFICES ASSUME NEW g \in post.handled \cup {post.group}, NEW x \in db.pres, NEW y,
                          y = IF x.group = post.group /\ x.slot = post.slot
                              THEN [x EXCEPT !.status = rolled] ELSE x,
                          y.group = g, y.slot = post.slot
                   PROVE  Follows(y.status, SentOf(g))
        BY <4>1
      <4>3. CASE x.group = post.group /\ x.slot = post.slot
        <5>1. x \in [group : GroupIds, slot : SlotIds, round : RoundIds, status : Statuses]
          BY <1>0 DEF DB, Database
        <5>2. y.group = post.group /\ y.status = rolled
          BY <4>3, <5>1
        <5> QED BY <4>2, <5>2
      <4>4. CASE ~(x.group = post.group /\ x.slot = post.slot)
        BY <2>6, <4>4
      <4> QED BY <4>3, <4>4
    <3> QED BY <3>1, <3>2
  <2>8. \A g \in post'.handled : \A p \in db'.pres :
           p.group = g /\ p.slot = post'.slot => Follows(p.status, SentOf(g)')
    BY <2>1, <2>3, <2>7
  <2>9. PostTakesEffect'
    BY <2>8 DEF PostTakesEffect, Rows, Follows, SentOf
  <2> QED BY <2>4, <2>5, <2>9 DEF EffectInv
<1> QED BY <1>1, IdleEffect

LEMMA EffectStep ==
    ASSUME Procs \subseteq {Web}, AttTypeOK, EffectInv, [AttNext]_attVars PROVE EffectInv'
<1>1. CASE UNCHANGED attVars
  BY <1>1 DEF attVars, solveVars, EffectInv, NobodySolves, At, Collecting, DueStudents, Sent,
              PostTakesEffect, Rows
<1>2. ASSUME NEW s \in db.slots, TutorForm(s) PROVE EffectInv'
  BY <1>2, QuietEffect DEF TutorForm, HandlerFree
<1>3. ASSUME NEW page \in pages, NEW form, TutorSubmit(page, form) PROVE EffectInv'
  BY <1>3, SubmitEffect
<1>4. CASE Answered200 \/ PostCrash
  BY <1>4, IdleEffect DEF Answered200, PostCrash
<1>5. ASSUME NEW p \in Procs, SolveStep(p) \/ Crash(p), UNCHANGED post PROVE EffectInv'
  <2>1. ~At(p, "idle")
    BY <1>5 DEF At, SolveStep, Crash, ReadSlots, ReadAvail, ReadCurations, ReadGroups,
                ReadGroupMembers, ReadPriorAndAssign, SelectOld, DeleteOld, Create, CreateFails, Return
  <2>2. post.pc = "idle"
    BY <2>1 DEF EffectInv, NobodySolves
  <2> QED BY <1>5, <2>2, QuietEffect
<1>6. ASSUME NEW p \in Procs, NEW r, StartSolve(p, r) PROVE EffectInv'
  BY <1>6, QuietEffect DEF StartSolve
<1>7. CASE AttEdit
  BY <1>7, QuietEffect DEF AttEdit
<1>8. CASE PostStep
  BY <1>4, <1>8, BeginEffect, MarkEffect, LogEffect, RollEffect DEF PostStep
<1> QED BY <1>1, <1>2, <1>3, <1>4, <1>5, <1>6, <1>7, <1>8 DEF AttNext, Solving, Crashes

\* When the web process alone works on the file, a submission that has gone
\* through a group has given it the status that was sent, from however old a
\* page, over whatever was marked before, and wherever an earlier submission or
\* solve was cut short.
THEOREM SubmissionTakesEffect ==
    ASSUME Procs \subseteq {Web} PROVE AttSpec => []PostTakesEffect
<1>1. AttInit => EffectInv
  BY DEF AttInit, SolveInit, EffectInv, NobodySolves, Collecting, PostTakesEffect, NoPost, At
<1>2. AttTypeOK /\ EffectInv /\ [AttNext]_attVars => EffectInv'
  BY EffectStep
<1>3. EffectInv => PostTakesEffect
  BY DEF EffectInv
<1> QED BY <1>1, <1>2, <1>3, AttTypeCorrect, PTL DEF AttSpec

-----------------------------------------------------------------------------
(* Who has presented counts as presented, and is not scheduled again, as   *)
(* long as nothing undoes it: a submission is not cut short in a group,    *)
(* and a round is not solved again once somebody has presented in it.      *)

HasPresented(a) == a \in db.att /\ a.status = PRESENTED

Orderly ==
    /\ PostCrash => post.pc = "next"
    /\ \A p \in Procs : \A r \in db.rounds : Start(p, r) =>
          \A a : HasPresented(a) => a.round # r.id

\* A mark is of a due member, at a slot of its round where the group has a row.
Standing(a) ==
    /\ a.student \in DueStudents(a.group)
    /\ \E t \in db.slots : t.id = a.slot /\ t.round = a.round
    /\ \E x \in db.pres : x.group = a.group /\ x.slot = a.slot

Counted(a) ==
    \A x \in db.pres : x.group = a.group /\ x.slot = a.slot => x.status = PRESENTED

\* The marks agree with the presentations to begin with.
WellCounted ==
    /\ SlotOfSameRound
    /\ \A a : HasPresented(a) => Standing(a) /\ Counted(a)

\* The submission is about to set the status the mark asks for.
Pending(a) ==
    /\ post.pc = "members" /\ post.group = a.group /\ post.slot = a.slot
    /\ PRESENTED \in post.statuses

HasRow(g) == \E x \in db.pres : x.group = g /\ x.slot = post.slot /\ x.round = post.round

\* The groups of the submission have their rows, and the marks of the members it
\* has visited are those that were sent.
Written ==
    /\ post.pc # "idle" => \A g \in post.presentations : HasRow(g)
    /\ post.pc = "members" =>
          /\ HasRow(post.group)
          /\ \A a \in db.att :
                a.slot = post.slot /\ a.student \in DueStudents(post.group) \ post.left =>
                    Sent(a.student) \in {SCHEDULED, a.status}

\* Nobody has presented in a round that is being solved.
Unmarked == ~At(Web, "idle") => \A a : HasPresented(a) => a.round # solver[Web].round

CountInv ==
    /\ \A a : HasPresented(a) => Standing(a) /\ (Counted(a) \/ Pending(a))
    /\ Written /\ Unmarked

\* What is proved of every step before.
Groundwork == AttTypeOK /\ DatabaseConsistent /\ EffectInv /\ WebInv /\ SlotOfSameRound

LEMMA OneGroupOnly ==
    ASSUME DatabaseConsistent, NEW u, NEW g, NEW h, u \in DueStudents(g), u \in DueStudents(h)
    PROVE  g = h
  BY DEF DatabaseConsistent, Consistent, KeysUnique, DueStudents

\* A mark that counts is of the round its presentation is of.
LEMMA SameRound ==
    ASSUME DatabaseConsistent, SlotOfSameRound, NEW a, Standing(a),
           NEW x \in db.pres, x.slot = a.slot
    PROVE  x.round = a.round
  BY DEF DatabaseConsistent, Consistent, KeysUnique, SlotOfSameRound, Standing

\* The process works on one round.
LEMMA RoundStays ==
    ASSUME SolveTypeOK, NEW p \in Procs, SolveStep(p) \/ Crash(p)
    PROVE  /\ solver[p].pc # "idle"
           /\ solver'[p].pc = "idle" \/ solver'[p].round = solver[p].round
<1>0. ProcOK(solver[p]) /\ p \in DOMAIN solver
  BY DEF SolveTypeOK
<1>1. solver[p].pc # "idle"
  BY DEF At, SolveStep, Crash, ReadSlots, ReadAvail, ReadCurations, ReadGroups,
         ReadGroupMembers, ReadPriorAndAssign, SelectOld, DeleteOld, Create, CreateFails, Return
<1>2. CASE ReadSlots(p) \/ ReadAvail(p) \/ ReadCurations(p) \/ ReadGroups(p)
         \/ ReadGroupMembers(p)
  BY <1>0, <1>1, <1>2
     DEF ReadSlots, ReadAvail, ReadCurations, ReadGroups, ReadGroupMembers, Becomes, ProcOK
<1>3. CASE ReadPriorAndAssign(p)
  <2>1. ASSUME NEW plan, Becomes(p, [Idle EXCEPT !.pc = "select", !.round = solver[p].round,
                                               !.plan = plan])
        PROVE  solver'[p].round = solver[p].round
    BY <1>0, <2>1 DEF Becomes, Idle
  <2>2. Becomes(p, Idle) => solver'[p].pc = "idle"
    BY <1>0 DEF Becomes, Idle
  <2>3. \/ \E plan : Becomes(p, [Idle EXCEPT !.pc = "select", !.round = solver[p].round, !.plan = plan])
        \/ Becomes(p, Idle)
    BY <1>3 DEF ReadPriorAndAssign
  <2> QED BY <1>1, <2>1, <2>2, <2>3
<1>4. CASE SelectOld(p) \/ DeleteOld(p) \/ \E row \in solver[p].todo : Create(p, row)
  BY <1>0, <1>1, <1>4 DEF SelectOld, DeleteOld, Create, Becomes, ProcOK
<1>5. CASE Crash(p) \/ Return(p) \/ \E row \in solver[p].todo : CreateFails(p, row)
  BY <1>0, <1>1, <1>5 DEF Crash, Return, CreateFails, Becomes, Idle
<1> QED BY <1>1, <1>2, <1>3, <1>4, <1>5 DEF SolveStep

\* A step of others that leaves the marks, and what they name, alone.
LEMMA CountFrame ==
    ASSUME CountInv, post.pc = "idle", UNCHANGED post, Keeps,
           \A t \in db.slots : t \in db'.slots \/ ~SlotReferenced(db, t.id),
           \A a : HasPresented(a) =>
              /\ \E x \in db'.pres : x.group = a.group /\ x.slot = a.slot
              /\ \A x \in db'.pres : x.group = a.group /\ x.slot = a.slot => x \in db.pres,
           Unmarked'
    PROVE  CountInv'
<1>1. \A g : DueStudents(g)' = DueStudents(g)
  BY SameDue DEF Keeps
<1>2. Written'
  BY DEF Written
<1>3. ASSUME NEW a, HasPresented(a)' PROVE Standing(a)' /\ Counted(a)'
  <2>1. HasPresented(a) /\ Standing(a) /\ Counted(a)
    BY <1>3 DEF HasPresented, Keeps, CountInv, Pending
  <2>2. PICK t \in db.slots : t.id = a.slot /\ t.round = a.round
    BY <2>1 DEF Standing
  <2>3. t \in db'.slots
    BY <2>1, <2>2 DEF SlotReferenced, HasPresented
  <2>4. Standing(a)'
    BY <1>1, <2>1, <2>2, <2>3 DEF Standing
  <2> QED BY <2>1, <2>4 DEF Counted
<1> QED BY <1>2, <1>3 DEF CountInv

LEMMA SolveCount ==
    ASSUME Procs = {Web}, Groundwork, CountInv, UNCHANGED post, Orderly, post.pc = "idle",
           SolveStep(Web) \/ Crash(Web) \/ \E r \in db.rounds : Start(Web, r)
    PROVE  CountInv'
<1> DEFINE s == solver[Web]
<1>0. /\ db \in DB /\ ProcOK(s) /\ Web \in DOMAIN solver /\ Web \in Procs
      /\ SolveTypeOK /\ Replacing(s)
  BY DEF Groundwork, AttTypeOK, SolveTypeOK, WebInv, SoleInv
<1>1. Keeps /\ db'.slots = db.slots
  BY <1>0, SolveKeeps, SolveSameParents DEF SameParents
<1>2. Unmarked'
  <2>1. CASE SolveStep(Web) \/ Crash(Web)
    <3>1. s.pc # "idle" /\ (solver'[Web].pc = "idle" \/ solver'[Web].round = s.round)
      BY <1>0, <2>1, RoundStays
    <3> QED BY <1>1, <3>1 DEF Unmarked, CountInv, At, HasPresented, Keeps
  <2>2. ASSUME NEW r \in db.rounds, Start(Web, r) PROVE Unmarked'
    <3>1. solver'[Web].round = r.id
      BY <1>0, <2>2 DEF Start, Becomes, Idle
    <3>2. \A a : HasPresented(a) => a.round # r.id
      BY <1>0, <2>2 DEF Orderly
    <3> QED BY <1>1, <3>1, <3>2 DEF Unmarked, HasPresented, Keeps
  <2> QED BY <2>1, <2>2
<1>3. ASSUME NEW a, HasPresented(a)
      PROVE  /\ \E x \in db'.pres : x.group = a.group /\ x.slot = a.slot
             /\ \A x \in db'.pres : x.group = a.group /\ x.slot = a.slot => x \in db.pres
  <2>1. Standing(a)
    BY <1>3 DEF CountInv
  <2>2. PICK x \in db.pres : x.group = a.group /\ x.slot = a.slot
    BY <2>1 DEF Standing
  <2>3. CASE DeleteOld(Web)
    <3>1. /\ db'.pres = {y \in db.pres : PresKey(y) \notin s.old}
          /\ s.old = {PresKey(y) : y \in get_presentations_for_round(db, s.round)}
      BY <1>0, <2>3 DEF DeleteOld, At, Replacing, delete_presentations, DB, Database
    <3>2. a.round # s.round
      BY <1>3, <2>3 DEF DeleteOld, At, CountInv, Unmarked
    <3>3. \A y \in db.pres : y.round = s.round => y.slot # a.slot
      BY <2>1, <3>2, SameRound DEF Groundwork
    <3>4. \A y : PresKey(y) = PresKey(x) => y.slot = a.slot
      BY <2>2 DEF PresKey
    <3>5. PresKey(x) \notin s.old
      BY <3>1, <3>3, <3>4 DEF get_presentations_for_round
    <3> QED BY <2>2, <3>1, <3>5
  <2>4. ASSUME NEW row \in s.todo, Create(Web, row)
        PROVE  /\ x \in db'.pres
               /\ \A y \in db'.pres : y.group = a.group /\ y.slot = a.slot => y \in db.pres
    <3>1. /\ db'.pres = db.pres \cup {RowOf(row, s.round)}
          /\ PresKey(x) # [group |-> row.group, slot |-> row.slot]
      BY <1>0, <2>4 DEF Create, create_presentation, CanCreatePresentation, RowOf, DB, Database
    <3> QED BY <2>2, <3>1 DEF PresKey, RowOf
  <2>5. CASE UNCHANGED db
    BY <2>2, <2>5
  <2> QED BY <2>2, <2>3, <2>4, <2>5
          DEF SolveStep, Crash, Start, ReadSlots, ReadAvail, ReadCurations, ReadGroups,
              ReadGroupMembers, ReadPriorAndAssign, SelectOld, CreateFails, Return
<1> QED BY <1>1, <1>2, <1>3, CountFrame

LEMMA EditCount ==
    ASSUME Procs = {Web}, Groundwork, CountInv, AttEdit PROVE CountInv'
<1>1. /\ db \in DB /\ post.pc = "idle" /\ UNCHANGED <<post, solver>>
      /\ solver[Web].pc = "idle" /\ AdminRequest
  BY DEF Groundwork, AttTypeOK, SolveTypeOK, AttEdit, Edit, WebFree
<1>2. Keeps /\ db'.pres = db.pres
  BY <1>1, EditType, EditKeeps DEF Keeps
<1>3. \A t \in db.slots : t \in db'.slots \/ ~SlotReferenced(db, t.id)
  BY <1>1, EditSlots
<1>4. Unmarked'
  BY <1>1 DEF Unmarked, At
<1> QED BY <1>1, <1>2, <1>3, <1>4, CountFrame DEF CountInv, Standing

\* The tables stay as they are, and no status was pending.
LEMMA ReadingCount ==
    ASSUME CountInv, UNCHANGED <<db, solver>>, post.pc # "members", Written' PROVE CountInv'
<1>1. \A a : HasPresented(a)' => HasPresented(a) /\ Standing(a)' /\ Counted(a)'
  <2>1. \A g : DueStudents(g)' = DueStudents(g)
    BY SameDue
  <2> QED BY <2>1 DEF HasPresented, CountInv, Standing, Counted, Pending
<1>2. Unmarked'
  BY DEF CountInv, Unmarked, At, HasPresented
<1> QED BY <1>1, <1>2 DEF CountInv

LEMMA SubmitCount ==
    ASSUME CountInv, NEW page \in pages, NEW form, TutorSubmit(page, form) PROVE CountInv'
<1> DEFINE groups == {p.group : p \in get_presentations_for_slot(db, page.round, page.slot)}
<1>1. /\ post'.pc = "next" /\ post'.presentations = groups
      /\ post'.slot = page.slot /\ post'.round = page.round
      /\ UNCHANGED <<db, solver>> /\ post.pc = "idle"
  BY DEF TutorSubmit, NoPost, HandlerFree
<1>2. \A g \in groups : \E x \in db.pres : x.group = g /\ x.slot = page.slot /\ x.round = page.round
  BY DEF get_presentations_for_slot
<1> HIDE DEF groups
<1>3. Written'
  BY <1>1, <1>2 DEF Written, HasRow
<1> QED BY <1>1, <1>3, ReadingCount

LEMMA BeginCount ==
    ASSUME Groundwork, CountInv, NEW g, BeginGroup(g) PROVE CountInv'
<1>0. /\ post \in PostSet /\ post.pc = "next" /\ g \in post.presentations /\ Collecting
      /\ UNCHANGED <<db, solver>> /\ Written
  BY AttTypes DEF Groundwork, PostOK, BeginGroup, EffectInv, CountInv
<1>1. CASE post' = NoPost
  BY <1>0, <1>1, ReadingCount DEF Written, NoPost
<1>2. CASE post' # NoPost
  <2>1. /\ post'.pc = "members" /\ post'.group = g /\ post'.left = DueStudents(g)
        /\ post'.presentations \subseteq post.presentations
        /\ post'.slot = post.slot /\ post'.round = post.round
    BY <1>0, <1>2 DEF BeginGroup, PostSet, Collecting
  <2>2. DueStudents(g)' = DueStudents(g)
    BY <1>0, SameDue
  <2>3. Written'
    BY <1>0, <2>1, <2>2 DEF Written, HasRow
  <2> QED BY <1>0, <2>3, ReadingCount
<1> QED BY <1>1, <1>2

LEMMA StopCount ==
    ASSUME CountInv, UNCHANGED <<db, solver>>, post' = NoPost, post.pc # "members"
    PROVE  CountInv'
  BY ReadingCount DEF Written, NoPost

\* A submission that ends in a group has been cut short.
LEMMA NotCutShort ==
    ASSUME Orderly, post.pc = "members", UNCHANGED <<db, solver, pages>> PROVE post' # NoPost
  BY DEF Orderly, PostCrash

LEMMA RollGoesOn ==
    ASSUME Orderly, post \in PostSet, RollUp PROVE post' # NoPost
<1> DEFINE done == [post EXCEPT !.pc = "next", !.group = NoGroup,
                                !.handled = @ \cup {post.group}]
<1>1. post.pc = "members" /\ UNCHANGED <<solver, pages>>
  BY DEF RollUp
<1>2. CASE UNCHANGED db
  BY <1>1, <1>2, NotCutShort
<1>3. CASE post' = [done EXCEPT !.expired = @ \cup post.presentations]
  <2>1. post'.pc = "next"
    BY <1>1, <1>3 DEF PostSet
  <2> QED BY <2>1 DEF NoPost
<1> QED BY <1>2, <1>3 DEF RollUp

LEMMA MarkCount ==
    ASSUME Procs = {Web}, Groundwork, CountInv, NEW u, MarkMember(u) PROVE CountInv'
<1>0. /\ post \in PostSet /\ db \in DB /\ Collecting /\ Written /\ NobodySolves
      /\ post.pc = "members" /\ u \in post.left /\ post.left \subseteq DueStudents(post.group)
  BY AttTypes DEF Groundwork, AttTypeOK, SolveTypeOK, PostOK, MarkMember, EffectInv, CountInv, Collecting
<1> DEFINE row == [student |-> u, slot |-> post.slot, group |-> post.group,
                   round |-> post.round, status |-> Sent(u)]
           mine(a) == a.student = u /\ a.slot = post.slot
<1>1. /\ post'.pc = "members" /\ post'.group = post.group /\ post'.slot = post.slot
      /\ post'.round = post.round /\ post'.form = post.form
      /\ post'.left = post.left \ {u} /\ post'.statuses = post.statuses \cup {Sent(u)}
      /\ post'.presentations = post.presentations
  BY <1>0 DEF MarkMember, PostSet
<1>2. /\ db'.students = db.students /\ db'.pres = db.pres /\ db'.slots = db.slots
      /\ solver' = solver
      /\ \/ Sent(u) = SCHEDULED /\ db'.att = db.att
         \/ db'.att = {a \in db.att : ~mine(a)} \cup {row}
  BY <1>0 DEF MarkMember, upsert_member_attendance, DB, Database
<1>3. (\A g : DueStudents(g)' = DueStudents(g)) /\ (\A w : Sent(w)' = Sent(w))
  BY <1>1, <1>2, SameDue, SameSent
<1>4. HasRow(post.group) /\ \A g \in post.presentations : HasRow(g)
  BY <1>0 DEF Written
<1>5. \A g : HasRow(g) => HasRow(g)'
  BY <1>1, <1>2 DEF HasRow
<1>6. row.student = u /\ row.slot = post.slot /\ row.group = post.group
      /\ row.round = post.round /\ row.status = Sent(u)
  OBVIOUS
<1> HIDE DEF row
<1>7. Written'
  <2>1. ASSUME NEW a \in db'.att, a.slot = post.slot,
               a.student \in DueStudents(post.group) \ (post.left \ {u})
        PROVE  Sent(a.student) \in {SCHEDULED, a.status}
    <3>1. CASE a = row
      BY <1>6, <3>1
    <3>2. CASE a.student = u /\ a # row
      BY <1>2, <2>1, <3>2
    <3>3. CASE a.student # u /\ a # row
      BY <1>0, <1>2, <2>1, <3>3 DEF Written
    <3> QED BY <3>1, <3>2, <3>3
  <2> QED BY <1>1, <1>3, <1>4, <1>5, <2>1 DEF Written
<1>8. ASSUME NEW a, HasPresented(a)' PROVE Standing(a)' /\ (Counted(a)' \/ Pending(a)')
  <2>1. CASE a = row
    <3>1. Sent(u) = PRESENTED
      BY <1>3, <1>6, <1>8, <2>1 DEF HasPresented
    <3>2. PICK x \in db.pres : x.group = post.group /\ x.slot = post.slot /\ x.round = post.round
      BY <1>4 DEF HasRow
    <3>3. PICK t \in db.slots : t.id = post.slot /\ t.round = post.round
      BY <3>2 DEF Groundwork, SlotOfSameRound
    <3>4. Standing(a)'
      BY <1>0, <1>2, <1>3, <1>6, <2>1, <3>2, <3>3 DEF Standing
    <3>5. Pending(a)'
      BY <1>1, <1>6, <2>1, <3>1 DEF Pending
    <3> QED BY <3>4, <3>5
  <2>2. CASE a # row
    <3>1. HasPresented(a)
      BY <1>2, <1>8, <2>2 DEF HasPresented
    <3>2. Standing(a) /\ (Counted(a) \/ Pending(a))
      BY <3>1 DEF CountInv
    <3> QED BY <1>1, <1>2, <1>3, <3>2 DEF Standing, Counted, Pending
  <2> QED BY <2>1, <2>2
<1>9. Unmarked'
  BY <1>0, <1>2 DEF Unmarked, NobodySolves, At
<1> QED BY <1>7, <1>8, <1>9 DEF CountInv

LEMMA LogCount ==
    ASSUME Procs = {Web}, Groundwork, CountInv, LogMark, post' # NoPost PROVE CountInv'
<1>0. AttTypeOK /\ Written /\ UNCHANGED <<db, solver>> /\ post.pc = "members"
  BY DEF Groundwork, CountInv, LogMark
<1>1. /\ post'.pc = "members" /\ post'.group = post.group /\ post'.slot = post.slot
      /\ post'.round = post.round /\ post'.form = post.form /\ post'.left = post.left
      /\ post'.statuses = post.statuses /\ post'.presentations = post.presentations
  BY <1>0, LogMarkFrame
<1>2. (\A g : DueStudents(g)' = DueStudents(g)) /\ (\A w : Sent(w)' = Sent(w))
  BY <1>0, <1>1, SameDue, SameSent
<1>3. Written'
  BY <1>0, <1>1, <1>2 DEF Written, HasRow
<1>4. \A a : HasPresented(a)' => Standing(a)' /\ (Counted(a)' \/ Pending(a)')
  BY <1>0, <1>1, <1>2 DEF CountInv, HasPresented, Standing, Counted, Pending
<1>5. Unmarked'
  BY <1>0 DEF CountInv, Unmarked, At, HasPresented
<1> QED BY <1>3, <1>4, <1>5 DEF CountInv

LEMMA RollCount ==
    ASSUME Procs = {Web}, Groundwork, CountInv, RollUp, post' # NoPost PROVE CountInv'
<1> DEFINE rolled == rollup_status(post.statuses)
           done   == [post EXCEPT !.pc = "next", !.group = NoGroup,
                                  !.handled = @ \cup {post.group}]
           here(x) == x.group = post.group /\ x.slot = post.slot
<1>0. /\ post \in PostSet /\ db \in DB /\ Collecting /\ Written /\ NobodySolves
      /\ post.pc = "members" /\ post.left = {}
  BY AttTypes DEF Groundwork, AttTypeOK, SolveTypeOK, PostOK, RollUp, EffectInv, CountInv
<1>1. /\ post'.pc = "next" /\ post'.slot = post.slot /\ post'.round = post.round
      /\ post'.presentations = post.presentations
  <2>1. post' = done \/ post' = [done EXCEPT !.expired = @ \cup post.presentations]
    BY DEF RollUp
  <2> QED BY <1>0, <2>1 DEF PostSet
<1>2. /\ db'.students = db.students /\ db'.att = db.att /\ db'.slots = db.slots
      /\ solver' = solver
      /\ \/ rolled = SCHEDULED /\ db'.pres = db.pres
         \/ /\ rolled # SCHEDULED
            /\ db'.pres = {IF here(x) THEN [x EXCEPT !.status = rolled] ELSE x : x \in db.pres}
  BY <1>0 DEF RollUp, update_presentation_status, DB, Database
<1>3. \A g : DueStudents(g)' = DueStudents(g)
  BY <1>2, SameDue
\* Each row stays, with the status of the rollup if it is of the group.
<1>4. /\ \A x \in db.pres : \E y \in db'.pres :
            y.group = x.group /\ y.slot = x.slot /\ y.round = x.round
      /\ \A y \in db'.pres : \E x \in db.pres :
            /\ y.group = x.group /\ y.slot = x.slot
            /\ y.status = IF here(x) /\ rolled # SCHEDULED THEN rolled ELSE x.status
  <2>1. \A x \in db.pres :
           /\ x \in [group : GroupIds, slot : SlotIds, round : RoundIds, status : Statuses]
           /\ LET y == [x EXCEPT !.status = rolled]
              IN  /\ y.group = x.group /\ y.slot = x.slot /\ y.round = x.round
                  /\ y.status = rolled
    BY <1>0 DEF DB, Database
  <2> HIDE DEF rolled, here
  <2>2. CASE rolled = SCHEDULED
    BY <1>2, <2>2
  <2>3. CASE rolled # SCHEDULED
    BY <1>2, <2>1, <2>3
  <2> QED BY <2>2, <2>3
<1>5. Written'
  BY <1>0, <1>1, <1>4 DEF Written, HasRow
<1>6. ASSUME NEW a, HasPresented(a)' PROVE Standing(a)' /\ Counted(a)'
  <2>1. HasPresented(a) /\ Standing(a) /\ (Counted(a) \/ Pending(a))
    BY <1>2, <1>6 DEF HasPresented, CountInv
  <2>2. Standing(a)'
    <3>1. db'.slots = db.slots
      BY <1>2
    <3> HIDE DEF rolled, here
    <3> QED BY <1>3, <1>4, <2>1, <3>1 DEF Standing
  <2>3. CASE here(a)
    <3>1. a.student \in DueStudents(post.group) \ post.left
      BY <1>0, <2>1, <2>3 DEF Standing
    <3>2. Sent(a.student) \in {SCHEDULED, PRESENTED}
      BY <1>0, <2>1, <2>3, <3>1 DEF Written, HasPresented
    <3>3. Sent(a.student) \in post.statuses
      BY <1>0, <3>1 DEF Collecting
    <3>4. rolled \in {PRESENTED, SCHEDULED}
      BY <3>2, <3>3 DEF rollup_status, PRESENTED, SCHEDULED, NO_SHOW
    <3>5. rolled = SCHEDULED => Counted(a)
      BY <2>1 DEF Pending, rollup_status, PRESENTED, SCHEDULED, NO_SHOW
    <3> HIDE DEF rolled
    <3> QED BY <1>4, <2>2, <2>3, <3>4, <3>5 DEF Counted
  <2>4. CASE ~here(a)
    <3>1. Counted(a)
      BY <2>1, <2>4 DEF Pending
    <3> HIDE DEF rolled
    <3> QED BY <1>4, <2>2, <2>4, <3>1 DEF Counted
  <2> QED BY <2>3, <2>4
<1>7. Unmarked'
  BY <1>0, <1>2 DEF Unmarked, NobodySolves, At
<1> QED BY <1>5, <1>6, <1>7 DEF CountInv

LEMMA CountStep ==
    ASSUME Procs = {Web}, Groundwork, CountInv, Orderly, [AttNext]_attVars PROVE CountInv'
<1>0. post \in PostSet
  BY AttTypes DEF Groundwork, PostOK
<1>1. CASE UNCHANGED attVars
  BY <1>1 DEF attVars, solveVars, CountInv, HasPresented, Standing, Counted, Pending, Written,
              HasRow, Unmarked, At, DueStudents, Sent
<1>2. ASSUME NEW s \in db.slots, TutorForm(s) PROVE CountInv'
  <2>1. UNCHANGED <<db, solver, post>> /\ post.pc = "idle"
    BY <1>2 DEF TutorForm, HandlerFree
  <2> QED BY <2>1, ReadingCount DEF Written
<1>3. ASSUME NEW page \in pages, NEW form, TutorSubmit(page, form) PROVE CountInv'
  BY <1>3, SubmitCount
<1>4. ASSUME NEW g, BeginGroup(g) PROVE CountInv'
  BY <1>4, BeginCount
<1>5. CASE Answered200 \/ PostCrash
  <2>1. UNCHANGED <<db, solver>> /\ post' = NoPost /\ post.pc # "members"
    BY <1>5 DEF Answered200, PostCrash, Orderly
  <2> QED BY <2>1, StopCount
<1>6. ASSUME NEW u, MarkMember(u) PROVE CountInv'
  BY <1>6, MarkCount
<1>7. CASE RollUp
  <2>1. post' # NoPost
    BY <1>0, <1>7, RollGoesOn
  <2> QED BY <1>7, <2>1, RollCount
<1>8. CASE Solving \/ ((\E p \in Procs : Crash(p)) /\ UNCHANGED <<pages, post>>)
  <2>1. UNCHANGED post /\ (SolveStep(Web) \/ Crash(Web))
    BY <1>8 DEF Solving
  <2>2. post.pc = "idle"
    <3>1. solver[Web].pc # "idle"
      BY <2>1, RoundStays DEF Groundwork, AttTypeOK
    <3> QED BY <3>1 DEF Groundwork, EffectInv, NobodySolves, At
  <2> QED BY <2>1, <2>2, SolveCount
<1>9. ASSUME NEW p \in Procs, NEW r \in db.rounds, StartSolve(p, r) PROVE CountInv'
  BY <1>9, SolveCount DEF StartSolve
<1>10. CASE AttEdit
  BY <1>10, EditCount
<1>11. CASE LogMark
  <2>1. post' # NoPost
    BY <1>11, NotCutShort DEF LogMark
  <2> QED BY <1>11, <2>1, LogCount
<1> QED BY <1>1, <1>2, <1>3, <1>4, <1>5, <1>6, <1>7, <1>8, <1>9, <1>10, <1>11
        DEF AttNext, PostStep, Crashes

-----------------------------------------------------------------------------
(* What the solver knows survives submissions, and what follows.           *)

\* A submission changes neither a plan nor on which slot a presentation is.
LEMMA WebAttStep ==
    ASSUME Procs = {Web}, AttTypeOK, AttTypeOK', DatabaseConsistent', NobodySolves,
           WebInv, SlotOfSameRound, [AttNext]_attVars
    PROVE  WebInv' /\ SlotOfSameRound'
<1>1. ASSUME [SolveNext]_solveVars PROVE WebInv' /\ SlotOfSameRound'
  <2>1. SoleInv(Web)'
    BY <1>1, SoleNext DEF WebInv, AttTypeOK
  <2> QED BY <1>1, <2>1, WebStep, SameRoundStep
<1>2. ASSUME UNCHANGED solver, post.pc # "idle", db'.slots = db.slots,
             \A y \in db'.pres : \E x \in db.pres : y.slot = x.slot /\ y.round = x.round
      PROVE  WebInv' /\ SlotOfSameRound'
  <2>1. solver[Web].pc = "idle"
    BY <1>2 DEF NobodySolves, At
  <2>2. SoleInv(Web)'
    BY <1>2, <2>1 DEF AttTypeOK, WebInv, SoleInv, Replacing
  <2>3. UpToDate(db', solver'[Web])
    BY <1>2, <2>1 DEF UpToDate, Reads, SolveWrites
  <2> QED BY <1>2, <2>2, <2>3 DEF WebInv, SlotOfSameRound
<1>3. db \in DB
  BY DEF AttTypeOK, SolveTypeOK
<1>4. ASSUME NEW u, MarkMember(u) PROVE WebInv' /\ SlotOfSameRound'
  BY <1>2, <1>3, <1>4 DEF MarkMember, upsert_member_attendance, DB, Database
<1>5. CASE RollUp
  <2>1. /\ db'.slots = db.slots
        /\ db'.pres \subseteq db.pres \cup {[x EXCEPT !.status = rollup_status(post.statuses)] : x \in db.pres}
    BY <1>3, <1>5 DEF RollUp, update_presentation_status, DB, Database
  <2>2. ASSUME NEW y \in db'.pres PROVE \E x \in db.pres : y.slot = x.slot /\ y.round = x.round
    <3>1. PICK x \in db.pres : y = x \/ y = [x EXCEPT !.status = rollup_status(post.statuses)]
      BY <2>1
    <3>2. x \in [group : GroupIds, slot : SlotIds, round : RoundIds, status : Statuses]
      BY <1>3 DEF DB, Database
    <3> QED BY <3>1, <3>2
  <2>3. UNCHANGED solver /\ post.pc # "idle"
    BY <1>5 DEF RollUp
  <2> QED BY <1>2, <2>1, <2>2, <2>3
<1>6. CASE UNCHANGED solveVars
  BY <1>1, <1>6
<1>7. CASE \/ \E s \in db.slots : TutorForm(s)
           \/ \E page \in pages : \E form \in Forms(page) : TutorSubmit(page, form)
           \/ \E g \in post.presentations : BeginGroup(g)
           \/ LogMark \/ Answered200 \/ PostCrash \/ UNCHANGED attVars
  BY <1>6, <1>7
     DEF TutorForm, TutorSubmit, BeginGroup, LogMark, Answered200, PostCrash, attVars, solveVars
<1>8. CASE Solving \/ AttEdit \/ (\E p \in Procs : Crash(p))
           \/ \E p \in Procs : \E r \in db.rounds : StartSolve(p, r)
  BY <1>1, <1>8 DEF Solving, AttEdit, StartSolve, SolveNext
<1> QED BY <1>4, <1>5, <1>7, <1>8 DEF AttNext, PostStep, Crashes

LEMMA CountMeans ==
    ASSUME Procs = {Web}, Groundwork, CountInv PROVE PresentedMemberCounts /\ DoneIsExcluded
<1>1. ASSUME Quiet, NEW p \in db.pres, PRESENTED \in MemberMarks(p.group, p.slot)
      PROVE  p.status = PRESENTED
  <2>1. PICK u \in DueStudents(p.group) :
           PRESENTED = IF \E a \in db.att : a.student = u /\ a.slot = p.slot
                       THEN (CHOOSE a \in db.att : a.student = u /\ a.slot = p.slot).status
                       ELSE SCHEDULED
    BY <1>1 DEF MemberMarks
  <2>2. \E a \in db.att : a.student = u /\ a.slot = p.slot
    BY <2>1 DEF PRESENTED, SCHEDULED
  <2>3. PICK a \in db.att : a.student = u /\ a.slot = p.slot /\ a.status = PRESENTED
    BY <2>1, <2>2
  <2>4. Standing(a) /\ (Counted(a) \/ Pending(a))
    BY <2>3 DEF CountInv, HasPresented
  <2>5. a.group = p.group
    BY <2>1, <2>3, <2>4, OneGroupOnly DEF Standing, Groundwork
  <2> QED BY <1>1, <2>3, <2>4, <2>5 DEF Quiet, Pending, Counted
<1>2. ASSUME NEW r \in db.rounds, SolvedRound(r), NEW p \in db.pres, p.round = r.id,
             PinsOf(r, p.group) = {},
             NEW a \in db.att, a.group = p.group, a.round < r.id, a.status = PRESENTED
      PROVE  FALSE
  <2>1. ~PresentedBefore(r, p.group)
    <3>1. ScheduleSound
      BY SolvedIsRight DEF Groundwork
    <3>2. p \in {x \in db.pres : x.round = r.id} /\ ~(p.slot \in PinsOf(r, p.group))
      BY <1>2
    <3> QED BY <1>2, <3>1, <3>2 DEF ScheduleSound, InPool
  <2>2. Standing(a) /\ (Counted(a) \/ Pending(a))
    BY <1>2 DEF CountInv, HasPresented
  <2>3. PICK x \in db.pres : x.group = a.group /\ x.slot = a.slot
    BY <2>2 DEF Standing
  <2>4. x.round = a.round
    BY <2>2, <2>3, SameRound DEF Groundwork
  <2>5. ~Pending(a)
    BY <1>2 DEF SolvedRound, At, Pending, Groundwork, EffectInv, NobodySolves
  <2> QED BY <1>2, <2>1, <2>2, <2>3, <2>4, <2>5 DEF Counted, PresentedBefore
<1>3. DoneIsExcluded
  BY <1>2 DEF DoneIsExcluded
<1> QED BY <1>1, <1>3 DEF PresentedMemberCounts

LEMMA CountAlways ==
    ASSUME Procs = {Web}
    PROVE  AttSpec /\ WellCounted /\ [][Orderly]_attVars => [](Groundwork /\ CountInv)
<1>1. AttInit /\ WellCounted /\ AttTypeOK /\ DatabaseConsistent => Groundwork /\ CountInv
  <2> SUFFICES ASSUME AttInit, WellCounted, AttTypeOK, DatabaseConsistent
               PROVE  Groundwork /\ CountInv
    OBVIOUS
  <2>1. SolveInit /\ post = NoPost /\ post.pc = "idle" /\ At(Web, "idle")
    BY DEF AttInit, SolveInit, NoPost, At, Idle
  <2>2. WebInv
    BY <2>1, SoleInit DEF WebInv, UpToDate, Reads, SolveWrites, At
  <2>3. EffectInv
    BY <2>1 DEF EffectInv, NobodySolves, Collecting, PostTakesEffect, NoPost
  <2>4. CountInv
    BY <2>1 DEF CountInv, WellCounted, Written, Unmarked
  <2> QED BY <2>2, <2>3, <2>4 DEF Groundwork, WellCounted
<1>2. /\ Groundwork /\ CountInv /\ AttTypeOK' /\ DatabaseConsistent'
      /\ [AttNext]_attVars /\ [Orderly]_attVars
      => (Groundwork /\ CountInv)'
  <2> SUFFICES ASSUME Groundwork, CountInv, AttTypeOK', DatabaseConsistent',
                      [AttNext]_attVars, [Orderly]_attVars
               PROVE  (Groundwork /\ CountInv)'
    OBVIOUS
  <2>1. EffectInv'
    BY EffectStep DEF Groundwork
  <2>2. WebInv' /\ SlotOfSameRound'
    BY WebAttStep DEF Groundwork, EffectInv
  <2>3. CountInv'
    <3>1. CASE Orderly
      BY <3>1, CountStep
    <3>2. CASE UNCHANGED attVars
      BY <3>2 DEF attVars, solveVars, CountInv, HasPresented, Standing, Counted, Pending, Written,
                  HasRow, Unmarked, At, DueStudents, Sent
    <3> QED BY <3>1, <3>2
  <2> QED BY <2>1, <2>2, <2>3 DEF Groundwork
<1> QED BY <1>1, <1>2, AttTypeCorrect, AttConsistencyKept, PTL DEF AttSpec

\* When the web process alone works on the file, no submission is cut short in a
\* group and no round is solved again once somebody has presented in it, a
\* presentation where a member has presented counts as presented, whatever pages
\* are open and in whatever order they are sent.
THEOREM PresentedCounts ==
    ASSUME Procs = {Web}
    PROVE  AttSpec /\ WellCounted /\ [][Orderly]_attVars => []PresentedMemberCounts
<1>1. Groundwork /\ CountInv => PresentedMemberCounts
  BY CountMeans
<1> QED BY <1>1, CountAlways, PTL

\* And a group with a member who has presented is in no later schedule, but for
\* the pins.
THEOREM WhoHasPresentedIsDone ==
    ASSUME Procs = {Web}
    PROVE  AttSpec /\ WellCounted /\ [][Orderly]_attVars => []DoneIsExcluded
<1>1. Groundwork /\ CountInv => DoneIsExcluded
  BY CountMeans
<1> QED BY <1>1, CountAlways, PTL
=============================================================================
