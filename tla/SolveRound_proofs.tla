-------------------------- MODULE SolveRound_proofs --------------------------
(***************************************************************************)
(* Theorems about SolveRound, for every set of students, groups, rounds,   *)
(* slots and databases, and every plan the assignment may return.          *)
(***************************************************************************)
EXTENDS SolveRound, Repository_proofs, Assign_proofs

-----------------------------------------------------------------------------
(* Type correctness.                                                       *)

LEMMA KeysOf == db \in DB => {PresKey(x) : x \in db.pres} \subseteq Keys
  BY DEF DB, Database, PresKey, Keys

LEMMA IdleOK == ProcOK(Idle)
  BY IdsAssumption DEF ProcOK, Idle, Labels, RoundIds, Keys

\* It is enough to look at the record that changes.
LEMMA FrameType ==
    ASSUME SolveTypeOK, NEW p \in Procs, NEW s, Becomes(p, s), ProcOK(s), db' \in DB
    PROVE  SolveTypeOK'
  BY DEF SolveTypeOK, Becomes, ProcOK

\* Every step of a solver keeps its own record in shape and touches no other.
LEMMA SolveStepType ==
    ASSUME SolveTypeOK, NEW p \in Procs,
           SolveStep(p) \/ Crash(p) \/ \E r \in db.rounds : Start(p, r)
    PROVE  SolveTypeOK'
<1> DEFINE s == solver[p]
<1>0. ProcOK(s) /\ db \in DB
  BY DEF SolveTypeOK
<1>1. CASE ReadSlots(p)
  <2>1. \A i : ProcOK([s EXCEPT !.pc = "avail", !.inp = i])
    BY <1>0 DEF ProcOK, Labels
  <2> QED BY <1>0, <1>1, <2>1, FrameType DEF ReadSlots
<1>2. CASE ReadAvail(p)
  <2>1. \A i : ProcOK([s EXCEPT !.pc = "curations", !.inp = i])
    BY <1>0 DEF ProcOK, Labels
  <2> QED BY <1>0, <1>2, <2>1, FrameType DEF ReadAvail
<1>3. CASE ReadCurations(p)
  <2>1. \A i : ProcOK([s EXCEPT !.pc = "groups", !.inp = i])
    BY <1>0 DEF ProcOK, Labels
  <2> QED BY <1>0, <1>3, <2>1, FrameType DEF ReadCurations
<1>4. CASE ReadGroups(p) \/ ReadGroupMembers(p)
  <2>1. \A i : ProcOK([s EXCEPT !.pc = "students", !.inp = i])
    BY <1>0 DEF ProcOK, Labels
  <2>2. \A i : ProcOK([s EXCEPT !.pc = "prior", !.inp = i])
    BY <1>0 DEF ProcOK, Labels
  <2> QED BY <1>0, <1>4, <2>1, <2>2, FrameType DEF ReadGroups, ReadGroupMembers
<1>5. CASE ReadPriorAndAssign(p)
  <2>1. \A plan : ProcOK([Idle EXCEPT !.pc = "select", !.round = s.round, !.plan = plan])
    BY <1>0, IdleOK DEF ProcOK, Labels, Idle
  <2> QED BY <1>0, <1>5, <2>1, IdleOK, FrameType DEF ReadPriorAndAssign
<1>6. CASE SelectOld(p)
  <2>1. {PresKey(x) : x \in get_presentations_for_round(db, s.round)} \subseteq Keys
    BY <1>0, KeysOf DEF get_presentations_for_round
  <2>2. \A old \in SUBSET Keys : ProcOK([s EXCEPT !.pc = "delete", !.old = old])
    BY <1>0 DEF ProcOK, Labels
  <2> QED BY <1>0, <1>6, <2>1, <2>2, FrameType DEF SelectOld
<1>7. CASE DeleteOld(p)
  <2>1. ProcOK([s EXCEPT !.pc = "create", !.old = {}, !.todo = s.plan])
    BY <1>0 DEF ProcOK, Labels
  <2> QED BY <1>0, <1>7, <2>1, DeletePresentationsType, FrameType DEF DeleteOld
<1>8. ASSUME NEW row \in s.todo, Create(p, row) PROVE SolveTypeOK'
  <2>1. ProcOK([s EXCEPT !.todo = @ \ {row}])
    BY <1>0 DEF ProcOK
  <2> QED BY <1>0, <1>8, <2>1, CreatePresentationType, FrameType DEF Create
<1>9. ASSUME NEW row \in s.todo, CreateFails(p, row) PROVE SolveTypeOK'
  BY <1>0, <1>9, IdleOK, FrameType DEF CreateFails
<1>10. CASE Return(p)
  BY <1>0, <1>10, IdleOK, FrameType DEF Return
<1>11. CASE Crash(p)
  BY <1>0, <1>11, IdleOK, FrameType DEF Crash
<1>12. ASSUME NEW r \in db.rounds, Start(p, r) PROVE SolveTypeOK'
  <2>1. r.id \in RoundIds
    BY <1>0 DEF DB, Database
  <2>2. \A i : ProcOK([Idle EXCEPT !.pc = "slots", !.round = r.id, !.inp = i])
    BY <2>1, IdleOK DEF ProcOK, Labels, Idle
  <2>3. \A f : [Idle EXCEPT !.pc = "slots", !.round = r.id, !.inp = [@ EXCEPT !.quorum = f]]
             = [Idle EXCEPT !.pc = "slots", !.round = r.id,
                            !.inp = [Idle.inp EXCEPT !.quorum = f]]
    OBVIOUS
  <2> QED BY <1>0, <1>12, <2>2, <2>3, FrameType DEF Start
<1> QED BY <1>1, <1>2, <1>3, <1>4, <1>5, <1>6, <1>7, <1>8, <1>9, <1>10, <1>11, <1>12
        DEF SolveStep

\* The tables and the solvers' records keep their shape, whoever interleaves.
THEOREM TypeCorrect == SolveSpec => []SolveTypeOK
<1>1. SolveInit => SolveTypeOK
  BY IdleOK, IdsAssumption DEF SolveInit, SolveTypeOK
<1>2. SolveTypeOK /\ [SolveNext]_solveVars => SolveTypeOK'
  <2> SUFFICES ASSUME SolveTypeOK, [SolveNext]_solveVars PROVE SolveTypeOK'
    OBVIOUS
  <2>1. CASE Edit
    BY <2>1, EditType DEF Edit, SolveTypeOK
  <2>2. ASSUME NEW p \in Procs,
               SolveStep(p) \/ Crash(p) \/ \E r \in db.rounds : Start(p, r)
        PROVE  SolveTypeOK'
    BY <2>2, SolveStepType
  <2>3. CASE UNCHANGED solveVars
    BY <2>3 DEF solveVars, SolveTypeOK
  <2> QED BY <2>1, <2>2, <2>3 DEF SolveNext
<1> QED BY <1>1, <1>2, PTL DEF SolveSpec

-----------------------------------------------------------------------------
(* Keys and foreign keys.                                                  *)

LEMMA SolveConsistent ==
    ASSUME db \in DB, DatabaseConsistent, NEW p \in Procs,
           SolveStep(p) \/ Crash(p) \/ \E r \in db.rounds : Start(p, r)
    PROVE  DatabaseConsistent'
<1>1. CASE DeleteOld(p)
  BY <1>1, DeletePresentationsConsistent DEF DeleteOld, DatabaseConsistent
<1>2. ASSUME NEW row, Create(p, row) PROVE DatabaseConsistent'
  BY <1>2, CreatePresentationConsistent DEF Create, DatabaseConsistent
<1>3. CASE UNCHANGED db
  BY <1>3 DEF DatabaseConsistent
<1> QED BY <1>1, <1>2, <1>3
        DEF SolveStep, Crash, Start, ReadSlots, ReadAvail, ReadCurations, ReadGroups,
            ReadGroupMembers, ReadPriorAndAssign, SelectOld, CreateFails, Return

\* Whatever edits, solves of any number of processes and crashes interleave, no
\* key is taken twice and no row names a row that is gone.
THEOREM ConsistencyKept == SolveSpec => []DatabaseConsistent
<1>1. SolveInit => DatabaseConsistent
  BY IdsAssumption DEF SolveInit, DatabaseConsistent
<1>2. SolveTypeOK /\ DatabaseConsistent /\ [SolveNext]_solveVars => DatabaseConsistent'
  <2> SUFFICES ASSUME SolveTypeOK, DatabaseConsistent, [SolveNext]_solveVars
               PROVE  DatabaseConsistent'
    OBVIOUS
  <2>0. db \in DB
    BY DEF SolveTypeOK
  <2>1. CASE Edit
    BY <2>0, <2>1, EditConsistent DEF Edit, DatabaseConsistent
  <2>2. CASE UNCHANGED solveVars
    BY <2>2 DEF solveVars, DatabaseConsistent
  <2> QED BY <2>0, <2>1, <2>2, SolveConsistent DEF SolveNext
<1> QED BY <1>1, <1>2, TypeCorrect, PTL DEF SolveSpec

-----------------------------------------------------------------------------
(* One process solves.                                                     *)

\* result.assignments is a dict: the plan has one row for a group, and its rows
\* have no other field.
Dict(plan) ==
    /\ \A x \in plan : x = [group |-> x.group, slot |-> x.slot]
    /\ \A x, y \in plan : x.group = y.group => x = y

LEMMA AssignmentsDict == \A inp : Dict(assignments(inp, Threshold))
<1> SUFFICES ASSUME NEW f PROVE Dict({[group |-> g, slot |-> f[g]] : g \in DOMAIN f})
  BY DEF assignments
<1> QED BY DEF Dict

RowOf(k, r) == [group |-> k.group, slot |-> k.slot, round |-> r, status |-> SCHEDULED]

\* Where the rows of the round stand with respect to the plan of the process
\* that replaces them.
Replacing(s) ==
    /\ Dict(s.plan)
    /\ s.pc = "delete" =>
         s.old = {PresKey(x) : x \in get_presentations_for_round(db, s.round)}
    /\ s.pc = "create" =>
         get_presentations_for_round(db, s.round) =
             {RowOf(k, s.round) : k \in s.plan \ s.todo}

SoleInv(w) == SolveTypeOK /\ Replacing(solver[w])

LEMMA IdleReplacing == Replacing(Idle)
  BY DEF Replacing, Idle, Dict

\* A step that leaves the presentations alone and does not come to "delete" or
\* "create" keeps the invariant when its plan is a dict.
LEMMA QuietStep ==
    ASSUME NEW w, Procs = {w}, SoleInv(w), SolveTypeOK',
           NEW s, Becomes(w, s), Dict(s.plan), s.pc \notin {"delete", "create"},
           UNCHANGED db
    PROVE  SoleInv(w)'
<1>1. solver'[w] = s
  BY DEF Becomes, SoleInv, SolveTypeOK
<1> QED BY <1>1 DEF SoleInv, Replacing

LEMMA SoleStep ==
    ASSUME NEW w, Procs = {w}, SoleInv(w), SolveTypeOK',
           SolveStep(w) \/ Crash(w) \/ \E r \in db.rounds : Start(w, r)
    PROVE  SoleInv(w)'
<1> DEFINE s == solver[w]
           rows == get_presentations_for_round(db, s.round)
<1>0. ProcOK(s) /\ db \in DB /\ Replacing(s) /\ w \in DOMAIN solver
  BY DEF SoleInv, SolveTypeOK
<1>1. Dict(Idle.plan) /\ Idle.pc \notin {"delete", "create"}
  BY DEF Idle, Dict
<1>2. Dict(s.plan)
  BY <1>0 DEF Replacing
<1>3. CASE ReadSlots(w)
  BY <1>0, <1>2, <1>3, QuietStep DEF ReadSlots, ProcOK
<1>4. CASE ReadAvail(w)
  BY <1>0, <1>2, <1>4, QuietStep DEF ReadAvail, ProcOK
<1>5. CASE ReadCurations(w)
  BY <1>0, <1>2, <1>5, QuietStep DEF ReadCurations, ProcOK
<1>6. CASE ReadGroups(w) \/ ReadGroupMembers(w)
  BY <1>0, <1>2, <1>6, QuietStep DEF ReadGroups, ReadGroupMembers, ProcOK
<1>7. CASE ReadPriorAndAssign(w)
  <2>1. \A r, plan : LET t == [Idle EXCEPT !.pc = "select", !.round = r, !.plan = plan]
                     IN  t.plan = plan /\ t.pc = "select"
    BY DEF Idle
  <2> QED BY <1>1, <1>7, <2>1, AssignmentsDict, QuietStep DEF ReadPriorAndAssign
<1>8. CASE SelectOld(w)
  <2>1. /\ solver'[w].pc = "delete" /\ solver'[w].plan = s.plan /\ solver'[w].round = s.round
        /\ solver'[w].old = {PresKey(x) : x \in rows}
    BY <1>0, <1>8 DEF SelectOld, Becomes, ProcOK
  <2> QED BY <1>0, <1>2, <1>8, <2>1
          DEF SelectOld, SoleInv, Replacing
<1>9. CASE DeleteOld(w)
  <2>1. /\ solver'[w].pc = "create" /\ solver'[w].plan = s.plan /\ solver'[w].round = s.round
        /\ solver'[w].todo = s.plan
    BY <1>0, <1>9 DEF DeleteOld, Becomes, ProcOK
  <2>2. db'.pres = {x \in db.pres : PresKey(x) \notin s.old}
    BY <1>0, <1>9 DEF DeleteOld, delete_presentations, DB, Database
  <2>3. \A x \in rows : PresKey(x) \in s.old
    BY <1>0, <1>9 DEF DeleteOld, At, Replacing
  <2>4. get_presentations_for_round(db', s.round) = {}
    BY <2>2, <2>3 DEF get_presentations_for_round
  <2>5. Replacing(s)'
    BY <1>2, <2>1, <2>4 DEF Replacing
  <2> QED BY <2>5 DEF SoleInv
<1>10. ASSUME NEW row \in s.todo, Create(w, row) PROVE SoleInv(w)'
  <2> DEFINE new == RowOf(row, s.round)
  <2>1. /\ solver'[w].pc = "create" /\ solver'[w].plan = s.plan /\ solver'[w].round = s.round
        /\ solver'[w].todo = s.todo \ {row}
    BY <1>0, <1>10 DEF Create, Becomes, At, ProcOK
  <2>2. db'.pres = db.pres \cup {new}
    BY <1>0, <1>10 DEF Create, create_presentation, RowOf, DB, Database
  <2>3. rows = {RowOf(k, s.round) : k \in s.plan \ s.todo} /\ row \in s.plan
    BY <1>0, <1>10 DEF Create, At, Replacing, ProcOK
  <2>4. get_presentations_for_round(db', s.round) = rows \cup {new}
    BY <2>2 DEF get_presentations_for_round, RowOf
  <2>5. s.plan \ (s.todo \ {row}) = (s.plan \ s.todo) \cup {row}
    BY <2>3
  <2>6. Replacing(s)'
    BY <1>2, <2>1, <2>3, <2>4, <2>5 DEF Replacing
  <2> QED BY <2>6 DEF SoleInv
<1>11. ASSUME NEW row \in s.todo, CreateFails(w, row) PROVE SoleInv(w)'
  BY <1>1, <1>11, QuietStep DEF CreateFails
<1>12. CASE Return(w)
  BY <1>1, <1>12, QuietStep DEF Return
<1>13. CASE Crash(w)
  BY <1>1, <1>13, QuietStep DEF Crash
<1>14. ASSUME NEW r \in db.rounds, Start(w, r) PROVE SoleInv(w)'
  <2>1. \A i, j : LET t == [Idle EXCEPT !.pc = "slots", !.round = i, !.inp = j]
                  IN  t.plan = {} /\ t.pc = "slots"
    BY DEF Idle
  <2>2. Dict({})
    BY DEF Dict
  <2> QED BY <1>14, <2>1, <2>2, QuietStep DEF Start
<1> QED BY <1>3, <1>4, <1>5, <1>6, <1>7, <1>8, <1>9, <1>10, <1>11, <1>12, <1>13, <1>14
        DEF SolveStep

LEMMA SoleEdit ==
    ASSUME NEW w, SoleInv(w), SolveTypeOK', Edit \/ UNCHANGED solveVars
    PROVE  SoleInv(w)'
<1>1. db'.pres = db.pres /\ solver' = solver
  BY EditType DEF Edit, solveVars, SoleInv, SolveTypeOK
<1> QED BY <1>1 DEF SoleInv, Replacing, get_presentations_for_round

\* The row that is created is the first of its group in the round: those that
\* are there are others of the plan.
LEMMA SoleOneRow ==
    ASSUME NEW w, Procs = {w}, SoleInv(w), OneRowPerGroup, [SolveNext]_solveVars
    PROVE  OneRowPerGroup'
<1> DEFINE s == solver[w]
<1>0. ProcOK(s) /\ db \in DB /\ Replacing(s) /\ OneRow(db)
  BY DEF SoleInv, SolveTypeOK, OneRowPerGroup
<1>1. CASE db'.pres \subseteq db.pres
  BY <1>0, <1>1 DEF OneRowPerGroup, OneRow
<1>2. ASSUME NEW row \in s.todo, Create(w, row) PROVE OneRowPerGroup'
  <2>1. db'.pres = db.pres \cup {RowOf(row, s.round)}
    BY <1>0, <1>2 DEF Create, create_presentation, RowOf, DB, Database
  <2>2. get_presentations_for_round(db, s.round) = {RowOf(k, s.round) : k \in s.plan \ s.todo}
    BY <1>0, <1>2 DEF Create, At, Replacing
  <2>3. \A x \in db.pres : x.round = s.round => x.group # row.group
    <3> SUFFICES ASSUME NEW x \in db.pres, x.round = s.round PROVE x.group # row.group
      OBVIOUS
    <3>1. PICK k \in s.plan \ s.todo : x = RowOf(k, s.round)
      BY <2>2 DEF get_presentations_for_round
    <3>2. row \in s.plan /\ k.group # row.group
      BY <1>0, <1>2 DEF Dict, Replacing, ProcOK
    <3> QED BY <3>1, <3>2 DEF RowOf
  <2> QED BY <1>0, <2>1, <2>3 DEF OneRowPerGroup, OneRow, RowOf
<1>3. CASE DeleteOld(w)
  BY <1>0, <1>1, <1>3 DEF DeleteOld, delete_presentations, DB, Database
<1>4. CASE Edit \/ UNCHANGED solveVars
  BY <1>0, <1>1, <1>4, EditType DEF Edit, solveVars
<1> QED BY <1>1, <1>2, <1>3, <1>4
        DEF SolveNext, SolveStep, Crash, Start, ReadSlots, ReadAvail, ReadCurations,
            ReadGroups, ReadGroupMembers, ReadPriorAndAssign, SelectOld, CreateFails, Return

LEMMA SoleInit ==
    ASSUME NEW w, Procs = {w}, SolveInit PROVE SoleInv(w)
<1>1. SolveTypeOK
  BY IdleOK, IdsAssumption DEF SolveInit, SolveTypeOK
<1> QED BY <1>1, IdleReplacing DEF SolveInit, SoleInv

LEMMA SoleNext ==
    ASSUME NEW w, Procs = {w}, SoleInv(w), SolveTypeOK', [SolveNext]_solveVars
    PROVE  SoleInv(w)'
<1>1. CASE Edit \/ UNCHANGED solveVars
  BY <1>1, SoleEdit
<1>2. CASE SolveStep(w) \/ Crash(w) \/ \E r \in db.rounds : Start(w, r)
  BY <1>2, SoleStep
<1> QED BY <1>1, <1>2 DEF SolveNext

LEMMA SoleAlways ==
    ASSUME NEW w, Procs = {w} PROVE SolveSpec => []SoleInv(w)
<1>1. SolveInit => SoleInv(w)
  BY SoleInit
<1>2. SoleInv(w) /\ SolveTypeOK' /\ [SolveNext]_solveVars => SoleInv(w)'
  BY SoleNext
<1> QED BY <1>1, <1>2, TypeCorrect, PTL DEF SolveSpec

\* While one process solves, whatever the handlers edit and wherever it is
\* killed, a round never gets two presentations of a group.
THEOREM SoleSolver ==
    ASSUME NEW w, Procs = {w}, \A d \in Databases : OneRow(d)
    PROVE  SolveSpec => []OneRowPerGroup
<1>1. SolveInit => OneRowPerGroup
  BY DEF SolveInit, OneRowPerGroup
<1>2. SoleInv(w) /\ OneRowPerGroup /\ [SolveNext]_solveVars => OneRowPerGroup'
  BY SoleOneRow
<1> QED BY <1>1, <1>2, SoleAlways, PTL DEF SolveSpec

\* And a solve that comes to its end has replaced the schedule of the round by
\* its plan, whatever an earlier one that was killed has left.
THEOREM SolveReplaces ==
    ASSUME NEW w, Procs = {w} PROVE SolveSpec => []CompleteReplacement
<1>1. SoleInv(w) => CompleteReplacement
  BY DEF SoleInv, Replacing, CompleteReplacement, Finished, At, RowOf
<1> QED BY <1>1, SoleAlways, PTL

-----------------------------------------------------------------------------
(* Nobody but the web process works on the file.                           *)

\* What a solve of round r that reads the tables of d in one go would read.
InputOf(d, r) ==
    [quorum |-> r.quorum,
     slots |-> get_slots_for_round(d, r.id),
     avail |-> get_availabilities_for_round(d, r.id),
     curations |-> get_curations_for_round(d, r.id),
     groups |-> d.groups,
     students |-> get_students_in_groups(d, d.groups),
     prior |-> get_presentations_before_round(d, r.id)]

\* As much of it as the statements before the label have read.
ReadSoFar(d, r, pc) ==
    [quorum |-> r.quorum,
     slots |-> IF pc = "slots" THEN {} ELSE get_slots_for_round(d, r.id),
     avail |-> IF pc \in {"slots", "avail"} THEN {} ELSE get_availabilities_for_round(d, r.id),
     curations |-> IF pc \in {"slots", "avail", "curations"} THEN {}
                   ELSE get_curations_for_round(d, r.id),
     groups |-> IF pc \in {"students", "prior"} THEN d.groups ELSE {},
     students |-> IF pc = "prior" THEN get_students_in_groups(d, d.groups) ELSE {},
     prior |-> {}]

Reads  == {"slots", "avail", "curations", "groups", "students", "prior"}
SolveWrites == {"select", "delete", "create"}

\* What the process has read is what the tables say, and what it is writing is
\* the plan for the tables as they are, its own rows aside.
UpToDate(d, s) ==
    /\ s.pc \in Reads => \E r \in d.rounds : r.id = s.round /\ s.inp = ReadSoFar(d, r, s.pc)
    /\ s.pc \in SolveWrites => \E r \in d.rounds :
          /\ r.id = s.round
          /\ CanAssign(InputOf(d, r), Threshold)
          /\ s.plan = assignments(InputOf(d, r), Threshold)

\* The writes of a solve change nothing a solve of the same round reads.
LEMMA WritesKeepInput ==
    ASSUME NEW d, NEW e, NEW r,
           e.slots = d.slots, e.avail = d.avail, e.curations = d.curations,
           e.groups = d.groups, e.students = d.students,
           \A p : p.round < r.id => (p \in d.pres <=> p \in e.pres)
    PROVE  InputOf(e, r) = InputOf(d, r)
<1>1. get_presentations_before_round(e, r.id) = get_presentations_before_round(d, r.id)
  BY DEF get_presentations_before_round
<1>2. /\ get_slots_for_round(e, r.id) = get_slots_for_round(d, r.id)
      /\ get_availabilities_for_round(e, r.id) = get_availabilities_for_round(d, r.id)
      /\ get_curations_for_round(e, r.id) = get_curations_for_round(d, r.id)
      /\ get_students_in_groups(e, e.groups) = get_students_in_groups(d, d.groups)
  BY DEF get_slots_for_round, get_availabilities_for_round, get_curations_for_round,
         get_students_in_groups
<1> QED BY <1>1, <1>2 DEF InputOf

LEMMA ReadsUpToDate ==
    ASSUME NEW w, Procs = {w}, SolveTypeOK, UpToDate(db, solver[w]),
           \/ ReadSlots(w) \/ ReadAvail(w) \/ ReadCurations(w) \/ ReadGroups(w)
           \/ ReadGroupMembers(w) \/ ReadPriorAndAssign(w) \/ \E r \in db.rounds : Start(w, r)
    PROVE  UpToDate(db', solver'[w])
<1> DEFINE s == solver[w]
<1>0. ProcOK(s) /\ w \in DOMAIN solver
  BY DEF SolveTypeOK
<1>1. ASSUME NEW r \in db.rounds, Start(w, r) PROVE UpToDate(db', solver'[w])
  <2>1. /\ solver'[w].pc = "slots" /\ solver'[w].round = r.id
        /\ solver'[w].inp = [NothingRead EXCEPT !.quorum = r.quorum] /\ db' = db
    BY <1>0, <1>1 DEF Start, Becomes, Idle
  <2>2. solver'[w].inp = ReadSoFar(db, r, "slots")
    BY <2>1 DEF NothingRead, ReadSoFar
  <2> QED BY <2>1, <2>2 DEF UpToDate, Reads, SolveWrites
<1>2. ASSUME s.pc \in Reads PROVE \E r \in db.rounds : r.id = s.round /\ s.inp = ReadSoFar(db, r, s.pc)
  BY <1>2 DEF UpToDate
<1>3. ASSUME ReadSlots(w) PROVE UpToDate(db', solver'[w])
  <2>1. PICK r \in db.rounds : r.id = s.round /\ s.inp = ReadSoFar(db, r, "slots")
    BY <1>2, <1>3 DEF ReadSlots, At, Reads
  <2>2. /\ solver'[w].pc = "avail" /\ solver'[w].round = s.round /\ db' = db
        /\ solver'[w].inp = [s.inp EXCEPT !.slots = get_slots_for_round(db, s.round)]
    BY <1>0, <1>3 DEF ReadSlots, Becomes, ProcOK
  <2>3. solver'[w].inp = ReadSoFar(db, r, "avail")
    <3>1. solver'[w].inp = [ReadSoFar(db, r, "slots") EXCEPT !.slots = get_slots_for_round(db, r.id)]
      BY <2>1, <2>2
    <3> QED BY <3>1 DEF ReadSoFar
  <2> QED BY <2>1, <2>2, <2>3 DEF UpToDate, Reads, SolveWrites
<1>4. ASSUME ReadAvail(w) PROVE UpToDate(db', solver'[w])
  <2>1. PICK r \in db.rounds : r.id = s.round /\ s.inp = ReadSoFar(db, r, "avail")
    BY <1>2, <1>4 DEF ReadAvail, At, Reads
  <2>2. /\ solver'[w].pc = "curations" /\ solver'[w].round = s.round /\ db' = db
        /\ solver'[w].inp = [s.inp EXCEPT !.avail = get_availabilities_for_round(db, s.round)]
    BY <1>0, <1>4 DEF ReadAvail, Becomes, ProcOK
  <2>3. solver'[w].inp = ReadSoFar(db, r, "curations")
    BY <2>1, <2>2 DEF ReadSoFar
  <2> QED BY <2>1, <2>2, <2>3 DEF UpToDate, Reads, SolveWrites
<1>5. ASSUME ReadCurations(w) PROVE UpToDate(db', solver'[w])
  <2>1. PICK r \in db.rounds : r.id = s.round /\ s.inp = ReadSoFar(db, r, "curations")
    BY <1>2, <1>5 DEF ReadCurations, At, Reads
  <2>2. /\ solver'[w].pc = "groups" /\ solver'[w].round = s.round /\ db' = db
        /\ solver'[w].inp = [s.inp EXCEPT !.curations = get_curations_for_round(db, s.round)]
    BY <1>0, <1>5 DEF ReadCurations, Becomes, ProcOK
  <2>3. solver'[w].inp = ReadSoFar(db, r, "groups")
    BY <2>1, <2>2 DEF ReadSoFar
  <2> QED BY <2>1, <2>2, <2>3 DEF UpToDate, Reads, SolveWrites
<1>6. ASSUME ReadGroups(w) PROVE UpToDate(db', solver'[w])
  <2>1. PICK r \in db.rounds : r.id = s.round /\ s.inp = ReadSoFar(db, r, "groups")
    BY <1>2, <1>6 DEF ReadGroups, At, Reads
  <2>2. /\ solver'[w].pc = "students" /\ solver'[w].round = s.round /\ db' = db
        /\ solver'[w].inp = [s.inp EXCEPT !.groups = db.groups]
    BY <1>0, <1>6 DEF ReadGroups, Becomes, ProcOK
  <2>3. solver'[w].inp = ReadSoFar(db, r, "students")
    BY <2>1, <2>2 DEF ReadSoFar
  <2> QED BY <2>1, <2>2, <2>3 DEF UpToDate, Reads, SolveWrites
<1>7. ASSUME ReadGroupMembers(w) PROVE UpToDate(db', solver'[w])
  <2>1. PICK r \in db.rounds : r.id = s.round /\ s.inp = ReadSoFar(db, r, "students")
    BY <1>2, <1>7 DEF ReadGroupMembers, At, Reads
  <2>2. /\ solver'[w].pc = "prior" /\ solver'[w].round = s.round /\ db' = db
        /\ solver'[w].inp = [s.inp EXCEPT !.students = get_students_in_groups(db, s.inp.groups)]
    BY <1>0, <1>7 DEF ReadGroupMembers, Becomes, ProcOK
  <2>3. s.inp.groups = db.groups
    BY <2>1 DEF ReadSoFar
  <2>4. solver'[w].inp = ReadSoFar(db, r, "prior")
    BY <2>1, <2>2, <2>3 DEF ReadSoFar
  <2> QED BY <2>1, <2>2, <2>4 DEF UpToDate, Reads, SolveWrites
<1>8. ASSUME ReadPriorAndAssign(w) PROVE UpToDate(db', solver'[w])
  <2> DEFINE inp == [s.inp EXCEPT !.prior = get_presentations_before_round(db, s.round)]
  <2>1. PICK r \in db.rounds : r.id = s.round /\ s.inp = ReadSoFar(db, r, "prior")
    BY <1>2, <1>8 DEF ReadPriorAndAssign, At, Reads
  <2>2. inp = InputOf(db, r)
    BY <2>1 DEF ReadSoFar, InputOf
  <2>3. /\ db' = db
        /\ IF CanAssign(inp, Threshold)
           THEN Becomes(w, [Idle EXCEPT !.pc = "select", !.round = s.round,
                                        !.plan = assignments(inp, Threshold)])
           ELSE Becomes(w, Idle)
    BY <1>8 DEF ReadPriorAndAssign
  <2> HIDE DEF inp
  <2>4. CASE CanAssign(inp, Threshold)
    <3>1. /\ solver'[w].pc = "select" /\ solver'[w].round = r.id
          /\ solver'[w].plan = assignments(inp, Threshold)
      BY <1>0, <2>1, <2>3, <2>4 DEF Becomes, Idle
    <3> QED BY <2>2, <2>3, <2>4, <3>1 DEF UpToDate, Reads, SolveWrites
  <2>5. CASE ~CanAssign(inp, Threshold)
    BY <1>0, <2>3, <2>5 DEF Becomes, Idle, UpToDate, Reads, SolveWrites
  <2> QED BY <2>4, <2>5
<1> QED BY <1>1, <1>3, <1>4, <1>5, <1>6, <1>7, <1>8

LEMMA WritesUpToDate ==
    ASSUME NEW w, Procs = {w}, SoleInv(w), Consistent(db), UpToDate(db, solver[w]),
           \/ SelectOld(w) \/ DeleteOld(w) \/ \E row \in solver[w].todo : Create(w, row)
    PROVE  UpToDate(db', solver'[w])
<1> DEFINE s == solver[w]
<1>0. ProcOK(s) /\ w \in DOMAIN solver /\ db \in DB /\ Replacing(s)
  BY DEF SoleInv, SolveTypeOK
<1>1. PICK r \in db.rounds : /\ r.id = s.round
                             /\ CanAssign(InputOf(db, r), Threshold)
                             /\ s.plan = assignments(InputOf(db, r), Threshold)
  BY DEF UpToDate, SolveWrites, SelectOld, DeleteOld, Create, At
<1>2. ASSUME NEW pc \in SolveWrites, solver'[w].pc = pc, solver'[w].plan = s.plan,
             solver'[w].round = s.round, db'.rounds = db.rounds,
             InputOf(db', r) = InputOf(db, r)
      PROVE  UpToDate(db', solver'[w])
  BY <1>1, <1>2 DEF UpToDate, Reads, SolveWrites
<1>3. CASE SelectOld(w)
  <2>1. solver'[w].pc = "delete" /\ solver'[w].plan = s.plan /\ solver'[w].round = s.round
    BY <1>0, <1>3 DEF SelectOld, Becomes, ProcOK
  <2> QED BY <1>2, <1>3, <2>1 DEF SelectOld, SolveWrites
<1>4. CASE DeleteOld(w)
  <2>1. solver'[w].pc = "create" /\ solver'[w].plan = s.plan /\ solver'[w].round = s.round
    BY <1>0, <1>4 DEF DeleteOld, Becomes, ProcOK
  <2>2. /\ db'.pres = {x \in db.pres : PresKey(x) \notin s.old}
        /\ db'.rounds = db.rounds /\ db'.slots = db.slots /\ db'.avail = db.avail
        /\ db'.curations = db.curations /\ db'.groups = db.groups /\ db'.students = db.students
    BY <1>0, <1>4 DEF DeleteOld, delete_presentations, DB, Database
  <2>3. s.old = {PresKey(x) : x \in get_presentations_for_round(db, s.round)}
    BY <1>0, <1>4 DEF DeleteOld, At, Replacing
  <2>4. \A p : p.round < r.id => (p \in db.pres <=> p \in db'.pres)
    <3> SUFFICES ASSUME NEW p \in db.pres, p.round < r.id PROVE PresKey(p) \notin s.old
      BY <2>2
    <3>1. r.id \in Nat
      BY <1>0 DEF DB, Database, RoundIds
    <3>2. ASSUME NEW x \in db.pres, x.round = r.id PROVE PresKey(x) # PresKey(p)
      <4>1. x # p
        BY <3>1, <3>2
      <4>2. ~(x.group = p.group /\ x.slot = p.slot)
        BY <4>1 DEF Consistent, KeysUnique
      <4> QED BY <4>2 DEF PresKey
    <3> QED BY <1>1, <2>3, <3>2 DEF get_presentations_for_round
  <2>5. InputOf(db', r) = InputOf(db, r)
    BY <2>2, <2>4, WritesKeepInput
  <2> QED BY <1>2, <2>1, <2>2, <2>5 DEF SolveWrites
<1>5. ASSUME NEW row \in s.todo, Create(w, row) PROVE UpToDate(db', solver'[w])
  <2>1. solver'[w].pc = "create" /\ solver'[w].plan = s.plan /\ solver'[w].round = s.round
    BY <1>0, <1>5 DEF Create, Becomes, At, ProcOK
  <2>2. /\ db'.pres = db.pres \cup {RowOf(row, s.round)}
        /\ db'.rounds = db.rounds /\ db'.slots = db.slots /\ db'.avail = db.avail
        /\ db'.curations = db.curations /\ db'.groups = db.groups /\ db'.students = db.students
    BY <1>0, <1>5 DEF Create, create_presentation, RowOf, DB, Database
  <2>3. \A p : p.round < r.id => (p \in db.pres <=> p \in db'.pres)
    <3>1. r.id \in Nat /\ RowOf(row, s.round).round = r.id
      BY <1>0, <1>1 DEF DB, Database, RoundIds, RowOf
    <3> QED BY <2>2, <3>1
  <2>4. InputOf(db', r) = InputOf(db, r)
    BY <2>2, <2>3, WritesKeepInput
  <2> QED BY <1>2, <2>1, <2>2, <2>4 DEF SolveWrites
<1> QED BY <1>3, <1>4, <1>5

-----------------------------------------------------------------------------
(* What the computation makes of the tables.                               *)

\* The solve of r computes with what the tables say now.
Ready(r, inp) ==
    /\ db \in DB /\ Consistent(db) /\ r \in db.rounds
    /\ inp = InputOf(db, r)

\* The due members, as the computation sees them and as the tables have them.
LEMMA DueMembers ==
    ASSUME NEW r, NEW inp, Ready(r, inp), NEW g \in db.groups
    PROVE  LET due == due_members(members(inp, g), Threshold)
           IN  /\ \A m \in due : \E s \in DueIn(g) : s.user_id = m.user_id
               /\ \A s \in DueIn(g) : \E m \in due : m.user_id = s.user_id
<1> DEFINE due == due_members(members(inp, g), Threshold)
<1>1. inp.students = {s \in db.students : s.group \in db.groups}
  BY DEF Ready, InputOf, get_students_in_groups
<1>2. members(inp, g) = {student_to_participant(s) : s \in {t \in db.students : t.group = g}}
  BY <1>1 DEF members
<1>3. \A s : /\ student_to_participant(s).user_id = s.user_id
             /\ is_due(student_to_participant(s), Threshold) <=> StillDue(s)
  BY DEF student_to_participant, is_due, StillDue
<1>4. ASSUME NEW m \in due PROVE \E s \in DueIn(g) : s.user_id = m.user_id
  <2>1. m \in members(inp, g) /\ is_due(m, Threshold)
    BY DEF due_members
  <2>2. PICK s \in {t \in db.students : t.group = g} : m = student_to_participant(s)
    BY <1>2, <2>1
  <2> QED BY <1>3, <2>1, <2>2 DEF DueIn
<1>5. ASSUME NEW s \in DueIn(g) PROVE \E m \in due : m.user_id = s.user_id
  <2>1. s \in {t \in db.students : t.group = g} /\ StillDue(s)
    BY DEF DueIn
  <2>2. student_to_participant(s) \in members(inp, g)
    BY <1>2, <2>1
  <2>3. student_to_participant(s) \in due
    BY <1>3, <2>1, <2>2 DEF due_members
  <2> HIDE DEF due
  <2> QED BY <1>3, <2>3
<1> QED BY <1>4, <1>5

\* For a slot of the round the computation has every answer.
LEMMA AnswersRead ==
    ASSUME NEW r, NEW inp, Ready(r, inp), NEW m, NEW slot, NEW yes
    PROVE  /\ slot \in Ids(inp.slots) =>
                 (Answered(inp.avail, m, slot, yes) <=>
                    [student |-> m.user_id, slot |-> slot, available |-> yes] \in db.avail)
           /\ Answered(inp.avail, m, slot, yes) => slot \in Ids(inp.slots)
<1>1. inp.avail = {a \in db.avail : a.slot \in Ids(inp.slots)}
  BY DEF Ready, InputOf, get_availabilities_for_round
<1> DEFINE a == [student |-> m.user_id, slot |-> slot, available |-> yes]
<1>2. a.slot = slot
  OBVIOUS
<1> HIDE DEF a
<1>3. a \in inp.avail <=> a \in db.avail /\ slot \in Ids(inp.slots)
  BY <1>1, <1>2
<1> QED BY <1>3 DEF Answered, a

LEMMA FeasibleIsQuorum ==
    ASSUME NEW r, NEW inp, Ready(r, inp), NEW g \in db.groups
    PROVE  group_feasible_slots(due_members(members(inp, g), Threshold), inp.avail,
                                Ids(inp.slots), require_all(inp))
              = {s \in Ids(inp.slots) : QuorumMet(r, g, s)}
<1> DEFINE due == due_members(members(inp, g), Threshold)
<1>1. /\ \A m \in due : \E s \in DueIn(g) : s.user_id = m.user_id
      /\ \A s \in DueIn(g) : \E m \in due : m.user_id = s.user_id
  BY DueMembers
<1> HIDE DEF due
<1>2. inp.quorum = r.quorum
  BY DEF Ready, InputOf
<1>3. ASSUME NEW slot \in Ids(inp.slots)
      PROVE  /\ (\A m \in due : Answered(inp.avail, m, slot, TRUE))
                   <=> (\A s \in DueIn(g) : Answer(s, slot, TRUE))
             /\ (\E m \in due : Answered(inp.avail, m, slot, TRUE))
                   <=> (\E s \in DueIn(g) : Answer(s, slot, TRUE))
  <2>1. ASSUME NEW m \in due, NEW s, s.user_id = m.user_id
        PROVE  Answered(inp.avail, m, slot, TRUE) <=> Answer(s, slot, TRUE)
    BY <2>1, AnswersRead DEF Answer
  <2> QED BY <1>1, <2>1
<1>4. CASE r.quorum = "any"
  BY <1>2, <1>3, <1>4 DEF group_feasible_slots, require_all, QuorumMet, due
<1>5. CASE r.quorum # "any"
  BY <1>2, <1>3, <1>5 DEF group_feasible_slots, require_all, QuorumMet, due
<1> QED BY <1>4, <1>5

LEMMA DeclinesBlock ==
    ASSUME NEW r, NEW inp, Ready(r, inp), NEW g \in db.groups, NEW slot \in Ids(inp.slots)
    PROVE  member_declined(due_members(members(inp, g), Threshold), slot, inp.avail,
                           require_all(inp))
              <=> Blocked(r, g, slot)
<1> DEFINE due == due_members(members(inp, g), Threshold)
           declines == {m \in due : Answered(inp.avail, m, slot, FALSE)}
<1>1. /\ \A m \in due : \E s \in DueIn(g) : s.user_id = m.user_id
      /\ \A s \in DueIn(g) : \E m \in due : m.user_id = s.user_id
  BY DueMembers
<1> HIDE DEF due
<1>2. inp.quorum = r.quorum
  BY DEF Ready, InputOf
<1>3. ASSUME NEW m \in due, NEW s, s.user_id = m.user_id
      PROVE  m \in declines <=> Answer(s, slot, FALSE)
  BY <1>3, AnswersRead DEF Answer
<1>4. declines \subseteq due
  OBVIOUS
<1> HIDE DEF declines
<1>5. declines # {} <=> \E s \in DueIn(g) : Answer(s, slot, FALSE)
  BY <1>1, <1>3, <1>4
<1>6. declines # {} /\ declines = due
         <=> DueIn(g) # {} /\ \A s \in DueIn(g) : Answer(s, slot, FALSE)
  BY <1>1, <1>3, <1>4
<1>7. member_declined(due, slot, inp.avail, require_all(inp))
         <=> declines # {} /\ (require_all(inp) \/ declines = due)
  BY DEF member_declined, declines
<1>8. CASE r.quorum = "any"
  BY <1>2, <1>6, <1>7, <1>8 DEF require_all, Blocked, due
<1>9. CASE r.quorum # "any"
  BY <1>2, <1>5, <1>7, <1>9 DEF require_all, Blocked, due
<1> QED BY <1>8, <1>9

\* A pin on a slot of another round never gets as far as a plan, so those that
\* do are the ones the admin may insist on.
LEMMA PinsAreThose ==
    ASSUME NEW r, NEW inp, Ready(r, inp), CanAssign(inp, Threshold)
    PROVE  LET fixed == pinned(inp, Threshold)
           IN  /\ \A g \in DOMAIN fixed : /\ PinsOf(r, g) = {fixed[g]}
                                          /\ fixed[g] \in Ids(inp.slots)
                                          /\ g \in db.groups
               /\ \A g : g \notin DOMAIN fixed => PinsOf(r, g) = {}
<1> DEFINE rows == pinned_rows(inp, Threshold)
           fixed == pinned(inp, Threshold)
           May(c) == c.included /\ c.pin # NoSlot /\ (c.override \/ ~Blocked(r, c.group, c.pin))
<1>1. /\ \A c : c \in inp.curations <=> c \in db.curations /\ c.round = r.id
      /\ \A c \in inp.curations : c.group \in db.groups
      /\ \A b, c \in inp.curations : b.group = c.group => b = c
      /\ inp.groups = db.groups
  BY DEF Ready, InputOf, get_curations_for_round, Consistent, KeysUnique, ForeignKeys
<1>2. DOMAIN fixed = {c.group : c \in rows} /\ rows \subseteq inp.curations
  BY DEF pinned, pinned_rows
<1>3. ASSUME NEW c \in rows PROVE fixed[c.group] = c.pin /\ c.group \in DOMAIN fixed
  <2>1. c.group \in {b.group : b \in rows}
    OBVIOUS
  <2>2. (CHOOSE b \in rows : b.group = c.group) = c
    BY <1>1, <1>2
  <2> QED BY <2>1, <2>2 DEF pinned
<1>4. DOMAIN capacities(inp) = Ids(inp.slots)
  BY DEF capacities
<1>5. \A c \in rows : c.pin \in Ids(inp.slots)
  BY <1>3, <1>4 DEF CanAssign, PinsKnown
<1>6. ASSUME NEW c \in inp.curations PROVE c \in rows <=> May(c)
  <2>1. c \in rows <=> c.pin # NoSlot /\ c.included /\ (declined(inp, Threshold, c) => c.override)
    BY DEF pinned_rows
  <2>2. declined(inp, Threshold, c)
           <=> member_declined(due_members(members(inp, c.group), Threshold), c.pin, inp.avail,
                               require_all(inp))
    BY <1>1 DEF declined
  <2> HIDE DEF rows
  <2>3. CASE c.pin \in Ids(inp.slots)
    BY <1>1, <2>1, <2>2, <2>3, DeclinesBlock
  <2>4. CASE c.pin \notin Ids(inp.slots)
    <3>1. ~declined(inp, Threshold, c)
      BY <2>2, <2>4, AnswersRead DEF member_declined
    <3>2. c \notin rows
      BY <1>5, <2>4
    <3> QED BY <2>1, <3>1, <3>2
  <2> QED BY <2>3, <2>4
<1>7. ASSUME NEW g PROVE PinsOf(r, g) = {c.pin : c \in {k \in rows : k.group = g}}
  <2>1. \A c : c \in Curated(r, g) <=> c \in inp.curations /\ c.group = g
    BY <1>1 DEF Curated
  <2>2. {k \in Curated(r, g) : k.included /\ k.pin # NoSlot
                                 /\ (k.override \/ ~Blocked(r, g, k.pin))}
           = {k \in rows : k.group = g}
    <3> HIDE DEF rows
    <3> QED BY <1>2, <1>6, <2>1
  <2> HIDE DEF rows
  <2> QED BY <2>2 DEF PinsOf
<1> HIDE DEF rows, fixed
<1>8. ASSUME NEW g \in DOMAIN fixed
      PROVE  PinsOf(r, g) = {fixed[g]} /\ fixed[g] \in Ids(inp.slots) /\ g \in db.groups
  <2>1. PICK c \in rows : c.group = g
    BY <1>2
  <2>2. {k \in rows : k.group = g} = {c}
    BY <1>1, <1>2, <2>1
  <2>3. PinsOf(r, g) = {c.pin}
    BY <1>7, <2>2
  <2> QED BY <1>1, <1>2, <1>3, <1>5, <2>1, <2>3
<1>9. ASSUME NEW g, g \notin DOMAIN fixed PROVE PinsOf(r, g) = {}
  <2>1. {k \in rows : k.group = g} = {}
    BY <1>2, <1>9
  <2> QED BY <1>7, <2>1
<1> QED BY <1>8, <1>9 DEF fixed

LEMMA IncludedIsPool ==
    ASSUME NEW r, NEW inp, Ready(r, inp)
    PROVE  included_groups(inp, Threshold) = {g \in db.groups : InPool(r, g)}
<1>1. /\ inp.groups = db.groups
      /\ inp.prior = {p \in db.pres : p.round < r.id}
      /\ \A c : c \in inp.curations <=> c \in db.curations /\ c.round = r.id
  BY DEF Ready, InputOf, get_presentations_before_round, get_curations_for_round
<1>2. ASSUME NEW g \in db.groups PROVE g \in included_groups(inp, Threshold) <=> InPool(r, g)
  <2>1. (\A c \in inp.curations : c.group = g => c.included)
           <=> (\A c \in Curated(r, g) : c.included)
    BY <1>1 DEF Curated
  <2>2. g \in compute_carry_over(inp.prior).excluded <=> PresentedBefore(r, g)
    <3>1. compute_carry_over(inp.prior).excluded
             = {p.group : p \in {q \in inp.prior : q.status = PRESENTED}}
      BY DEF compute_carry_over
    <3> QED BY <1>1, <3>1 DEF PresentedBefore
  <2>3. due_members(members(inp, g), Threshold) # {} <=> DueIn(g) # {}
    BY DueMembers
  <2> QED BY <1>1, <2>1, <2>2, <2>3 DEF included_groups, InPool
<1>3. included_groups(inp, Threshold) \subseteq db.groups
  BY <1>1 DEF included_groups
<1> QED BY <1>2, <1>3

\* The capacities are those of the slots of the round.
LEMMA CapacitiesOfSlots ==
    ASSUME NEW r, NEW inp, Ready(r, inp)
    PROVE  /\ DOMAIN capacities(inp) = Ids(inp.slots)
           /\ \A t \in inp.slots : t \in db.slots /\ t.round = r.id
                                   /\ capacities(inp)[t.id] = t.capacity /\ t.capacity \in Int
           /\ \A s \in Ids(inp.slots) : s \in SlotIds /\ \E t \in inp.slots : t.id = s
<1>1. inp.slots = {t \in db.slots : t.round = r.id}
  BY DEF Ready, InputOf, get_slots_for_round
<1>2. \A t, u \in inp.slots : t.id = u.id => t = u
  BY <1>1 DEF Ready, Consistent, KeysUnique
<1>3. \A t \in inp.slots : t.id \in SlotIds /\ t.capacity \in Int
  BY <1>1 DEF Ready, DB, Database
<1>4. ASSUME NEW t \in inp.slots PROVE capacities(inp)[t.id] = t.capacity
  <2>1. (CHOOSE row \in inp.slots : row.id = t.id) = t
    BY <1>2
  <2>2. t.id \in Ids(inp.slots)
    BY DEF Ids
  <2> QED BY <2>1, <2>2 DEF capacities
<1>5. DOMAIN capacities(inp) = Ids(inp.slots)
  BY DEF capacities
<1> QED BY <1>1, <1>3, <1>4, <1>5 DEF Ids

\* The arguments of the call are what the lemmas about `assign` ask for.
LEMMA SolveArguments ==
    ASSUME NEW r, NEW inp, Ready(r, inp), CanAssign(inp, Threshold)
    PROVE  Arguments(included_groups(inp, Threshold) \ DOMAIN pinned(inp, Threshold),
                     feasible(inp, Threshold), capacities(inp), pinned(inp, Threshold))
<1> DEFINE fixed == pinned(inp, Threshold)
           free == included_groups(inp, Threshold) \ DOMAIN fixed
           f == feasible(inp, Threshold)
           c == capacities(inp)
<1>1. db.groups \subseteq GroupIds
  BY DEF Ready, DB, Database
<1>2. free \subseteq GroupIds /\ DOMAIN fixed \subseteq GroupIds
  BY <1>1, IncludedIsPool, PinsAreThose
<1>3. DOMAIN c \subseteq SlotIds /\ \A s \in DOMAIN c : c[s] \in Int
  BY CapacitiesOfSlots
<1>4. IsFiniteSet(DOMAIN c) /\ Ranked(DOMAIN c)
  <2>1. IsFiniteSet(SlotIds) /\ Ranked(SlotIds)
    BY IdsAssumption, FS_Interval DEF SlotIds
  <2> QED BY <1>3, <2>1, FS_Subset DEF Ranked
<1>5. \A g \in free : f[g] \subseteq DOMAIN c
  <2> SUFFICES ASSUME NEW g \in free PROVE f[g] \subseteq DOMAIN c
    OBVIOUS
  <2>1. f[g] = group_feasible_slots(due_members(members(inp, g), Threshold), inp.avail,
                                    Ids(inp.slots), require_all(inp))
    BY DEF feasible
  <2>2. f[g] \subseteq Ids(inp.slots)
    BY <2>1 DEF group_feasible_slots
  <2> QED BY <2>2, CapacitiesOfSlots
<1>6. PinsKnown(c, fixed)
  BY DEF CanAssign
<1>7. free \cap DOMAIN fixed = {}
  OBVIOUS
<1> HIDE DEF fixed, free, f, c
<1>8. Arguments(free, f, c, fixed)
  BY <1>2, <1>3, <1>4, <1>5, <1>6, <1>7, IdsAssumption, FS_Subset DEF Arguments
<1> QED BY <1>8 DEF fixed, free, f, c

\* What the plan is, said of the tables: it is the rows of a function `result`
\* that has every pin, puts others of the pool on slots their due members can
\* attend and that are not overfilled, and leaves out only whom nothing is left.
LEMMA PlanOfTables ==
    ASSUME NEW r, NEW inp, Ready(r, inp), CanAssign(inp, Threshold)
    PROVE  \E result :
              /\ assignments(inp, Threshold)
                    = {[group |-> g, slot |-> result[g]] : g \in DOMAIN result}
              /\ IsFiniteSet(DOMAIN result)
              /\ \A g : PinsOf(r, g) # {} =>
                    g \in DOMAIN result /\ PinsOf(r, g) = {result[g]}
              /\ \A g \in DOMAIN result :
                    result[g] \in {t.id : t \in get_slots_for_round(db, r.id)}
              /\ \A g \in DOMAIN result : PinsOf(r, g) = {} =>
                    /\ InPool(r, g) /\ QuorumMet(r, g, result[g])
                    /\ \A t \in get_slots_for_round(db, r.id) : t.id = result[g] =>
                          Cardinality(On(result, t.id)) =< t.capacity
              /\ \A g \in db.groups : InPool(r, g) /\ g \notin DOMAIN result =>
                    \A t \in get_slots_for_round(db, r.id) :
                       QuorumMet(r, g, t.id) => Cardinality(On(result, t.id)) >= t.capacity
<1> DEFINE fixed == pinned(inp, Threshold)
           included == included_groups(inp, Threshold)
           f == feasible(inp, Threshold)
           c == capacities(inp)
           result == assign(included, f, c, fixed)
<1>1. Arguments(included \ DOMAIN fixed, f, c, fixed)
  BY SolveArguments
<1>2. assignments(inp, Threshold) = {[group |-> g, slot |-> result[g]] : g \in DOMAIN result}
  BY DEF assignments
<1>3. /\ \A g \in DOMAIN fixed : PinsOf(r, g) = {fixed[g]} /\ fixed[g] \in Ids(inp.slots)
      /\ \A g : g \notin DOMAIN fixed => PinsOf(r, g) = {}
  BY PinsAreThose
<1>4. included = {g \in db.groups : InPool(r, g)}
  BY IncludedIsPool
<1>5. \A g \in included : f[g] = {s \in Ids(inp.slots) : QuorumMet(r, g, s)}
  BY <1>4, FeasibleIsQuorum DEF feasible
<1>6. /\ DOMAIN c = Ids(inp.slots)
      /\ \A t \in inp.slots : c[t.id] = t.capacity /\ t.capacity \in Int /\ t.id \in Ids(inp.slots)
  <2>1. \A t \in inp.slots : t.id \in Ids(inp.slots)
    BY DEF Ids
  <2> QED BY <2>1, CapacitiesOfSlots
<1>7. inp.slots = get_slots_for_round(db, r.id)
  BY DEF Ready, InputOf
<1> HIDE DEF fixed, included, f, c
<1>8. PICK st : st.placed = result /\ Sound(f, c, fixed, included \ DOMAIN fixed, st)
  BY <1>1, AssignIsSound
<1> HIDE DEF result
<1>9. /\ DOMAIN fixed \subseteq DOMAIN result
      /\ DOMAIN result \subseteq DOMAIN fixed \cup included
      /\ \A g \in DOMAIN fixed : result[g] = fixed[g]
      /\ \A g \in DOMAIN result \ DOMAIN fixed : result[g] \in f[g]
  BY <1>8 DEF Sound
<1>10. \A s \in DOMAIN c : /\ st.remaining[s] \in Int
                           /\ st.remaining[s] = c[s] - Cardinality(On(result, s))
                           /\ st.remaining[s] >= 0 \/ On(result, s) \subseteq DOMAIN fixed
  BY <1>8 DEF Sound
<1>11. \A g \in included \ DOMAIN result : \A s \in f[g] : st.remaining[s] =< 0
  BY <1>8, <1>9 DEF Sound
<1>12. IsFiniteSet(DOMAIN result)
  <2>1. IsFiniteSet(DOMAIN fixed \cup (included \ DOMAIN fixed))
    BY <1>1, FS_Union DEF Arguments
  <2>2. DOMAIN result \subseteq DOMAIN fixed \cup (included \ DOMAIN fixed)
    BY <1>9
  <2> QED BY <2>1, <2>2, FS_Subset
<1>13. \A s : Cardinality(On(result, s)) \in Nat
  BY <1>12, FS_Subset, FS_CardinalityType DEF On
<1>14. \A g : PinsOf(r, g) # {} => g \in DOMAIN result /\ PinsOf(r, g) = {result[g]}
  BY <1>3, <1>9
<1>15. \A g \in DOMAIN result : result[g] \in {t.id : t \in inp.slots}
  <2>1. Ids(inp.slots) = {t.id : t \in inp.slots}
    BY DEF Ids
  <2> QED BY <1>3, <1>5, <1>9, <2>1
<1>16. ASSUME NEW g \in DOMAIN result, PinsOf(r, g) = {}
       PROVE  /\ InPool(r, g) /\ QuorumMet(r, g, result[g])
              /\ \A t \in inp.slots : t.id = result[g] =>
                    Cardinality(On(result, t.id)) =< t.capacity
  <2>1. g \notin DOMAIN fixed /\ g \in included /\ result[g] \in f[g]
    BY <1>3, <1>9, <1>16
  <2>2. InPool(r, g) /\ QuorumMet(r, g, result[g])
    BY <1>4, <1>5, <2>1
  <2>3. ASSUME NEW t \in inp.slots, t.id = result[g]
        PROVE  Cardinality(On(result, t.id)) =< t.capacity
    <3>1. g \in On(result, t.id)
      BY <2>3 DEF On
    <3>2. st.remaining[t.id] >= 0 /\ st.remaining[t.id] = c[t.id] - Cardinality(On(result, t.id))
      BY <1>6, <1>10, <2>1, <3>1
    <3> QED BY <1>6, <1>13, <3>2
  <2> QED BY <2>2, <2>3
<1>17. ASSUME NEW g \in db.groups, InPool(r, g), g \notin DOMAIN result,
              NEW t \in inp.slots, QuorumMet(r, g, t.id)
       PROVE  Cardinality(On(result, t.id)) >= t.capacity
  <2>1. g \in included \ DOMAIN result /\ t.id \in f[g]
    BY <1>4, <1>5, <1>6, <1>17
  <2>2. st.remaining[t.id] =< 0 /\ st.remaining[t.id] = c[t.id] - Cardinality(On(result, t.id))
    BY <1>6, <1>10, <1>11, <2>1
  <2> QED BY <1>6, <1>13, <2>2
<1> QED BY <1>2, <1>7, <1>12, <1>14, <1>15, <1>16, <1>17

-----------------------------------------------------------------------------
(* The schedule of a solved round.                                         *)

\* What the steps keep while the web process is the only one that works.
WebInv ==
    /\ SoleInv(Web)
    /\ DatabaseConsistent
    /\ UpToDate(db, solver[Web])

LEMMA WebStep ==
    ASSUME Procs = {Web}, WebInv, SoleInv(Web)', DatabaseConsistent', [SolveNext]_solveVars
    PROVE  WebInv'
<1> DEFINE s == solver[Web]
<1>0. Web \in DOMAIN solver /\ SolveTypeOK /\ Consistent(db)
  BY DEF WebInv, SoleInv, SolveTypeOK, DatabaseConsistent
<1>1. SUFFICES UpToDate(db', solver'[Web])
  BY DEF WebInv
<1>2. CASE Edit
  <2>1. s.pc = "idle" /\ solver' = solver
    BY <1>2 DEF Edit, WebFree
  <2> QED BY <2>1 DEF UpToDate, Reads, SolveWrites
<1>3. ASSUME \/ ReadSlots(Web) \/ ReadAvail(Web) \/ ReadCurations(Web) \/ ReadGroups(Web)
             \/ ReadGroupMembers(Web) \/ ReadPriorAndAssign(Web) \/ \E r \in db.rounds : Start(Web, r)
      PROVE  UpToDate(db', solver'[Web])
  BY <1>0, <1>3, ReadsUpToDate DEF WebInv
<1>4. ASSUME SelectOld(Web) \/ DeleteOld(Web) \/ \E row \in s.todo : Create(Web, row)
      PROVE  UpToDate(db', solver'[Web])
  BY <1>0, <1>4, WritesUpToDate DEF WebInv
<1>5. ASSUME Becomes(Web, Idle) PROVE UpToDate(db', solver'[Web])
  BY <1>0, <1>5 DEF Becomes, Idle, UpToDate, Reads, SolveWrites
<1>6. CASE UNCHANGED solveVars
  BY <1>6 DEF solveVars, WebInv
<1> QED BY <1>2, <1>3, <1>4, <1>5, <1>6
        DEF SolveNext, SolveStep, Crash, CreateFails, Return

LEMMA WebAlways ==
    ASSUME Procs = {Web} PROVE SolveSpec => []WebInv
<1>1. SolveInit => WebInv
  <2> SUFFICES ASSUME SolveInit PROVE WebInv
    OBVIOUS
  <2>1. SoleInv(Web)
    BY SoleInit
  <2>2. DatabaseConsistent
    BY IdsAssumption DEF SolveInit, DatabaseConsistent
  <2>3. UpToDate(db, solver[Web])
    BY DEF SolveInit, Idle, UpToDate, Reads, SolveWrites
  <2> QED BY <2>1, <2>2, <2>3 DEF WebInv
<1>2. WebInv /\ SolveTypeOK' /\ DatabaseConsistent' /\ [SolveNext]_solveVars => WebInv'
  <2> SUFFICES ASSUME WebInv, SolveTypeOK', DatabaseConsistent', [SolveNext]_solveVars
               PROVE  WebInv'
    OBVIOUS
  <2>1. SoleInv(Web)'
    BY SoleNext DEF WebInv
  <2> QED BY <2>1, WebStep
<1> QED BY <1>1, <1>2, TypeCorrect, ConsistencyKept, PTL DEF SolveSpec

\* While the process writes, its plan is the one for the tables.
LEMMA PlanInForce ==
    ASSUME WebInv, solver[Web].pc \in SolveWrites
    PROVE  \E r \in db.rounds :
              /\ r.id = solver[Web].round
              /\ Ready(r, InputOf(db, r)) /\ CanAssign(InputOf(db, r), Threshold)
              /\ solver[Web].plan = assignments(InputOf(db, r), Threshold)
  BY DEF WebInv, UpToDate, Ready, SoleInv, SolveTypeOK, DatabaseConsistent

LEMMA SameRoundStep ==
    ASSUME Procs = {Web}, WebInv, SlotOfSameRound, [SolveNext]_solveVars
    PROVE  SlotOfSameRound'
<1> DEFINE s == solver[Web]
<1>0. ProcOK(s) /\ db \in DB
  BY DEF WebInv, SoleInv, SolveTypeOK
<1>1. CASE Edit
  <2>1. db'.pres = db.pres /\ AdminRequest
    BY <1>0, <1>1, EditType DEF Edit
  <2>2. \A t \in db.slots : t \in db'.slots \/ ~SlotReferenced(db, t.id)
    BY <1>0, <2>1, EditSlots
  <2> QED BY <2>1, <2>2 DEF SlotOfSameRound, SlotReferenced
<1>2. CASE DeleteOld(Web)
  <2>1. db'.pres \subseteq db.pres /\ db'.slots = db.slots
    BY <1>0, <1>2 DEF DeleteOld, delete_presentations, DB, Database
  <2> QED BY <2>1 DEF SlotOfSameRound
<1>3. ASSUME NEW row \in s.todo, Create(Web, row) PROVE SlotOfSameRound'
  <2>1. db'.pres = db.pres \cup {RowOf(row, s.round)} /\ db'.slots = db.slots
    BY <1>0, <1>3 DEF Create, create_presentation, RowOf, DB, Database
  <2>2. PICK r \in db.rounds : /\ r.id = s.round
                               /\ Ready(r, InputOf(db, r)) /\ CanAssign(InputOf(db, r), Threshold)
                               /\ s.plan = assignments(InputOf(db, r), Threshold)
    BY <1>3, PlanInForce DEF Create, At, SolveWrites
  <2>3. PICK result :
           /\ s.plan = {[group |-> g, slot |-> result[g]] : g \in DOMAIN result}
           /\ \A g \in DOMAIN result :
                 result[g] \in {t.id : t \in get_slots_for_round(db, r.id)}
    <3> HIDE DEF s
    <3> QED BY <2>2, PlanOfTables
  <2>4. row \in s.plan
    BY <1>0, <1>3 DEF ProcOK
  <2>5. row.slot \in {t.id : t \in get_slots_for_round(db, s.round)}
    BY <2>2, <2>3, <2>4
  <2>6. PICK t \in db.slots : t.id = row.slot /\ t.round = s.round
    BY <2>5 DEF get_slots_for_round
  <2> QED BY <2>1, <2>6 DEF SlotOfSameRound, RowOf
<1>4. CASE UNCHANGED db
  BY <1>4 DEF SlotOfSameRound
<1> QED BY <1>1, <1>2, <1>3, <1>4
        DEF SolveNext, SolveStep, Crash, Start, ReadSlots, ReadAvail, ReadCurations, ReadGroups,
            ReadGroupMembers, ReadPriorAndAssign, SelectOld, CreateFails, Return, solveVars

\* A presentation is on a slot of its own round, and the slot is there: neither
\* a pin nor an edit between two solves nor a killed solve changes that.
THEOREM OnSlotsOfTheRound ==
    ASSUME Procs = {Web},
           \A d \in Databases : \A p \in d.pres : \E t \in d.slots : t.id = p.slot /\ t.round = p.round
    PROVE  SolveSpec => []SlotOfSameRound
<1>1. SolveInit => SlotOfSameRound
  BY DEF SolveInit, SlotOfSameRound
<1>2. WebInv /\ SlotOfSameRound /\ [SolveNext]_solveVars => SlotOfSameRound'
  BY SameRoundStep
<1> QED BY <1>1, <1>2, WebAlways, PTL DEF SolveSpec

\* The rows of a solved round are those of a function as PlanOfTables has it.
LEMMA SolvedRows ==
    ASSUME WebInv, NEW r \in db.rounds, SolvedRound(r)
    PROVE  /\ Ready(r, InputOf(db, r)) /\ CanAssign(InputOf(db, r), Threshold)
           /\ {p \in db.pres : p.round = r.id} =
                 {RowOf(k, r.id) : k \in assignments(InputOf(db, r), Threshold)}
<1> DEFINE s == solver[Web]
<1>1. s.pc = "create" /\ s.todo = {} /\ s.round = r.id
  BY DEF SolvedRound, At
<1>2. PICK q \in db.rounds : /\ q.id = s.round
                             /\ Ready(q, InputOf(db, q)) /\ CanAssign(InputOf(db, q), Threshold)
                             /\ s.plan = assignments(InputOf(db, q), Threshold)
  BY <1>1, PlanInForce DEF SolveWrites
<1>3. q = r
  BY <1>1, <1>2 DEF WebInv, DatabaseConsistent, Consistent, KeysUnique
<1>4. get_presentations_for_round(db, s.round) = {RowOf(k, s.round) : k \in s.plan \ s.todo}
  BY <1>1 DEF WebInv, SoleInv, Replacing
<1>5. s.plan \ s.todo = s.plan
  BY <1>1
<1> QED BY <1>1, <1>2, <1>3, <1>4, <1>5 DEF get_presentations_for_round

\* One row for a group, so counting rows is counting groups.
LEMMA RowsAreGroups ==
    ASSUME NEW r, NEW result, IsFiniteSet(DOMAIN result), NEW slot,
           {p \in db.pres : p.round = r.id} =
              {RowOf(k, r.id) : k \in {[group |-> g, slot |-> result[g]] : g \in DOMAIN result}}
    PROVE  Cardinality(RowsOn(r, slot)) = Cardinality(On(result, slot))
<1> DEFINE G == On(result, slot)
           P == RowsOn(r, slot)
           row(g) == RowOf([group |-> g, slot |-> result[g]], r.id)
           f == [g \in G |-> row(g)]
<1>1. {p \in db.pres : p.round = r.id} = {row(g) : g \in DOMAIN result}
  OBVIOUS
<1>2. \A g : row(g).group = g /\ row(g).slot = result[g] /\ row(g).round = r.id
  BY DEF RowOf
<1> HIDE DEF row
<1>3. P = {row(g) : g \in G}
  <2>1. P = {p \in {q \in db.pres : q.round = r.id} : p.slot = slot}
    BY DEF RowsOn
  <2>2. {p \in {row(g) : g \in DOMAIN result} : p.slot = slot} = {row(g) : g \in G}
    BY <1>2 DEF On
  <2> QED BY <1>1, <2>1, <2>2
<1>4. IsFiniteSet(G)
  BY FS_Subset DEF On
<1> HIDE DEF G, P
<1>5. f \in [G -> P] /\ \A g \in G : f[g] = row(g)
  BY <1>3
<1>6. \A p \in P : \E g \in G : f[g] = p
  BY <1>3, <1>5
<1>7. \A g, h \in G : f[g] = f[h] => g = h
  BY <1>2, <1>5
<1> HIDE DEF f
<1>8. f \in Bijection(G, P)
  BY <1>5, <1>6, <1>7 DEF Bijection, Injection, Surjection, IsInjective
<1>9. Cardinality(P) = Cardinality(G)
  BY <1>4, <1>8, FS_Bijection DEF ExistsBijection
<1> QED BY <1>9 DEF G, P

LEMMA SolvedIsRight ==
    ASSUME WebInv PROVE ScheduleSound /\ ScheduleComplete
<1>1. ASSUME NEW r \in db.rounds, SolvedRound(r)
      PROVE  /\ \A p \in {x \in db.pres : x.round = r.id} :
                   \/ p.slot \in PinsOf(r, p.group)
                   \/ /\ PinsOf(r, p.group) = {}
                      /\ InPool(r, p.group) /\ QuorumMet(r, p.group, p.slot)
                      /\ \E s \in db.slots :
                            /\ s.id = p.slot /\ s.round = r.id
                            /\ Cardinality(RowsOn(r, s.id)) =< s.capacity
             /\ \A g \in db.groups :
                   /\ \A s \in PinsOf(r, g) :
                         \E p \in {x \in db.pres : x.round = r.id /\ x.group = g} : p.slot = s
                   /\ InPool(r, g) /\ {x \in db.pres : x.round = r.id /\ x.group = g} = {} =>
                         \A s \in get_slots_for_round(db, r.id) :
                            QuorumMet(r, g, s.id) => Cardinality(RowsOn(r, s.id)) >= s.capacity
  <2>1. /\ Ready(r, InputOf(db, r)) /\ CanAssign(InputOf(db, r), Threshold)
        /\ {p \in db.pres : p.round = r.id} =
              {RowOf(k, r.id) : k \in assignments(InputOf(db, r), Threshold)}
    BY <1>1, SolvedRows
  <2>2. PICK result :
           /\ assignments(InputOf(db, r), Threshold)
                 = {[group |-> g, slot |-> result[g]] : g \in DOMAIN result}
           /\ IsFiniteSet(DOMAIN result)
           /\ \A g : PinsOf(r, g) # {} =>
                 g \in DOMAIN result /\ PinsOf(r, g) = {result[g]}
           /\ \A g \in DOMAIN result :
                 result[g] \in {t.id : t \in get_slots_for_round(db, r.id)}
           /\ \A g \in DOMAIN result : PinsOf(r, g) = {} =>
                 /\ InPool(r, g) /\ QuorumMet(r, g, result[g])
                 /\ \A t \in get_slots_for_round(db, r.id) : t.id = result[g] =>
                       Cardinality(On(result, t.id)) =< t.capacity
           /\ \A g \in db.groups : InPool(r, g) /\ g \notin DOMAIN result =>
                 \A t \in get_slots_for_round(db, r.id) :
                    QuorumMet(r, g, t.id) => Cardinality(On(result, t.id)) >= t.capacity
    BY <2>1, PlanOfTables
  <2> DEFINE row(g) == RowOf([group |-> g, slot |-> result[g]], r.id)
  <2>3. {p \in db.pres : p.round = r.id} = {row(g) : g \in DOMAIN result}
    <3>1. {RowOf(k, r.id) : k \in {[group |-> g, slot |-> result[g]] : g \in DOMAIN result}}
             = {row(g) : g \in DOMAIN result}
      OBVIOUS
    <3> HIDE DEF row
    <3> QED BY <2>1, <2>2, <3>1
  <2>4. \A slot : Cardinality(RowsOn(r, slot)) = Cardinality(On(result, slot))
    BY <2>1, <2>2, RowsAreGroups
  <2>5. \A g : row(g).group = g /\ row(g).slot = result[g] /\ row(g).round = r.id
    BY DEF RowOf
  <2> HIDE DEF row
  <2>6. ASSUME NEW p \in db.pres, p.round = r.id
        PROVE  \/ p.slot \in PinsOf(r, p.group)
               \/ /\ PinsOf(r, p.group) = {}
                  /\ InPool(r, p.group) /\ QuorumMet(r, p.group, p.slot)
                  /\ \E s \in db.slots :
                        /\ s.id = p.slot /\ s.round = r.id
                        /\ Cardinality(RowsOn(r, s.id)) =< s.capacity
    <3>1. PICK g \in DOMAIN result : p = row(g)
      BY <2>3, <2>6
    <3>2. p.group = g /\ p.slot = result[g]
      BY <2>5, <3>1
    <3>3. CASE PinsOf(r, g) # {}
      BY <2>2, <3>2, <3>3
    <3>4. CASE PinsOf(r, g) = {}
      <4>1. PICK t \in get_slots_for_round(db, r.id) : t.id = result[g]
        BY <2>2
      <4>2. t \in db.slots /\ t.round = r.id
        BY DEF get_slots_for_round
      <4>3. /\ InPool(r, g) /\ QuorumMet(r, g, result[g])
            /\ Cardinality(On(result, t.id)) =< t.capacity
        BY <2>2, <3>4, <4>1
      <4> QED BY <2>4, <3>2, <3>4, <4>1, <4>2, <4>3
    <3> QED BY <3>3, <3>4
  <2>7. ASSUME NEW g \in db.groups, NEW s \in PinsOf(r, g)
        PROVE  \E p \in {x \in db.pres : x.round = r.id /\ x.group = g} : p.slot = s
    <3>1. g \in DOMAIN result /\ result[g] = s
      BY <2>2, <2>7
    <3>2. row(g) \in {p \in db.pres : p.round = r.id}
      BY <2>3, <3>1
    <3> QED BY <2>5, <3>1, <3>2
  <2>8. ASSUME NEW g \in db.groups, InPool(r, g),
               {x \in db.pres : x.round = r.id /\ x.group = g} = {},
               NEW s \in get_slots_for_round(db, r.id), QuorumMet(r, g, s.id)
        PROVE  Cardinality(RowsOn(r, s.id)) >= s.capacity
    <3>1. g \notin DOMAIN result
      <4> SUFFICES ASSUME g \in DOMAIN result PROVE FALSE
        OBVIOUS
      <4>1. row(g) \in {p \in db.pres : p.round = r.id}
        BY <2>3
      <4> QED BY <2>5, <2>8, <4>1
    <3> QED BY <2>2, <2>4, <2>8, <3>1
  <2> QED BY <2>6, <2>7, <2>8
<1> QED BY <1>1 DEF ScheduleSound, ScheduleComplete

\* Whoever is on the schedule of a solved round belongs there: on the pin the
\* admin may insist on, or as a group of the pool on a slot of the round its due
\* members can attend and which is not overfilled.
THEOREM SchedulesAreSound ==
    ASSUME Procs = {Web} PROVE SolveSpec => []ScheduleSound
<1>1. WebInv => ScheduleSound
  BY SolvedIsRight
<1> QED BY <1>1, WebAlways, PTL

\* And whoever could be scheduled is: pins are kept, and a group of the pool is
\* left out only if each slot it could attend is full.
THEOREM SchedulesAreComplete ==
    ASSUME Procs = {Web} PROVE SolveSpec => []ScheduleComplete
<1>1. WebInv => ScheduleComplete
  BY SolvedIsRight
<1> QED BY <1>1, WebAlways, PTL
=============================================================================
