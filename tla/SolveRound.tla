----------------------------- MODULE SolveRound -----------------------------
(***************************************************************************)
(* solve_round (src/planer/planning.py) as the processes that run it see   *)
(* it: a sequence of SELECTs, each of which sees what is committed at that *)
(* moment, the pure computation of Planning, and a sequence of commits.    *)
(* `Web` is the uvicorn process, which runs one handler at a time; every   *)
(* other process is a `plan` command of the CLI on the same file, and its  *)
(* steps interleave with everybody's.                                      *)
(*                                                                         *)
(* A process keeps: pc, the statement it is about to execute; round; inp,  *)
(* what it has read; old, the keys of the presentations it is about to     *)
(* delete; plan, the rows to create; todo, those not created yet.          *)
(***************************************************************************)
EXTENDS AdminWeb, Planning

CONSTANTS
    Procs,          \* processes that may run the solver
    Web,            \* the uvicorn process, in Procs or not
    Threshold       \* settings.individual_threshold

VARIABLE solver

solveVars == <<db, solver>>

Labels == {"idle", "slots", "avail", "curations", "groups", "students", "prior",
           "select", "delete", "create"}

NothingRead ==
    [quorum |-> "all", slots |-> {}, avail |-> {}, curations |-> {},
     groups |-> {}, students |-> {}, prior |-> {}]

Idle == [pc |-> "idle", round |-> 1, inp |-> NothingRead, old |-> {},
         plan |-> {}, todo |-> {}]

\* A handler of the web process can run only while no other one does.
WebFree == Web \in Procs => solver[Web].pc = "idle"

ASSUME SolveAssumption == Threshold \in Int

-----------------------------------------------------------------------------

SolveInit ==
    /\ db \in Databases
    /\ solver = [p \in Procs |-> Idle]

At(p, label) == solver[p].pc = label

\* The step changes what p keeps to s, and nothing of another process.
Becomes(p, s) == solver' = [solver EXCEPT ![p] = s]

\* get_round; a round that does not exist counts as quorum "all", and nothing
\* is ever created for it, so only rounds that exist are solved.
Start(p, r) ==
    /\ At(p, "idle")
    /\ r \in db.rounds
    /\ Becomes(p, [Idle EXCEPT !.pc = "slots", !.round = r.id,
                               !.inp = [@ EXCEPT !.quorum = r.quorum]])
    /\ UNCHANGED db

ReadSlots(p) ==
    /\ At(p, "slots")
    /\ Becomes(p, [solver[p] EXCEPT !.pc = "avail",
          !.inp = [@ EXCEPT !.slots = get_slots_for_round(db, solver[p].round)]])
    /\ UNCHANGED db

ReadAvail(p) ==
    /\ At(p, "avail")
    /\ Becomes(p, [solver[p] EXCEPT !.pc = "curations",
          !.inp = [@ EXCEPT !.avail = get_availabilities_for_round(db, solver[p].round)]])
    /\ UNCHANGED db

ReadCurations(p) ==
    /\ At(p, "curations")
    /\ Becomes(p, [solver[p] EXCEPT !.pc = "groups",
          !.inp = [@ EXCEPT !.curations = get_curations_for_round(db, solver[p].round)]])
    /\ UNCHANGED db

ReadGroups(p) ==
    /\ At(p, "groups")
    /\ Becomes(p, [solver[p] EXCEPT !.pc = "students", !.inp = [@ EXCEPT !.groups = db.groups]])
    /\ UNCHANGED db

\* The students of the groups it has read; an import may have come between.
ReadGroupMembers(p) ==
    /\ At(p, "students")
    /\ Becomes(p, [solver[p] EXCEPT !.pc = "prior",
          !.inp = [@ EXCEPT !.students = get_students_in_groups(db, solver[p].inp.groups)]])
    /\ UNCHANGED db

\* The last SELECT and the computation up to `result`; a pin on a slot of
\* another round raises KeyError out of solve_round.
ReadPriorAndAssign(p) ==
    LET inp == [solver[p].inp EXCEPT !.prior =
                   get_presentations_before_round(db, solver[p].round)]
    IN  /\ At(p, "prior")
        /\ IF CanAssign(inp, Threshold)
           THEN Becomes(p, [Idle EXCEPT !.pc = "select", !.round = solver[p].round,
                                        !.plan = assignments(inp, Threshold)])
           ELSE Becomes(p, Idle)
        /\ UNCHANGED db

\* Mutant: marked rows are spared.
SelectOld_mutant(p) ==
    /\ At(p, "select")
    /\ Becomes(p, [solver[p] EXCEPT !.pc = "delete",
          !.old = {PresKey(x) : x \in {y \in db.pres :
                      y.round = solver[p].round /\ y.status = SCHEDULED}}])
    /\ UNCHANGED db

\* The SELECT of delete_presentations_for_round.
SelectOld(p) ==
    /\ At(p, "select")
    /\ Becomes(p, [solver[p] EXCEPT !.pc = "delete",
          !.old = {PresKey(x) : x \in get_presentations_for_round(db, solver[p].round)}])
    /\ UNCHANGED db

\* Mutant: nothing is deleted.
DeleteOld_mutant(p) ==
    /\ At(p, "delete")
    /\ Becomes(p, [solver[p] EXCEPT !.pc = "create", !.old = {}, !.todo = solver[p].plan])
    /\ UNCHANGED db

\* Its DELETEs and the commit.
DeleteOld(p) ==
    /\ At(p, "delete")
    /\ db' = delete_presentations(db, solver[p].old)
    /\ Becomes(p, [solver[p] EXCEPT !.pc = "create", !.old = {}, !.todo = solver[p].plan])

\* One create_presentation, in any order of the rows, with its commit.
Create(p, row) ==
    /\ At(p, "create") /\ row \in solver[p].todo
    /\ CanCreatePresentation(db, row.group, row.slot, solver[p].round)
    /\ db' = create_presentation(db, row.group, row.slot, solver[p].round)
    /\ Becomes(p, [solver[p] EXCEPT !.todo = @ \ {row}])

\* The INSERT is refused: IntegrityError leaves solve_round, the rows created
\* before it stay.
CreateFails(p, row) ==
    /\ At(p, "create") /\ row \in solver[p].todo
    /\ ~CanCreatePresentation(db, row.group, row.slot, solver[p].round)
    /\ Becomes(p, Idle)
    /\ UNCHANGED db

Return(p) ==
    /\ At(p, "create") /\ solver[p].todo = {}
    /\ Becomes(p, Idle)
    /\ UNCHANGED db

\* The process is killed, or a statement fails (a locked database): whatever
\* is committed stays, the rest never happens.
Crash(p) ==
    /\ ~At(p, "idle")
    /\ Becomes(p, Idle)
    /\ UNCHANGED db

SolveStep(p) ==
    \/ ReadSlots(p) \/ ReadAvail(p) \/ ReadCurations(p) \/ ReadGroups(p)
    \/ ReadGroupMembers(p) \/ ReadPriorAndAssign(p) \/ SelectOld(p) \/ DeleteOld(p)
    \/ \E row \in solver[p].todo : Create(p, row) \/ CreateFails(p, row)
    \/ Return(p)

Edit == WebFree /\ AdminRequest /\ UNCHANGED solver

SolveNext ==
    \/ Edit
    \/ \E p \in Procs :
          SolveStep(p) \/ Crash(p) \/ \E r \in db.rounds : Start(p, r)

SolveSpec == SolveInit /\ [][SolveNext]_solveVars

-----------------------------------------------------------------------------
(* Properties.                                                             *)

Keys == [group : GroupIds, slot : SlotIds]

ProcOK(s) ==
    s \in [pc : Labels, round : RoundIds, inp : {s.inp}, old : SUBSET Keys,
           plan : {s.plan}, todo : SUBSET s.plan]

\* The shape of the tables and of what each process keeps.
SolveTypeOK ==
    /\ db \in DB
    /\ DOMAIN solver = Procs
    /\ \A p \in Procs : ProcOK(solver[p])

\* Keys stay unique and no row ever names a row that is gone, whatever edits,
\* solves and crashes interleave: the guards of the handlers and the key of
\* each write are enough to keep the schema's constraints.
DatabaseConsistent == Consistent(db)

\* A group has at most one presentation in a round.  The dashboard, the export
\* and the tutor page read the rows of a round as a map from groups
\* (admin.py:213).  It holds while one process solves, crashes and failed
\* INSERTs included.
OneRow(d) ==
    \A x, y \in d.pres : x.round = y.round /\ x.group = y.group => x = y

OneRowPerGroup == OneRow(db)

\* The solve of p has created its last row.
Finished(p) == At(p, "create") /\ solver[p].todo = {}

\* "replacing any prior run" (planning.py:36): when a solve has created its
\* last row, the presentations of the round are exactly its plan, all of them
\* unmarked: no row of an earlier run is left and none of its own is missing,
\* although every row was a commit of its own.
CompleteReplacement ==
    \A p \in Procs : Finished(p) =>
        get_presentations_for_round(db, solver[p].round) =
            {[group |-> row.group, slot |-> row.slot, round |-> solver[p].round,
              status |-> SCHEDULED] : row \in solver[p].plan}

-----------------------------------------------------------------------------
(* What the schedule of a round must be, said of the tables themselves and *)
(* without the algorithm.                                                  *)

StillDue(s) == ~s.prev /\ ~s.assessed /\ s.points < Threshold

DueIn(g) == {s \in db.students : s.group = g /\ StillDue(s)}

Answer(s, slot, yes) ==
    [student |-> s.user_id, slot |-> slot, available |-> yes] \in db.avail

QuorumMet(r, g, slot) ==
    IF r.quorum = "any" THEN \E s \in DueIn(g) : Answer(s, slot, TRUE)
                        ELSE \A s \in DueIn(g) : Answer(s, slot, TRUE)

\* The due members' declines block the slot under the round's quorum.
Blocked(r, g, slot) ==
    IF r.quorum = "any"
    THEN DueIn(g) # {} /\ \A s \in DueIn(g) : Answer(s, slot, FALSE)
    ELSE \E s \in DueIn(g) : Answer(s, slot, FALSE)

Curated(r, g) == {c \in db.curations : c.round = r.id /\ c.group = g}

\* The slot the group is fixed to and may be put on.
PinsOf(r, g) ==
    {c.pin : c \in {k \in Curated(r, g) :
        k.included /\ k.pin # NoSlot /\ (k.override \/ ~Blocked(r, g, k.pin))}}

PresentedBefore(r, g) ==
    \E p \in db.pres : p.group = g /\ p.round < r.id /\ p.status = PRESENTED

InPool(r, g) ==
    /\ \A c \in Curated(r, g) : c.included
    /\ DueIn(g) # {} /\ ~PresentedBefore(r, g)

RowsOn(r, slot) == {p \in db.pres : p.round = r.id /\ p.slot = slot}

\* While the web process alone works on the file its handlers are serialised,
\* so the tables still hold what the solve read.
SolvedRound(r) == At(Web, "create") /\ solver[Web].todo = {} /\ solver[Web].round = r.id

\* Nobody is scheduled who should not be: each row of a solved round is a pin
\* the admin may insist on, or a group of the pool on a slot of this round its
\* due members can attend, and that slot is not overfilled, whatever the pins did.
ScheduleSound ==
    \A r \in db.rounds : SolvedRound(r) =>
        \A p \in {x \in db.pres : x.round = r.id} :
            \/ p.slot \in PinsOf(r, p.group)
            \/ /\ PinsOf(r, p.group) = {}
               /\ InPool(r, p.group) /\ QuorumMet(r, p.group, p.slot)
               /\ \E s \in db.slots :
                     /\ s.id = p.slot /\ s.round = r.id
                     /\ Cardinality(RowsOn(r, s.id)) =< s.capacity

\* Nobody who could be scheduled is forgotten: a fixed group is on its pin, and
\* a group of the pool has a row unless each slot it could attend is full.
ScheduleComplete ==
    \A r \in db.rounds : SolvedRound(r) =>
        \A g \in db.groups :
            LET row == {p \in db.pres : p.round = r.id /\ p.group = g}
            IN  /\ \A s \in PinsOf(r, g) : \E p \in row : p.slot = s
                /\ InPool(r, g) /\ row = {} =>
                      \A s \in get_slots_for_round(db, r.id) :
                         QuorumMet(r, g, s.id) => Cardinality(RowsOn(r, s.id)) >= s.capacity

\* A presentation is on a slot of its own round: a pin may name a slot of
\* another round, but then the solve ends before its first write.
SlotOfSameRound ==
    \A p \in db.pres : \E s \in db.slots : s.id = p.slot /\ s.round = p.round

-----------------------------------------------------------------------------
(* What comments of the code say and the code does not do.                 *)

\* "hold the group back", "conflict — leave unscheduled for the admin to
\* resolve" (planning.py:90,102): a group whose pin a due member declined,
\* without override, has no row after the solve.
HeldBackWhenDeclined ==
    \A r \in db.rounds : SolvedRound(r) =>
        \A c \in db.curations :
            c.round = r.id /\ c.pin # NoSlot /\ ~c.override /\ Blocked(r, c.group, c.pin)
                => ~ \E p \in db.pres : p.round = r.id /\ p.group = c.group
=============================================================================
