------------------------------ MODULE AdminWeb ------------------------------
(***************************************************************************)
(* The handlers of src/planer/web/admin.py that change the database with   *)
(* one commit.  Each is one atomic step: the body of an `async def`        *)
(* handler awaits nothing, so the one uvicorn process runs it to its end   *)
(* before any other handler.  The solve and sync buttons are not here.     *)
(*                                                                         *)
(* A request that the database refuses (a missing parent row, a slot that  *)
(* is still referenced) or the handler rejects changes nothing; only the   *)
(* requests that go through are actions.  The pin is a number the admin    *)
(* types, so it can be a slot of any round.                                *)
(***************************************************************************)
EXTENDS Repository

CONSTANTS
    GroupIds, UserIds,
    MaxRound,       \* bound: no round beyond this id is created
    MaxSlot,        \* bound: no slot beyond this id is created
    Capacities,     \* capacities a new slot can get
    Databases       \* what an earlier use of the program may have left

VARIABLE db

RoundIds == 1..MaxRound
SlotIds  == 1..MaxSlot

DB == Database(UserIds, GroupIds, RoundIds, SlotIds)

ASSUME IdsAssumption ==
    /\ MaxRound \in Nat \ {0} /\ MaxSlot \in Nat \ {0} /\ Ranked(SlotIds)
    /\ IsFiniteSet(GroupIds) /\ GroupIds \subseteq Nat /\ IsFiniteSet(UserIds)
    /\ Capacities \subseteq Int
    /\ \A d \in Databases : d \in DB /\ Consistent(d)

CreateNewRound ==
    /\ NewId(db.rounds) \in RoundIds
    /\ db' = create_round(db)

AddSlot(round, capacity) ==
    /\ round \in Ids(db.rounds)
    /\ NewId(db.slots) \in SlotIds
    /\ db' = create_slot(db, round, capacity)

DeleteSlot(s) ==
    /\ s \in db.slots
    /\ ~SlotReferenced(db, s.id)
    /\ db' = remove_slot(db, s.id)

CurateGroup(group, round, included, pin, override) ==
    /\ group \in db.groups /\ round \in Ids(db.rounds)
    /\ pin \in Ids(db.slots) \cup {NoSlot}
    /\ db' = upsert_curation(db, group, round, included, pin, override)

CurateAll(round, included) ==
    /\ round \in Ids(db.rounds)
    /\ db' = set_all_curations_included(db, round, db.groups, included)

CurateSelected(round, group_ids, included) ==
    /\ round \in Ids(db.rounds)
    /\ group_ids # {} /\ group_ids \subseteq db.groups
    /\ db' = set_all_curations_included(db, round, group_ids, included)

SetMode(round, mode) ==
    /\ round \in Ids(db.rounds)
    /\ db' = set_round_mode(db, round, mode)

SetQuorum(round, quorum) ==
    /\ round \in Ids(db.rounds)
    /\ db' = set_round_quorum(db, round, quorum)

AdminRequest ==
    \/ CreateNewRound
    \/ \E s \in db.slots : DeleteSlot(s)
    \/ \E r \in RoundIds :
         \/ \E c \in Capacities : AddSlot(r, c)
         \/ \E g \in GroupIds, inc, ovr \in BOOLEAN, pin \in SlotIds \cup {NoSlot} :
               CurateGroup(g, r, inc, pin, ovr)
         \/ \E inc \in BOOLEAN : CurateAll(r, inc)
         \/ \E gs \in SUBSET GroupIds, inc \in BOOLEAN : CurateSelected(r, gs, inc)
         \/ \E m \in Modes : SetMode(r, m)
         \/ \E q \in Quorums : SetQuorum(r, q)
=============================================================================
