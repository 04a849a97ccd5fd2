----------------------------- MODULE Repository -----------------------------
(***************************************************************************)
(* The tables of src/planer/adapters/db.py and the repository functions on *)
(* them.  A database is a record with one field per table, a table is a    *)
(* set of rows.  A function of the code that writes is an operator from a  *)
(* database to the database after its commit; each of them commits on its  *)
(* own, so one application is one atomic step of whoever calls it.         *)
(*                                                                         *)
(* Columns no decision reads (names, e-mail, times, rooms, labels) are     *)
(* left out.  A solo student's group_id is already resolved to its own id  *)
(* when the row is written (resolve_group_id), so `group` is never empty.  *)
(***************************************************************************)
EXTENDS Domain

NoSlot == 0     \* curation.pinned_slot_id IS NULL

Modes   == {"availability", "confirm"}
Quorums == {"all", "any"}

Database(UserIds, GroupIds, RoundIds, SlotIds) ==
    [students  : SUBSET [user_id : UserIds, group : GroupIds, prev : BOOLEAN,
                         assessed : BOOLEAN, points : Nat],
     groups    : SUBSET GroupIds,
     rounds    : SUBSET [id : RoundIds, mode : Modes, quorum : Quorums],
     slots     : SUBSET [id : SlotIds, round : RoundIds, capacity : Int],
     avail     : SUBSET [student : UserIds, slot : SlotIds, available : BOOLEAN],
     curations : SUBSET [group : GroupIds, round : RoundIds, included : BOOLEAN,
                         pin : SlotIds \cup {NoSlot}, override : BOOLEAN],
     pres      : SUBSET [group : GroupIds, slot : SlotIds, round : RoundIds,
                         status : Statuses],
     att       : SUBSET [student : UserIds, slot : SlotIds, group : GroupIds,
                         round : RoundIds, status : Statuses]]

-----------------------------------------------------------------------------
(* What the schema guarantees: primary keys and, since make_engine turns   *)
(* the pragma on, foreign keys.                                            *)

Ids(table) == {row.id : row \in table}

KeysUnique(db) ==
    /\ \A a, b \in db.students : a.user_id = b.user_id => a = b
    /\ \A a, b \in db.rounds : a.id = b.id => a = b
    /\ \A a, b \in db.slots : a.id = b.id => a = b
    /\ \A a, b \in db.avail : a.student = b.student /\ a.slot = b.slot => a = b
    /\ \A a, b \in db.curations : a.group = b.group /\ a.round = b.round => a = b
    /\ \A a, b \in db.pres : a.group = b.group /\ a.slot = b.slot => a = b
    /\ \A a, b \in db.att : a.student = b.student /\ a.slot = b.slot => a = b

ForeignKeys(db) ==
    LET users == {s.user_id : s \in db.students} IN
    /\ \A s \in db.slots : s.round \in Ids(db.rounds)
    /\ \A a \in db.avail : a.student \in users /\ a.slot \in Ids(db.slots)
    /\ \A c \in db.curations :
          /\ c.group \in db.groups /\ c.round \in Ids(db.rounds)
          /\ c.pin \in Ids(db.slots) \cup {NoSlot}
    /\ \A p \in db.pres :
          p.group \in db.groups /\ p.slot \in Ids(db.slots) /\ p.round \in Ids(db.rounds)
    /\ \A a \in db.att :
          /\ a.student \in users /\ a.slot \in Ids(db.slots)
          /\ a.group \in db.groups /\ a.round \in Ids(db.rounds)

Consistent(db) == KeysUnique(db) /\ ForeignKeys(db)

\* Mutant: availabilities and attendances are forgotten.
SlotReferenced_mutant(db, slot) ==
    \/ \E c \in db.curations : c.pin = slot
    \/ \E p \in db.pres : p.slot = slot

\* A row of another table names this slot, so deleting it is refused.
SlotReferenced(db, slot) ==
    \/ \E a \in db.avail : a.slot = slot
    \/ \E c \in db.curations : c.pin = slot
    \/ \E p \in db.pres : p.slot = slot
    \/ \E a \in db.att : a.slot = slot

\* INTEGER PRIMARY KEY without AUTOINCREMENT: one above the largest id in use,
\* so the id of a deleted last row is given out again.
NewId(table) == IF table = {} THEN 1 ELSE Max(Ids(table)) + 1

-----------------------------------------------------------------------------
(* Rounds and slots.                                                       *)

create_round(db) ==
    [db EXCEPT !.rounds = @ \cup
        {[id |-> NewId(db.rounds), mode |-> "availability", quorum |-> "all"]}]

set_round_mode(db, round, mode) ==
    [db EXCEPT !.rounds =
        {IF r.id = round THEN [r EXCEPT !.mode = mode] ELSE r : r \in @}]

set_round_quorum(db, round, quorum) ==
    [db EXCEPT !.rounds =
        {IF r.id = round THEN [r EXCEPT !.quorum = quorum] ELSE r : r \in @}]

create_slot(db, round, capacity) ==
    [db EXCEPT !.slots = @ \cup
        {[id |-> NewId(db.slots), round |-> round, capacity |-> capacity]}]

remove_slot(db, slot) == [db EXCEPT !.slots = {s \in @ : s.id # slot}]

get_slots_for_round(db, round) == {s \in db.slots : s.round = round}

-----------------------------------------------------------------------------
(* Availabilities and curations.                                           *)

\* Mutant: an insert only.
upsert_availability_mutant(db, student, slot, available) ==
    IF \E a \in db.avail : a.student = student /\ a.slot = slot THEN db
    ELSE [db EXCEPT !.avail = @ \cup
            {[student |-> student, slot |-> slot, available |-> available]}]

upsert_availability(db, student, slot, available) ==
    [db EXCEPT !.avail =
        {a \in @ : ~(a.student = student /\ a.slot = slot)} \cup
        {[student |-> student, slot |-> slot, available |-> available]}]

get_availabilities_for_round(db, round) ==
    {a \in db.avail : a.slot \in Ids(get_slots_for_round(db, round))}

upsert_curation(db, group, round, included, pin, override) ==
    [db EXCEPT !.curations =
        {c \in @ : ~(c.group = group /\ c.round = round)} \cup
        {[group |-> group, round |-> round, included |-> included, pin |-> pin,
          override |-> override]}]

get_curations_for_round(db, round) == {c \in db.curations : c.round = round}

\* Pins and overrides of existing rows stay.
set_all_curations_included(db, round, group_ids, included) ==
    LET existing == {c.group : c \in get_curations_for_round(db, round)} IN
    [db EXCEPT !.curations =
        {IF c.round = round /\ c.group \in group_ids
         THEN [c EXCEPT !.included = included] ELSE c : c \in @} \cup
        {[group |-> g, round |-> round, included |-> included, pin |-> NoSlot,
          override |-> FALSE] : g \in group_ids \ existing}]

-----------------------------------------------------------------------------
(* Presentations and attendance.                                           *)

PresKey(p) == [group |-> p.group, slot |-> p.slot]

\* Mutant: the wrong spelling of the status.
create_presentation_mutant(db, group, slot, round) ==
    [db EXCEPT !.pres = @ \cup
        {[group |-> group, slot |-> slot, round |-> round, status |-> "scheduled"]}]

create_presentation(db, group, slot, round) ==
    [db EXCEPT !.pres = @ \cup
        {[group |-> group, slot |-> slot, round |-> round, status |-> SCHEDULED]}]

\* The INSERT is refused when the key is taken or a parent row is missing.
CanCreatePresentation(db, group, slot, round) ==
    /\ \A p \in db.pres : PresKey(p) # [group |-> group, slot |-> slot]
    /\ group \in db.groups /\ slot \in Ids(db.slots) /\ round \in Ids(db.rounds)

\* session.delete issues one DELETE per row it has read, by primary key.
delete_presentations(db, keys) ==
    [db EXCEPT !.pres = {p \in @ : PresKey(p) \notin keys}]

get_presentations_for_round(db, round) == {p \in db.pres : p.round = round}

get_presentations_for_slot(db, round, slot) ==
    {p \in db.pres : p.round = round /\ p.slot = slot}

get_presentations_before_round(db, round) == {p \in db.pres : p.round < round}

update_presentation_status(db, group, slot, status) ==
    [db EXCEPT !.pres =
        {IF p.group = group /\ p.slot = slot THEN [p EXCEPT !.status = status] ELSE p :
            p \in @}]

\* session.merge: an existing row of the same student and slot is overwritten.
upsert_member_attendance(db, student, slot, group, round, status) ==
    [db EXCEPT !.att =
        {a \in @ : ~(a.student = student /\ a.slot = slot)} \cup
        {[student |-> student, slot |-> slot, group |-> group, round |-> round,
          status |-> status]}]

-----------------------------------------------------------------------------
(* The purge of a round.  `slot_ids` are the slots it had when the command *)
(* read them; the rows of the other tables are selected while deleting.    *)

\* Mutant: the schema without the foreign keys of the attendance.
PurgeRefused_mutant(db, round, slot_ids) ==
    LET gone == Ids(get_slots_for_round(db, round)) IN
    \/ \E c \in db.curations : c.round # round /\ c.pin \in gone
    \/ \E p \in db.pres : p.round # round /\ p.slot \in gone

\* A row that delete_round leaves alone names the round or a slot it deletes.
PurgeRefused(db, round, slot_ids) ==
    LET gone == Ids(get_slots_for_round(db, round)) IN
    \/ \E a \in db.att : a.round = round \/ a.slot \in gone
    \/ \E c \in db.curations : c.round # round /\ c.pin \in gone
    \/ \E p \in db.pres : p.round # round /\ p.slot \in gone
    \/ \E a \in db.avail : a.slot \in gone \ slot_ids

delete_round(db, round, slot_ids) ==
    [db EXCEPT !.rounds    = {r \in @ : r.id # round},
               !.slots     = {s \in @ : s.round # round},
               !.avail     = {a \in @ : a.slot \notin slot_ids},
               !.curations = {c \in @ : c.round # round},
               !.pres      = {p \in @ : p.round # round}]

-----------------------------------------------------------------------------
(* From the stored row to the domain participant: the one synthetic result *)
(* holds the stored points.                                                *)

student_to_participant(s) ==
    [user_id |-> s.user_id, group |-> s.group, prev |-> s.prev,
     assessed |-> s.assessed, results |-> {s.points}]

student_is_due(s, threshold) == is_due(student_to_participant(s), threshold)

get_students_in_groups(db, group_ids) == {s \in db.students : s.group \in group_ids}
=============================================================================
