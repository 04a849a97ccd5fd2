------------------------- MODULE Repository_proofs --------------------------
(***************************************************************************)
(* Lemmas about the repository functions and the requests of AdminWeb: each *)
(* maps a database to a database, keeps the constraints of the schema, and *)
(* leaves alone the tables it has nothing to do with.                      *)
(***************************************************************************)
EXTENDS AdminWeb, FiniteSetTheorems, WellFoundedInduction, TLAPS

-----------------------------------------------------------------------------
(* The repository functions map databases to databases.                    *)

USE DEF Modes, Quorums

LEMMA CreateRoundType ==
    ASSUME NEW d \in DB, NewId(d.rounds) \in RoundIds
    PROVE  create_round(d) \in DB
  BY DEF DB, Database, create_round

LEMMA RemoveSlotType ==
    ASSUME NEW d \in DB, NEW s PROVE remove_slot(d, s) \in DB
  BY DEF DB, Database, remove_slot

LEMMA CreateSlotType ==
    ASSUME NEW d \in DB, NEW r \in RoundIds, NEW c \in Capacities,
           NewId(d.slots) \in SlotIds
    PROVE  create_slot(d, r, c) \in DB
  BY IdsAssumption DEF DB, Database, create_slot

LEMMA UpsertCurationType ==
    ASSUME NEW d \in DB, NEW g \in GroupIds, NEW r \in RoundIds, NEW i \in BOOLEAN,
           NEW pin \in SlotIds \cup {NoSlot}, NEW o \in BOOLEAN
    PROVE  upsert_curation(d, g, r, i, pin, o) \in DB
  BY DEF DB, Database, upsert_curation

LEMMA SetAllCurationsType ==
    ASSUME NEW d \in DB, NEW r \in RoundIds, NEW gs \in SUBSET GroupIds, NEW i \in BOOLEAN
    PROVE  set_all_curations_included(d, r, gs, i) \in DB
<1> DEFINE CurRow == [group : GroupIds, round : RoundIds, included : BOOLEAN,
                      pin : SlotIds \cup {NoSlot}, override : BOOLEAN]
           kept == {IF c.round = r /\ c.group \in gs
                    THEN [c EXCEPT !.included = i] ELSE c : c \in d.curations}
           existing == {c.group : c \in get_curations_for_round(d, r)}
           added == {[group |-> g, round |-> r, included |-> i, pin |-> NoSlot,
                      override |-> FALSE] : g \in gs \ existing}
<1>1. d.curations \subseteq CurRow
  BY DEF DB, Database
<1>2. kept \subseteq CurRow
  BY <1>1
<1>3. added \subseteq CurRow
  <2>1. \A g \in gs : [group |-> g, round |-> r, included |-> i, pin |-> NoSlot,
                        override |-> FALSE] \in CurRow
    OBVIOUS
  <2> HIDE DEF existing, CurRow
  <2> QED BY <2>1
<1>4. set_all_curations_included(d, r, gs, i) = [d EXCEPT !.curations = kept \cup added]
  BY DEF set_all_curations_included
<1> HIDE DEF kept, added
<1> QED BY <1>2, <1>3, <1>4 DEF DB, Database

LEMMA SetModeType ==
    ASSUME NEW d \in DB, NEW r, NEW m \in Modes PROVE set_round_mode(d, r, m) \in DB
  BY DEF DB, Database, set_round_mode

LEMMA SetQuorumType ==
    ASSUME NEW d \in DB, NEW r, NEW q \in Quorums PROVE set_round_quorum(d, r, q) \in DB
  BY DEF DB, Database, set_round_quorum

LEMMA CreatePresentationType ==
    ASSUME NEW d \in DB, NEW g, NEW s, NEW r, CanCreatePresentation(d, g, s, r)
    PROVE  create_presentation(d, g, s, r) \in DB
  BY DEF DB, Database, create_presentation, CanCreatePresentation, Ids, Statuses

LEMMA DeletePresentationsType ==
    ASSUME NEW d \in DB, NEW keys PROVE delete_presentations(d, keys) \in DB
  BY DEF DB, Database, delete_presentations

LEMMA UpdateStatusType ==
    ASSUME NEW d \in DB, NEW g, NEW s, NEW status \in Statuses
    PROVE  update_presentation_status(d, g, s, status) \in DB
  BY DEF DB, Database, update_presentation_status

LEMMA UpsertAttendanceType ==
    ASSUME NEW d \in DB, NEW u \in UserIds, NEW s \in SlotIds, NEW g \in GroupIds,
           NEW r \in RoundIds, NEW status \in Statuses
    PROVE  upsert_member_attendance(d, u, s, g, r, status) \in DB
  BY DEF DB, Database, upsert_member_attendance

LEMMA UpsertAvailabilityType ==
    ASSUME NEW d \in DB, NEW u \in UserIds, NEW s \in SlotIds, NEW yes \in BOOLEAN
    PROVE  upsert_availability(d, u, s, yes) \in DB
  BY DEF DB, Database, upsert_availability

LEMMA DeleteRoundType ==
    ASSUME NEW d \in DB, NEW r, NEW slot_ids PROVE delete_round(d, r, slot_ids) \in DB
  BY DEF DB, Database, delete_round

-----------------------------------------------------------------------------
(* The id of a new row.                                                    *)

\* A set of numbers up to n has a largest element.
LEMMA MaxIsMax ==
    ASSUME NEW n \in Nat, NEW S \in SUBSET (1..n), S # {}
    PROVE  Max(S) \in S /\ \A y \in S : y =< Max(S)
<1> DEFINE Bounds == {k \in Nat : \A y \in S : y =< k}
<1>0. \A y \in S : y \in Nat \ {0} /\ y =< n
  OBVIOUS
<1>1. n \in Bounds
  BY <1>0
<1>2. PICK m \in Bounds : \A k \in Bounds : ~(<<k, m>> \in OpToRel(<, Nat))
  BY <1>1, NatLessThanWellFounded, WFMin
<1>3. \A k \in Bounds : ~(k < m)
  BY <1>2 DEF OpToRel
<1>4. m \in S
  <2> SUFFICES ASSUME m \notin S PROVE FALSE
    OBVIOUS
  <2>1. PICK y \in S : TRUE
    OBVIOUS
  <2>2. m \in Nat /\ \A z \in S : z \in Nat \ {0} /\ z =< m /\ z # m
    <3>1. m \in Nat /\ \A z \in S : z =< m
      BY <1>2
    <3> QED BY <1>0, <3>1
  <2>3. m - 1 \in Nat /\ \A z \in S : z =< m - 1
    BY <2>1, <2>2
  <2>4. m - 1 \in Bounds
    BY <2>3
  <2>5. ~(m - 1 < m)
    BY <1>3, <2>4
  <2> QED BY <2>2, <2>5
<1>5. \A y \in S : m >= y
  BY <1>2
<1> QED BY <1>4, <1>5 DEF Max

\* The id of a new row is not taken, although ids of deleted rows are.
LEMMA NewIdIsFree ==
    ASSUME NEW n \in Nat, NEW table, Ids(table) \subseteq 1..n
    PROVE  \A row \in table : row.id < NewId(table)
<1>1. CASE table = {}
  BY <1>1
<1>2. CASE table # {}
  <2>1. Ids(table) # {}
    BY <1>2 DEF Ids
  <2>2. /\ Max(Ids(table)) \in 1..n
        /\ \A y \in Ids(table) : y =< Max(Ids(table)) /\ y \in 1..n
    BY <2>1, MaxIsMax
  <2>3. NewId(table) = Max(Ids(table)) + 1
    BY <1>2 DEF NewId
  <2>4. \A row \in table : row.id \in Ids(table)
    BY DEF Ids
  <2> QED BY <2>2, <2>3, <2>4
<1> QED BY <1>1, <1>2

-----------------------------------------------------------------------------
(* The repository functions keep keys and foreign keys.                    *)

USE DEF Consistent, KeysUnique, ForeignKeys, Ids

LEMMA CreateRoundConsistent ==
    ASSUME NEW d \in DB, Consistent(d), NewId(d.rounds) \in RoundIds
    PROVE  Consistent(create_round(d))
<1> DEFINE new == [id |-> NewId(d.rounds), mode |-> "availability", quorum |-> "all"]
<1>1. \A r \in d.rounds : r.id < NewId(d.rounds) /\ r.id \in Nat
  BY NewIdIsFree, IdsAssumption DEF RoundIds, DB, Database
<1>2. create_round(d) = [d EXCEPT !.rounds = d.rounds \cup {new}]
  BY DEF create_round
<1> QED BY <1>1, <1>2 DEF DB, Database, RoundIds

LEMMA CreateSlotConsistent ==
    ASSUME NEW d \in DB, Consistent(d), NEW r \in Ids(d.rounds), NEW c,
           NewId(d.slots) \in SlotIds
    PROVE  Consistent(create_slot(d, r, c))
<1> DEFINE new == [id |-> NewId(d.slots), round |-> r, capacity |-> c]
<1>1. \A s \in d.slots : s.id < NewId(d.slots) /\ s.id \in Nat
  <2>1. MaxSlot \in Nat /\ Ids(d.slots) \subseteq 1..MaxSlot
    BY IdsAssumption DEF SlotIds, DB, Database
  <2>2. \A s \in d.slots : s.id \in 1..MaxSlot
    BY <2>1
  <2> QED BY <2>1, <2>2, NewIdIsFree
<1>2. create_slot(d, r, c) = [d EXCEPT !.slots = d.slots \cup {new}]
  BY DEF create_slot
<1> QED BY <1>1, <1>2 DEF DB, Database, SlotIds

LEMMA RemoveSlotConsistent ==
    ASSUME NEW d \in DB, Consistent(d), NEW s, ~SlotReferenced(d, s)
    PROVE  Consistent(remove_slot(d, s))
  BY DEF remove_slot, SlotReferenced, DB, Database

LEMMA UpsertCurationConsistent ==
    ASSUME NEW d \in DB, Consistent(d), NEW g \in d.groups, NEW r \in Ids(d.rounds), NEW i,
           NEW pin \in Ids(d.slots) \cup {NoSlot}, NEW o
    PROVE  Consistent(upsert_curation(d, g, r, i, pin, o))
  BY DEF upsert_curation, DB, Database

LEMMA SetAllCurationsConsistent ==
    ASSUME NEW d \in DB, Consistent(d), NEW r \in Ids(d.rounds), NEW gs \in SUBSET d.groups, NEW i
    PROVE  Consistent(set_all_curations_included(d, r, gs, i))
<1> DEFINE changed(x) == IF x.round = r /\ x.group \in gs THEN [x EXCEPT !.included = i] ELSE x
           existing == {c.group : c \in get_curations_for_round(d, r)}
           new(g) == [group |-> g, round |-> r, included |-> i, pin |-> NoSlot, override |-> FALSE]
           rows == {changed(x) : x \in d.curations} \cup {new(g) : g \in gs \ existing}
<1>1. \A x \in d.curations :
         /\ changed(x).round = x.round /\ changed(x).group = x.group /\ changed(x).pin = x.pin
         /\ x.round = r => x.group \in existing
  BY DEF DB, Database, get_curations_for_round
<1>2. \A g : new(g).round = r /\ new(g).group = g /\ new(g).pin = NoSlot
  OBVIOUS
<1>3. set_all_curations_included(d, r, gs, i) = [d EXCEPT !.curations = rows]
  BY DEF set_all_curations_included
<1> HIDE DEF changed, new, existing
<1>4. \A x, y \in rows : x.group = y.group /\ x.round = y.round => x = y
  BY <1>1, <1>2
<1>5. \A x \in rows : /\ x.group \in d.groups /\ x.round \in Ids(d.rounds)
                     /\ x.pin \in Ids(d.slots) \cup {NoSlot}
  BY <1>1, <1>2
<1> HIDE DEF rows
<1> QED BY <1>3, <1>4, <1>5 DEF DB, Database

LEMMA SetModeConsistent ==
    ASSUME NEW d \in DB, Consistent(d), NEW r, NEW m
    PROVE  Consistent(set_round_mode(d, r, m))
<1> DEFINE changed(x) == IF x.id = r THEN [x EXCEPT !.mode = m] ELSE x
<1>1. \A x \in d.rounds : changed(x).id = x.id
  BY DEF DB, Database
<1>2. set_round_mode(d, r, m) = [d EXCEPT !.rounds = {changed(x) : x \in d.rounds}]
  BY DEF set_round_mode
<1> HIDE DEF changed
<1> QED BY <1>1, <1>2 DEF DB, Database

LEMMA SetQuorumConsistent ==
    ASSUME NEW d \in DB, Consistent(d), NEW r, NEW q
    PROVE  Consistent(set_round_quorum(d, r, q))
<1> DEFINE changed(x) == IF x.id = r THEN [x EXCEPT !.quorum = q] ELSE x
<1>1. \A x \in d.rounds : changed(x).id = x.id
  BY DEF DB, Database
<1>2. set_round_quorum(d, r, q) = [d EXCEPT !.rounds = {changed(x) : x \in d.rounds}]
  BY DEF set_round_quorum
<1> HIDE DEF changed
<1> QED BY <1>1, <1>2 DEF DB, Database

LEMMA CreatePresentationConsistent ==
    ASSUME NEW d \in DB, Consistent(d), NEW g, NEW s, NEW r, CanCreatePresentation(d, g, s, r)
    PROVE  Consistent(create_presentation(d, g, s, r))
  BY DEF create_presentation, CanCreatePresentation, PresKey, DB, Database

LEMMA DeletePresentationsConsistent ==
    ASSUME NEW d \in DB, Consistent(d), NEW keys
    PROVE  Consistent(delete_presentations(d, keys))
  BY DEF delete_presentations, DB, Database

LEMMA UpdateStatusConsistent ==
    ASSUME NEW d \in DB, Consistent(d), NEW g, NEW s, NEW status
    PROVE  Consistent(update_presentation_status(d, g, s, status))
  BY DEF update_presentation_status, DB, Database

LEMMA UpsertAttendanceConsistent ==
    ASSUME NEW d \in DB, Consistent(d), NEW u \in {s.user_id : s \in d.students},
           NEW s \in Ids(d.slots), NEW g \in d.groups, NEW r \in Ids(d.rounds), NEW status
    PROVE  Consistent(upsert_member_attendance(d, u, s, g, r, status))
  BY DEF upsert_member_attendance, DB, Database

LEMMA UpsertAvailabilityConsistent ==
    ASSUME NEW d \in DB, Consistent(d), NEW u \in {s.user_id : s \in d.students},
           NEW s \in Ids(d.slots), NEW yes
    PROVE  Consistent(upsert_availability(d, u, s, yes))
  BY DEF upsert_availability, DB, Database

\* What a purge deletes is what it has found to be unreferenced.
LEMMA DeleteRoundConsistent ==
    ASSUME NEW d \in DB, Consistent(d), NEW r, NEW slot_ids, ~PurgeRefused(d, r, slot_ids)
    PROVE  Consistent(delete_round(d, r, slot_ids))
  BY DEF delete_round, PurgeRefused, get_slots_for_round, DB, Database

-----------------------------------------------------------------------------
(* The requests of the dashboard.                                          *)

\* A handler of the dashboard leaves a database and the presentations alone.
LEMMA EditType ==
    ASSUME db \in DB, AdminRequest
    PROVE  db' \in DB /\ db'.pres = db.pres
<1>1. CASE CreateNewRound
  <2>1. db' \in DB
    BY <1>1, CreateRoundType DEF CreateNewRound
  <2> QED BY <1>1, <2>1 DEF CreateNewRound, create_round, DB, Database
<1>2. ASSUME NEW s \in db.slots, DeleteSlot(s) PROVE db' \in DB /\ db'.pres = db.pres
  <2>1. db' \in DB
    BY <1>2, RemoveSlotType DEF DeleteSlot
  <2> QED BY <1>2, <2>1 DEF DeleteSlot, remove_slot, DB, Database
<1>3. ASSUME NEW r \in RoundIds, NEW c \in Capacities, AddSlot(r, c)
      PROVE  db' \in DB /\ db'.pres = db.pres
  <2>1. db' \in DB
    BY <1>3, CreateSlotType DEF AddSlot
  <2> QED BY <1>3, <2>1 DEF AddSlot, create_slot, DB, Database
<1>4. ASSUME NEW r \in RoundIds, NEW g \in GroupIds, NEW inc \in BOOLEAN, NEW ovr \in BOOLEAN,
             NEW pin \in SlotIds \cup {NoSlot}, CurateGroup(g, r, inc, pin, ovr)
      PROVE  db' \in DB /\ db'.pres = db.pres
  <2>1. db' \in DB
    BY <1>4, UpsertCurationType DEF CurateGroup
  <2> QED BY <1>4, <2>1 DEF CurateGroup, upsert_curation, DB, Database
<1>5. ASSUME NEW r \in RoundIds, NEW gs \in SUBSET GroupIds, NEW inc \in BOOLEAN,
             db' = set_all_curations_included(db, r, gs, inc)
      PROVE  db' \in DB /\ db'.pres = db.pres
  <2>1. db' \in DB
    BY <1>5, SetAllCurationsType
  <2> QED BY <1>5, <2>1 DEF set_all_curations_included, DB, Database
<1>6. ASSUME NEW r \in RoundIds, NEW m \in Modes, SetMode(r, m)
      PROVE  db' \in DB /\ db'.pres = db.pres
  <2>1. db' \in DB
    BY <1>6, SetModeType DEF SetMode
  <2> QED BY <1>6, <2>1 DEF SetMode, set_round_mode, DB, Database
<1>7. ASSUME NEW r \in RoundIds, NEW q \in Quorums, SetQuorum(r, q)
      PROVE  db' \in DB /\ db'.pres = db.pres
  <2>1. db' \in DB
    BY <1>7, SetQuorumType DEF SetQuorum
  <2> QED BY <1>7, <2>1 DEF SetQuorum, set_round_quorum, DB, Database
<1>8. db.groups \in SUBSET GroupIds
  BY DEF DB, Database
<1>9. ASSUME NEW r \in RoundIds, NEW inc \in BOOLEAN, CurateAll(r, inc)
      PROVE  db' \in DB /\ db'.pres = db.pres
  BY <1>5, <1>8, <1>9 DEF CurateAll
<1>10. ASSUME NEW r \in RoundIds, NEW gs \in SUBSET GroupIds, NEW inc \in BOOLEAN,
              CurateSelected(r, gs, inc)
       PROVE  db' \in DB /\ db'.pres = db.pres
  BY <1>5, <1>10 DEF CurateSelected
<1> QED BY <1>1, <1>2, <1>3, <1>4, <1>6, <1>7, <1>9, <1>10 DEF AdminRequest

\* Nor does it touch what others have entered.
LEMMA EditKeeps ==
    ASSUME db \in DB, AdminRequest
    PROVE  /\ db'.students = db.students /\ db'.groups = db.groups
           /\ db'.avail = db.avail /\ db'.att = db.att
<1> DEFINE Kept == /\ db'.students = db.students /\ db'.groups = db.groups
                   /\ db'.avail = db.avail /\ db'.att = db.att
<1>1. CASE CreateNewRound
  BY <1>1 DEF CreateNewRound, create_round, DB, Database
<1>2. ASSUME NEW s \in db.slots, DeleteSlot(s) PROVE Kept
  BY <1>2 DEF DeleteSlot, remove_slot, DB, Database
<1>3. ASSUME NEW r, NEW c, AddSlot(r, c) PROVE Kept
  BY <1>3 DEF AddSlot, create_slot, DB, Database
<1>4. ASSUME NEW r, NEW g, NEW inc, NEW ovr, NEW pin, CurateGroup(g, r, inc, pin, ovr)
      PROVE  Kept
  BY <1>4 DEF CurateGroup, upsert_curation, DB, Database
<1>5. ASSUME NEW r, NEW gs, NEW inc, db' = set_all_curations_included(db, r, gs, inc)
      PROVE  Kept
  BY <1>5 DEF set_all_curations_included, DB, Database
<1>6. ASSUME NEW r, NEW m, SetMode(r, m) PROVE Kept
  BY <1>6 DEF SetMode, set_round_mode, DB, Database
<1>7. ASSUME NEW r, NEW q, SetQuorum(r, q) PROVE Kept
  BY <1>7 DEF SetQuorum, set_round_quorum, DB, Database
<1>8. ASSUME NEW r, NEW inc, CurateAll(r, inc) PROVE Kept
  BY <1>5, <1>8 DEF CurateAll
<1>9. ASSUME NEW r, NEW gs, NEW inc, CurateSelected(r, gs, inc) PROVE Kept
  BY <1>5, <1>9 DEF CurateSelected
<1> QED BY <1>1, <1>2, <1>3, <1>4, <1>6, <1>7, <1>8, <1>9 DEF AdminRequest

\* Rounds are only added, and a slot goes only when no row names it.
LEMMA EditSlots ==
    ASSUME db \in DB, AdminRequest
    PROVE  /\ Ids(db.rounds) \subseteq Ids(db'.rounds)
           /\ \A s \in db.slots : s \in db'.slots \/ ~SlotReferenced(db, s.id)
<1> DEFINE Kept == /\ Ids(db.rounds) \subseteq Ids(db'.rounds)
                   /\ \A s \in db.slots : s \in db'.slots \/ ~SlotReferenced(db, s.id)
<1>1. CASE CreateNewRound
  BY <1>1 DEF CreateNewRound, create_round, DB, Database
<1>2. ASSUME NEW s \in db.slots, DeleteSlot(s) PROVE Kept
  BY <1>2 DEF DeleteSlot, remove_slot, DB, Database
<1>3. ASSUME NEW r, NEW c, AddSlot(r, c) PROVE Kept
  BY <1>3 DEF AddSlot, create_slot, DB, Database
<1>4. ASSUME NEW r, NEW g, NEW inc, NEW ovr, NEW pin, CurateGroup(g, r, inc, pin, ovr)
      PROVE  Kept
  BY <1>4 DEF CurateGroup, upsert_curation, DB, Database
<1>5. ASSUME NEW r, NEW gs, NEW inc, db' = set_all_curations_included(db, r, gs, inc)
      PROVE  Kept
  BY <1>5 DEF set_all_curations_included, DB, Database
<1>6. ASSUME NEW r, NEW m, SetMode(r, m) PROVE Kept
  <2>1. db'.slots = db.slots
    BY <1>6 DEF SetMode, set_round_mode, DB, Database
  <2>2. \A x \in db.rounds : \E y \in db'.rounds : y.id = x.id
    <3> DEFINE changed(x) == IF x.id = r THEN [x EXCEPT !.mode = m] ELSE x
    <3>1. \A x \in db.rounds : changed(x).id = x.id
      BY DEF DB, Database
    <3>2. db'.rounds = {changed(x) : x \in db.rounds}
      BY <1>6 DEF SetMode, set_round_mode, DB, Database
    <3> HIDE DEF changed
    <3> QED BY <3>1, <3>2
  <2> QED BY <2>1, <2>2
<1>7. ASSUME NEW r, NEW q, SetQuorum(r, q) PROVE Kept
  <2>1. db'.slots = db.slots
    BY <1>7 DEF SetQuorum, set_round_quorum, DB, Database
  <2>2. \A x \in db.rounds : \E y \in db'.rounds : y.id = x.id
    <3> DEFINE changed(x) == IF x.id = r THEN [x EXCEPT !.quorum = q] ELSE x
    <3>1. \A x \in db.rounds : changed(x).id = x.id
      BY DEF DB, Database
    <3>2. db'.rounds = {changed(x) : x \in db.rounds}
      BY <1>7 DEF SetQuorum, set_round_quorum, DB, Database
    <3> HIDE DEF changed
    <3> QED BY <3>1, <3>2
  <2> QED BY <2>1, <2>2
<1>8. ASSUME NEW r, NEW inc, CurateAll(r, inc) PROVE Kept
  BY <1>5, <1>8 DEF CurateAll
<1>9. ASSUME NEW r, NEW gs, NEW inc, CurateSelected(r, gs, inc) PROVE Kept
  BY <1>5, <1>9 DEF CurateSelected
<1> QED BY <1>1, <1>2, <1>3, <1>4, <1>6, <1>7, <1>8, <1>9 DEF AdminRequest

\* The guards of the handlers are enough to keep the constraints.
LEMMA EditConsistent ==
    ASSUME db \in DB, Consistent(db), AdminRequest PROVE Consistent(db')
<1> HIDE DEF Consistent
<1>1. CASE CreateNewRound
  BY <1>1, CreateRoundConsistent DEF CreateNewRound
<1>2. ASSUME NEW s \in db.slots, DeleteSlot(s) PROVE Consistent(db')
  BY <1>2, RemoveSlotConsistent DEF DeleteSlot
<1>3. ASSUME NEW r, NEW c, AddSlot(r, c) PROVE Consistent(db')
  BY <1>3, CreateSlotConsistent DEF AddSlot
<1>4. ASSUME NEW r, NEW g, NEW inc, NEW ovr, NEW pin, CurateGroup(g, r, inc, pin, ovr)
      PROVE  Consistent(db')
  BY <1>4, UpsertCurationConsistent DEF CurateGroup
<1>5. ASSUME NEW r, NEW m, SetMode(r, m) PROVE Consistent(db')
  BY <1>5, SetModeConsistent DEF SetMode
<1>6. ASSUME NEW r, NEW q, SetQuorum(r, q) PROVE Consistent(db')
  BY <1>6, SetQuorumConsistent DEF SetQuorum
<1>7. ASSUME NEW r, NEW inc, CurateAll(r, inc) PROVE Consistent(db')
  BY <1>7, SetAllCurationsConsistent DEF CurateAll
<1>8. ASSUME NEW r, NEW gs, NEW inc, CurateSelected(r, gs, inc) PROVE Consistent(db')
  BY <1>8, SetAllCurationsConsistent DEF CurateSelected
<1> QED BY <1>1, <1>2, <1>3, <1>4, <1>5, <1>6, <1>7, <1>8 DEF AdminRequest

HIDE DEF Modes, Quorums, Consistent, KeysUnique, ForeignKeys, Ids
=============================================================================
