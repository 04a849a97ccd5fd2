------------------------- MODULE RoundPurge_proofs -------------------------
(***************************************************************************)
(* Theorems about AvailabilityForm and RoundPurge, for every set of        *)
(* students, groups, rounds, slots and databases: the submissions of the   *)
(* students, the edits of the admins and the purges of the CLI interleave  *)
(* in every way.                                                           *)
(***************************************************************************)
EXTENDS RoundPurge, Repository_proofs

-----------------------------------------------------------------------------
(* Type correctness.                                                       *)

PageSet == [student : UserIds, round : RoundIds, mode : Modes,
            slots : SUBSET SlotIds, preset : {"yes", "no", "none"}]

AnswerSet == [pc : {"idle", "writing"}, student : UserIds \cup {"none"},
              round : RoundIds, mode : Modes, todo : SUBSET SlotIds,
              yes : SUBSET SlotIds, saying : SUBSET SlotAnswers, fresh : BOOLEAN,
              purged : BOOLEAN]

PurgeSet == [pc : {"idle", "deleting", "refused"}, round : RoundIds,
             slot_ids : SUBSET SlotIds]

LEMMA PurgeTypes ==
    PurgeTypeOK <=> /\ db \in DB /\ opened \subseteq PageSet /\ answer \in AnswerSet
                    /\ purge \in PurgeSet
  BY DEF PurgeTypeOK, FormTypeOK, PageSet, AnswerSet, PurgeSet

LEMMA NoAnswerOK == NoAnswer \in AnswerSet
  BY IdsAssumption DEF NoAnswer, AnswerSet, Modes, RoundIds

LEMMA SlotsForType ==
    ASSUME db \in DB, NEW m, NEW u, NEW r PROVE SlotsFor(m, u, r) \in SUBSET SlotIds
<1>1. confirm_slot(u, r) \in SUBSET SlotIds
  BY DEF confirm_slot, get_curations_for_round, DB, Database
<1>2. Ids(get_slots_for_round(db, r)) \in SUBSET SlotIds
  BY DEF Ids, get_slots_for_round, DB, Database
<1> QED BY <1>1, <1>2 DEF SlotsFor

LEMMA ModeOfType ==
    ASSUME db \in DB, NEW r PROVE ModeOf(r) \in Modes
<1>1. CASE r \in Ids(db.rounds)
  <2>1. (CHOOSE x \in db.rounds : x.id = r) \in db.rounds
    BY <1>1 DEF Ids
  <2> QED BY <1>1, <2>1 DEF ModeOf, DB, Database
<1>2. CASE r \notin Ids(db.rounds)
  BY <1>2 DEF ModeOf, Modes
<1> QED BY <1>1, <1>2

\* What the browser sends names slots of the page.
LEMMA InputSlots ==
    ASSUME NEW page \in PageSet, NEW input \in Inputs(page)
    PROVE  /\ input.checked \in SUBSET page.slots
           /\ page.mode = "confirm" => input.checked = {}
  BY DEF Inputs, PageSet

LEMMA SayingType ==
    ASSUME NEW page \in PageSet, NEW input PROVE Saying(page, input) \subseteq SlotAnswers
<1>1. \A s : (s \in input.checked) \in BOOLEAN
  BY SMT
<1>2. \A s \in page.slots, yes \in BOOLEAN : [slot |-> s, yes |-> yes] \in SlotAnswers
  BY DEF PageSet, SlotAnswers
<1>3. \A s \in page.slots : [slot |-> s, yes |-> s \in input.checked] \in SlotAnswers
  BY <1>1, <1>2, Zenon
<1>4. \A s \in page.slots : [slot |-> s, yes |-> input.confirm = "yes"] \in SlotAnswers
  BY <1>2, Zenon
<1> QED BY <1>3, <1>4, Zenon DEF Saying

LEMMA OpenFormType ==
    ASSUME PurgeTypeOK, NEW s, NEW r, OpenForm(s, r)
    PROVE  opened' \subseteq PageSet /\ UNCHANGED <<db, answer>>
<1> DEFINE slots  == SlotsFor(r.mode, s.user_id, r.id)
           preset == IF r.mode = "confirm" THEN Preset(s.user_id, r.id, slots) ELSE "none"
           page   == [student |-> s.user_id, round |-> r.id, mode |-> r.mode, slots |-> slots,
                      preset |-> preset]
<1>0. db \in DB /\ s \in db.students /\ r \in db.rounds
  BY PurgeTypes DEF OpenForm
<1>1. slots \in SUBSET SlotIds
  BY <1>0, SlotsForType
<1>2. preset \in {"yes", "no", "none"}
  BY DEF Preset
<1>3. s.user_id \in UserIds /\ r.id \in RoundIds /\ r.mode \in Modes
  BY <1>0 DEF DB, Database
<1> HIDE DEF slots, preset
<1>4. page \in PageSet
  BY <1>1, <1>2, <1>3 DEF PageSet
<1> QED BY <1>4, PurgeTypes DEF OpenForm, slots, preset

LEMMA SubmitType ==
    ASSUME PurgeTypeOK, NEW page \in opened, NEW input \in Inputs(page),
           SubmitAvailability(page, input)
    PROVE  answer' \in AnswerSet
<1> DEFINE mode  == ModeOf(page.round)
           slots == SlotsFor(mode, page.student, page.round)
           yes   == IF mode = "availability" THEN slots \cap input.checked
                    ELSE IF input.confirm = "yes" THEN slots ELSE {}
           fresh == page.mode = mode /\ page.slots = slots
<1>0. db \in DB /\ page \in PageSet
  BY PurgeTypes
<1>1. mode \in Modes /\ slots \in SUBSET SlotIds
  BY <1>0, ModeOfType, SlotsForType
<1>2. yes \in SUBSET SlotIds
  BY <1>1
<1>3. fresh \in BOOLEAN
  OBVIOUS
<1>4. Saying(page, input) \in SUBSET SlotAnswers
  BY <1>0, SayingType
<1>5. answer' = [pc |-> "writing", student |-> page.student, round |-> page.round,
                 mode |-> mode, todo |-> slots, yes |-> yes,
                 saying |-> Saying(page, input), fresh |-> fresh, purged |-> FALSE]
  BY DEF SubmitAvailability
<1> HIDE DEF mode, slots, yes, fresh
<1> QED BY <1>0, <1>1, <1>2, <1>3, <1>4, <1>5 DEF AnswerSet, PageSet

\* The students whose forms are about; they are never deleted.
Known == {s.user_id : s \in db.students}

\* Whoever has a page or sends one is a student.
KnownSenders ==
    /\ \A page \in opened : page.student \in Known
    /\ answer.pc = "writing" => answer.student \in Known

FormInv == PurgeTypeOK /\ KnownSenders

LEMMA RecordType ==
    ASSUME FormInv, NEW s, Record(s)
    PROVE  db' \in DB /\ answer' \in AnswerSet /\ db'.students = db.students
<1>0. db \in DB /\ answer \in AnswerSet /\ s \in answer.todo /\ answer.student \in Known
  BY PurgeTypes DEF FormInv, KnownSenders, Record
<1>1. CASE s \in Ids(db.slots)
  <2>1. answer.student \in UserIds /\ s \in SlotIds
    BY <1>0 DEF Known, DB, Database, AnswerSet
  <2>2. (s \in answer.yes) \in BOOLEAN
    BY SMT
  <2>3. upsert_availability(db, answer.student, s, s \in answer.yes) \in DB
    BY <1>0, <2>1, <2>2, UpsertAvailabilityType
  <2>4. answer' \in AnswerSet
    BY <1>0, <1>1 DEF Record, AnswerSet
  <2> QED BY <1>0, <1>1, <2>3, <2>4 DEF Record, upsert_availability, DB, Database
<1>2. CASE s \notin Ids(db.slots)
  BY <1>0, <1>2, NoAnswerOK DEF Record
<1> QED BY <1>1, <1>2

LEMMA DeleteType ==
    ASSUME PurgeTypeOK, Delete
    PROVE  db' \in DB /\ answer' \in AnswerSet /\ db'.students = db.students
<1>1. db' \in DB /\ db'.students = db.students
  BY DeleteRoundType, PurgeTypes DEF Delete, delete_round, DB, Database
<1>2. answer' \in AnswerSet
  <2>1. (answer.pc = "writing") \in BOOLEAN
    OBVIOUS
  <2>2. \A b \in BOOLEAN : [answer EXCEPT !.purged = b] \in AnswerSet
    BY PurgeTypes DEF AnswerSet
  <2> QED BY <2>1, <2>2 DEF Delete
<1> QED BY <1>1, <1>2

LEMMA NoPurgeOK == NoPurge \in PurgeSet
  BY IdsAssumption DEF NoPurge, PurgeSet, RoundIds

\* A step that leaves students behind and touches no page.
LEMMA FormFrame ==
    ASSUME FormInv, db' \in DB, db'.students = db.students, opened' = opened,
           answer' \in AnswerSet, purge' \in PurgeSet,
           answer'.pc = "writing" => answer.pc = "writing" /\ answer'.student = answer.student
    PROVE  FormInv'
<1>1. Known' = Known
  BY DEF Known
<1>2. PurgeTypeOK'
  BY PurgeTypes DEF FormInv, PurgeTypeOK, FormTypeOK, AnswerSet, PurgeSet
<1> QED BY <1>1, <1>2 DEF FormInv, KnownSenders

LEMMA FormInvStep ==
    ASSUME FormInv, [PurgeNext]_purgeVars PROVE FormInv'
<1>0. /\ db \in DB /\ opened \subseteq PageSet /\ answer \in AnswerSet /\ purge \in PurgeSet
      /\ PurgeTypeOK
  BY PurgeTypes DEF FormInv
<1>1. CASE UNCHANGED purgeVars
  BY <1>0, <1>1, FormFrame DEF purgeVars, formVars
<1>2. ASSUME NEW s, NEW r, OpenForm(s, r), UNCHANGED purge PROVE FormInv'
  <2>1. opened' \subseteq PageSet /\ UNCHANGED <<db, answer>>
    BY <1>0, <1>2, OpenFormType
  <2>2. PurgeTypeOK'
    BY <1>0, <1>2, <2>1 DEF PurgeTypeOK, FormTypeOK, PageSet
  <2>3. \A page \in opened' : page.student \in Known
    BY <1>2 DEF OpenForm, FormInv, KnownSenders, Known
  <2> QED BY <2>1, <2>2, <2>3 DEF FormInv, KnownSenders, Known
<1>3. ASSUME NEW page \in opened, NEW input \in Inputs(page),
             SubmitAvailability(page, input), UNCHANGED purge
      PROVE  FormInv'
  <2>1. answer' \in AnswerSet /\ UNCHANGED <<db, opened>>
    BY <1>0, <1>3, SubmitType DEF SubmitAvailability
  <2>2. PurgeTypeOK'
    BY <1>0, <1>3, <2>1 DEF PurgeTypeOK, FormTypeOK, AnswerSet
  <2>3. answer'.student \in Known
    BY <1>3 DEF SubmitAvailability, FormInv, KnownSenders
  <2> QED BY <2>1, <2>2, <2>3 DEF FormInv, KnownSenders, Known
<1>4. ASSUME NEW s \in answer.todo, Record(s), UNCHANGED purge PROVE FormInv'
  <2>1. answer'.pc = "writing" => answer.pc = "writing" /\ answer'.student = answer.student
    BY <1>0, <1>4 DEF Record, AnswerSet, NoAnswer
  <2> QED BY <1>0, <1>4, <2>1, RecordType, FormFrame DEF Record
<1>5. CASE (Thank \/ FormCrash) /\ UNCHANGED purge
  <2>1. answer' = NoAnswer /\ answer'.pc # "writing"
    BY <1>5 DEF Thank, FormCrash, NoAnswer
  <2> QED BY <1>0, <1>5, <2>1, NoAnswerOK, FormFrame DEF Thank, FormCrash
<1>6. CASE FormEdit /\ UNCHANGED purge
  BY <1>0, <1>6, EditType, EditKeeps, FormFrame DEF FormEdit
<1>7. ASSUME NEW r \in db.rounds, StartPurge(r) PROVE FormInv'
  <2>1. r.id \in RoundIds /\ Ids(get_slots_for_round(db, r.id)) \in SUBSET SlotIds
    BY <1>0 DEF DB, Database, Ids, get_slots_for_round
  <2>2. purge' \in PurgeSet
    BY <1>7, <2>1 DEF StartPurge, PurgeSet
  <2> QED BY <1>0, <1>7, <2>2, FormFrame DEF StartPurge, formVars
<1>8. CASE Delete
  <2>1. answer'.pc = answer.pc /\ answer'.student = answer.student
    BY <1>0, <1>8 DEF Delete, AnswerSet
  <2> QED BY <1>0, <1>8, <2>1, DeleteType, NoPurgeOK, FormFrame DEF Delete
<1>9. CASE Refuse \/ PurgeEnds
  <2>1. purge' \in PurgeSet
    BY <1>0, <1>9, NoPurgeOK DEF Refuse, PurgeEnds, PurgeSet
  <2> QED BY <1>0, <1>9, <2>1, FormFrame DEF Refuse, PurgeEnds, formVars
<1> QED BY <1>1, <1>2, <1>3, <1>4, <1>5, <1>6, <1>7, <1>8, <1>9 DEF PurgeNext, PurgeStep, FormNext

LEMMA FormInvAlways == PurgeSpec => []FormInv
<1>1. PurgeInit => FormInv
  <2>1. PurgeInit => PurgeTypeOK
    BY NoAnswerOK, NoPurgeOK, PurgeTypes, IdsAssumption DEF PurgeInit, FormInit
  <2> QED BY <2>1 DEF PurgeInit, FormInit, FormInv, KnownSenders, NoAnswer
<1> QED BY <1>1, FormInvStep, PTL DEF PurgeSpec

\* The tables, the pages students have open, the submission and the command keep
\* their shape: whatever is answered is a row of the schema.
THEOREM PurgeTypeCorrect == PurgeSpec => []PurgeTypeOK
<1>1. FormInv => PurgeTypeOK
  BY DEF FormInv
<1> QED BY <1>1, FormInvAlways, PTL

-----------------------------------------------------------------------------
(* Keys and foreign keys.                                                  *)

LEMMA DanglesStep ==
    ASSUME FormInv, NothingDangles, [PurgeNext]_purgeVars PROVE NothingDangles'
<1>0. db \in DB /\ Consistent(db)
  BY PurgeTypes DEF FormInv, NothingDangles
<1>1. CASE FormEdit
  BY <1>0, <1>1, EditConsistent DEF FormEdit, NothingDangles
<1>2. ASSUME NEW s, Record(s), s \in Ids(db.slots) PROVE NothingDangles'
  <2>1. answer.student \in {x.user_id : x \in db.students}
    BY <1>2 DEF FormInv, KnownSenders, Known, Record
  <2> QED BY <1>0, <1>2, <2>1, UpsertAvailabilityConsistent DEF Record, NothingDangles
<1>3. CASE Delete
  BY <1>0, <1>3, DeleteRoundConsistent DEF Delete, NothingDangles
<1>4. CASE UNCHANGED db
  BY <1>0, <1>4 DEF NothingDangles
<1> QED BY <1>1, <1>2, <1>3, <1>4
        DEF PurgeNext, PurgeStep, FormNext, OpenForm, SubmitAvailability, Record, Thank,
            FormCrash, StartPurge, Refuse, PurgeEnds, purgeVars, formVars

\* Whatever is submitted and edited between the reads of a purge and its commit,
\* no row is left without the rows it names.
THEOREM PurgeLeavesNoOrphans == PurgeSpec => []NothingDangles
<1>1. PurgeInit => NothingDangles
  BY IdsAssumption DEF PurgeInit, FormInit, NothingDangles
<1> QED BY <1>1, DanglesStep, FormInvAlways, PTL DEF PurgeSpec

-----------------------------------------------------------------------------
(* An answer keeps its meaning.                                            *)

\* What AnsweredSlotsStay says of one step.
AnswerStays(a) ==
    /\ \A s \in db.slots :
          s.id = a.slot => s \in db'.slots \/ s.round \notin Ids(db'.rounds)
    /\ \/ a \in db'.avail
       \/ answer.student = a.student /\ a.slot \in answer.todo
       \/ a.slot \in purge.slot_ids

LEMMA StaysStep ==
    ASSUME FormInv, PurgeNext, NEW a \in db.avail PROVE AnswerStays(a)
<1>0. db \in DB
  BY PurgeTypes DEF FormInv
<1>1. CASE FormEdit
  BY <1>0, <1>1, EditKeeps, EditSlots DEF FormEdit, SlotReferenced, AnswerStays
<1>2. ASSUME NEW s, Record(s), s \in Ids(db.slots) PROVE AnswerStays(a)
  <2>1. /\ db'.slots = db.slots
        /\ \A x \in db.avail : x \in db'.avail \/ (x.student = answer.student /\ x.slot = s)
    BY <1>0, <1>2 DEF Record, upsert_availability, DB, Database
  <2> QED BY <1>2, <2>1 DEF AnswerStays, Record
<1>3. CASE Delete
  <2>1. /\ db'.slots = {x \in db.slots : x.round # purge.round}
        /\ db'.rounds = {x \in db.rounds : x.id # purge.round}
        /\ db'.avail = {x \in db.avail : x.slot \notin purge.slot_ids}
    BY <1>0, <1>3 DEF Delete, delete_round, DB, Database
  <2>2. purge.round \notin Ids(db'.rounds)
    BY <2>1 DEF Ids
  <2> QED BY <2>1, <2>2 DEF AnswerStays
<1>4. CASE UNCHANGED db
  BY <1>4 DEF AnswerStays
<1> QED BY <1>1, <1>2, <1>3, <1>4
        DEF PurgeNext, PurgeStep, FormNext, OpenForm, SubmitAvailability, Record, Thank,
            FormCrash, StartPurge, Refuse, PurgeEnds, formVars

\* An answer never comes to mean another slot, although ids are given out again,
\* and is lost to nothing but the same student and a purge that listed its slot.
THEOREM AnswersKeepTheirSlots == PurgeSpec => AnsweredSlotsStay
<1>1. FormInv /\ [PurgeNext]_purgeVars =>
         [\A a \in db.avail :
             /\ \A s \in db.slots :
                   s.id = a.slot => s \in db'.slots \/ s.round \notin Ids(db'.rounds)
             /\ \/ a \in db'.avail
                \/ answer.student = a.student /\ a.slot \in answer.todo
                \/ a.slot \in purge.slot_ids]_purgeVars
  BY StaysStep DEF AnswerStays
<1> QED BY <1>1, FormInvAlways, PTL DEF PurgeSpec, AnsweredSlotsStay

-----------------------------------------------------------------------------
(* What is said is stored.                                                 *)

\* What is said about a slot that is still to be written will be written, and
\* what is written is stored; no slot of the round is left out.
Storing ==
    answer.pc = "writing" /\ ~answer.purged =>
        /\ answer.fresh => \A x \in answer.saying :
              IF x.slot \in answer.todo THEN x.yes = (x.slot \in answer.yes)
                                        ELSE StoredAs(answer.student, x.slot, x.yes)
        /\ answer.mode = "availability" =>
              \A s \in get_slots_for_round(db, answer.round) :
                  \/ s.id \in answer.todo
                  \/ \E yes \in BOOLEAN : StoredAs(answer.student, s.id, yes)

LEMMA StoringMeans == ASSUME Storing PROVE SubmissionStored
  BY DEF Storing, SubmissionStored, Written

LEMMA SubmitStores ==
    ASSUME FormInv, NEW page \in opened, NEW input \in Inputs(page),
           SubmitAvailability(page, input)
    PROVE  Storing'
<1> DEFINE mode  == ModeOf(page.round)
           slots == SlotsFor(mode, page.student, page.round)
<1>0. page \in PageSet
  BY PurgeTypes DEF FormInv
<1>1. /\ answer'.round = page.round /\ answer'.mode = mode /\ answer'.todo = slots
      /\ answer'.yes = IF mode = "availability" THEN slots \cap input.checked
                       ELSE IF input.confirm = "yes" THEN slots ELSE {}
      /\ answer'.saying = Saying(page, input)
      /\ answer'.fresh = (page.mode = mode /\ page.slots = slots)
      /\ db' = db
  BY DEF SubmitAvailability
<1>2. ASSUME answer'.fresh, NEW x \in answer'.saying
      PROVE  x.slot \in slots /\ x.yes = (x.slot \in answer'.yes)
  <2>1. page.mode = mode /\ page.slots = slots
    BY <1>1, <1>2
  <2>2. CASE mode = "availability"
    <3>1. PICK s \in slots : x = [slot |-> s, yes |-> s \in input.checked]
      BY <1>1, <1>2, <2>1, <2>2 DEF Saying
    <3>2. answer'.yes = slots \cap input.checked
      BY <1>1, <2>2
    <3>3. x.slot = s /\ x.yes = (s \in input.checked)
      BY <3>1, Zenon
    <3>4. (s \in input.checked) = (s \in answer'.yes)
      BY <3>2
    <3> QED BY <3>3, <3>4
  <2>3. CASE mode # "availability"
    <3>1. PICK s \in slots : x = [slot |-> s, yes |-> input.confirm = "yes"]
      BY <1>1, <1>2, <2>1, <2>3 DEF Saying
    <3>2. answer'.yes = IF input.confirm = "yes" THEN slots ELSE {}
      BY <1>1, <2>3
    <3>3. x.slot = s /\ x.yes = (input.confirm = "yes")
      BY <3>1, Zenon
    <3>4. (input.confirm = "yes") = (s \in answer'.yes)
      BY <3>2
    <3> QED BY <3>3, <3>4
  <2> QED BY <2>2, <2>3
<1>3. mode = "availability" => \A s \in get_slots_for_round(db, page.round) : s.id \in slots
  BY DEF SlotsFor, Ids
<1> HIDE DEF mode, slots
<1> QED BY <1>1, <1>2, <1>3 DEF Storing, get_slots_for_round

LEMMA RecordStores ==
    ASSUME FormInv, Storing, NEW s, Record(s) PROVE Storing'
<1>0. db \in DB /\ answer \in AnswerSet /\ s \in answer.todo /\ answer.pc = "writing"
  BY PurgeTypes DEF FormInv, Record
<1>1. CASE s \in Ids(db.slots)
  <2> DEFINE row == [student |-> answer.student, slot |-> s, available |-> s \in answer.yes]
  <2>1. answer' = [answer EXCEPT !.todo = @ \ {s}]
    BY <1>1 DEF Record
  <2>2. /\ db'.slots = db.slots
        /\ db'.avail = {a \in db.avail : ~(a.student = answer.student /\ a.slot = s)} \cup {row}
    BY <1>0, <1>1 DEF Record, upsert_availability, DB, Database
  <2>3. /\ answer'.student = answer.student /\ answer'.round = answer.round
        /\ answer'.mode = answer.mode /\ answer'.todo = answer.todo \ {s}
        /\ answer'.yes = answer.yes /\ answer'.saying = answer.saying
        /\ answer'.fresh = answer.fresh /\ answer'.purged = answer.purged
    BY <1>0, <2>1 DEF AnswerSet
  <2>4. StoredAs(answer.student, s, s \in answer.yes)'
    BY <2>2, <2>3 DEF StoredAs
  <2>5. \A t, yes : t # s /\ StoredAs(answer.student, t, yes) => StoredAs(answer.student, t, yes)'
    BY <2>2, <2>3 DEF StoredAs
  <2>6. (s \in answer.yes) \in BOOLEAN
    BY SMT
  <2> HIDE DEF row
  <2>7. ASSUME answer.fresh, ~answer.purged, NEW x \in answer.saying
        PROVE  IF x.slot \in answer'.todo THEN x.yes = (x.slot \in answer.yes)
                                          ELSE StoredAs(answer.student, x.slot, x.yes)'
    <3>1. IF x.slot \in answer.todo THEN x.yes = (x.slot \in answer.yes)
                                    ELSE StoredAs(answer.student, x.slot, x.yes)
      BY <1>0, <2>7 DEF Storing
    <3>2. CASE x.slot = s
      <4>1. x.yes = (s \in answer.yes) /\ x.slot \notin answer'.todo
        BY <1>0, <2>3, <3>1, <3>2
      <4> QED BY <2>3, <2>4, <3>2, <4>1 DEF StoredAs
    <3>3. CASE x.slot # s
      BY <2>3, <2>5, <3>1, <3>3
    <3> QED BY <3>2, <3>3
  <2>8. ASSUME answer.mode = "availability", ~answer.purged,
               NEW t \in get_slots_for_round(db, answer.round)
        PROVE  t.id \in answer'.todo \/ \E yes \in BOOLEAN : StoredAs(answer.student, t.id, yes)'
    BY <1>0, <2>3, <2>4, <2>5, <2>6, <2>8 DEF Storing
  <2>9. get_slots_for_round(db', answer.round) = get_slots_for_round(db, answer.round)
    BY <2>2 DEF get_slots_for_round
  <2> QED BY <2>3, <2>7, <2>8, <2>9 DEF Storing
<1>2. CASE s \notin Ids(db.slots)
  BY <1>2 DEF Record, Storing, NoAnswer
<1> QED BY <1>1, <1>2

LEMMA StoringStep ==
    ASSUME FormInv, Storing, [PurgeNext]_purgeVars PROVE Storing'
<1>1. ASSUME NEW page \in opened, NEW input \in Inputs(page), SubmitAvailability(page, input)
      PROVE  Storing'
  BY <1>1, SubmitStores
<1>2. ASSUME NEW s, Record(s) PROVE Storing'
  BY <1>2, RecordStores
<1>3. CASE FormEdit \/ Thank \/ FormCrash
  BY <1>3 DEF FormEdit, Thank, FormCrash, Storing, NoAnswer
<1>4. CASE Delete
  <2>1. answer'.purged = (answer.pc = "writing") /\ answer'.pc = answer.pc
    BY <1>4, PurgeTypes DEF Delete, FormInv, AnswerSet
  <2> QED BY <2>1 DEF Storing
<1>5. CASE UNCHANGED <<db, answer>>
  BY <1>5 DEF Storing, StoredAs, get_slots_for_round
<1> QED BY <1>1, <1>2, <1>3, <1>4, <1>5
        DEF PurgeNext, PurgeStep, FormNext, OpenForm, StartPurge, Refuse, PurgeEnds,
            purgeVars, formVars

\* A submission from a page that still showed what a new one would has, once it
\* is written, stored what the student said to it; and one in availability mode,
\* from however old a page, has some answer to every slot of the round; unless a
\* round was purged meanwhile.
THEOREM AnswersAreStored == PurgeSpec => []SubmissionStored
<1>1. PurgeInit => Storing
  BY DEF PurgeInit, FormInit, Storing, NoAnswer
<1>2. Storing => SubmissionStored
  BY StoringMeans
<1> QED BY <1>1, <1>2, StoringStep, FormInvAlways, PTL DEF PurgeSpec
=============================================================================
