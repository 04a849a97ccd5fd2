-------------------------- MODULE AvailabilityForm --------------------------
(***************************************************************************)
(* A student's link (src/planer/web/public.py): a page is rendered in the  *)
(* mode the round has at that moment, stays open while admins edit slots,  *)
(* pins and the mode, and its POST is read in the mode the round has then. *)
(* Each answer is a commit of its own, so a crash can cut a submission     *)
(* short; nothing else of the web process runs between the commits.        *)
(*                                                                         *)
(* `opened` are the pages students have open: [student, round, mode,       *)
(* slots], slots the ids on it, and preset, the radio button that is set   *)
(* on a confirm page.  `answer` is the submission being worked on: todo,   *)
(* the slots to write; yes, those of them to write as True.  Its other     *)
(* fields are history that only properties read: saying, what the student  *)
(* answered to what the page showed; fresh, whether the page still showed  *)
(* what a new one would; purged, whether a round was purged meanwhile.     *)
(***************************************************************************)
EXTENDS AdminWeb

VARIABLES opened, answer

formVars == <<db, opened, answer>>

NoAnswer == [pc |-> "idle", student |-> "none", round |-> 1, mode |-> "availability",
             todo |-> {}, yes |-> {}, saying |-> {}, fresh |-> FALSE, purged |-> FALSE]

FormInit == db \in Databases /\ opened = {} /\ answer = NoAnswer

-----------------------------------------------------------------------------

\* A link outlives its round.
ModeOf(round) ==
    IF round \in Ids(db.rounds) THEN (CHOOSE r \in db.rounds : r.id = round).mode
                                ELSE "availability"

\* Mutant: a curation without a pin is not left out.
confirm_slot_mutant(student, round) ==
    LET group == (CHOOSE s \in db.students : s.user_id = student).group
    IN  {c.pin : c \in {k \in get_curations_for_round(db, round) : k.group = group}}

\* The slot the student's group is fixed to, if any; a solo student's group is
\* its own.  The pin can be a slot of another round.
confirm_slot(student, round) ==
    LET group == (CHOOSE s \in db.students : s.user_id = student).group
    IN  {c.pin : c \in {k \in get_curations_for_round(db, round) : k.group = group}}
            \ {NoSlot}

\* The slots a page of this mode is about.
SlotsFor(mode, student, round) ==
    IF mode = "confirm" THEN confirm_slot(student, round)
                        ELSE Ids(get_slots_for_round(db, round))

\* Only the answers to slots of the round are looked up to preset the page.
Preset(student, round, slots) ==
    LET known == {a \in get_availabilities_for_round(db, round) :
                    a.student = student /\ a.slot \in slots}
    IN  IF known = {} THEN "none"
        ELSE IF (CHOOSE a \in known : TRUE).available THEN "yes" ELSE "no"

OpenForm(s, r) ==
    LET slots == SlotsFor(r.mode, s.user_id, r.id)
    IN  /\ answer.pc = "idle"
        /\ s \in db.students /\ r \in db.rounds
        /\ opened' = opened \cup
              {[student |-> s.user_id, round |-> r.id, mode |-> r.mode, slots |-> slots,
                preset |-> IF r.mode = "confirm" THEN Preset(s.user_id, r.id, slots)
                                                 ELSE "none"]}
        /\ UNCHANGED <<db, answer>>

\* What the browser can send: any boxes of an availability page; of a confirm
\* page one radio button, or none if none was set before.
Inputs(page) ==
    IF page.mode = "availability"
    THEN [checked : SUBSET page.slots, confirm : {"none"}]
    ELSE [checked : {{}}, confirm : {"yes", "no", page.preset}]

\* What the student says with it.
Saying(page, input) ==
    IF page.mode = "availability"
    THEN {[slot |-> s, yes |-> s \in input.checked] : s \in page.slots}
    ELSE {[slot |-> s, yes |-> input.confirm = "yes"] :
            s \in {t \in page.slots : input.confirm # "none"}}

\* The POST, up to its first write: the mode and the slots are read again, and
\* the form is read in that mode.  A page without slots has no submit button.
SubmitAvailability(page, input) ==
    LET mode  == ModeOf(page.round)
        slots == SlotsFor(mode, page.student, page.round)
    IN  /\ answer.pc = "idle" /\ page.slots # {}
        /\ answer' = [pc |-> "writing", student |-> page.student, round |-> page.round,
                      mode |-> mode, todo |-> slots,
                      yes |-> IF mode = "availability" THEN slots \cap input.checked
                              ELSE IF input.confirm = "yes" THEN slots ELSE {},
                      saying |-> Saying(page, input),
                      fresh |-> page.mode = mode /\ page.slots = slots,
                      purged |-> FALSE]
        /\ UNCHANGED <<db, opened>>

\* The foreign key refuses the answer to a slot that is gone, which ends the
\* request; a command can delete it between two commits.
Record(s) ==
    /\ answer.pc = "writing" /\ s \in answer.todo
    /\ IF s \in Ids(db.slots)
       THEN /\ db' = upsert_availability(db, answer.student, s, s \in answer.yes)
            /\ answer' = [answer EXCEPT !.todo = @ \ {s}]
       ELSE answer' = NoAnswer /\ UNCHANGED db
    /\ UNCHANGED opened

Thank ==
    /\ answer.pc = "writing" /\ answer.todo = {}
    /\ answer' = NoAnswer
    /\ UNCHANGED <<db, opened>>

\* The process is killed or a statement fails.
FormCrash ==
    /\ answer.pc = "writing"
    /\ answer' = NoAnswer
    /\ UNCHANGED <<db, opened>>

FormEdit == answer.pc = "idle" /\ AdminRequest /\ UNCHANGED <<opened, answer>>

FormNext ==
    \/ \E s \in db.students, r \in db.rounds : OpenForm(s, r)
    \/ \E page \in opened : \E input \in Inputs(page) : SubmitAvailability(page, input)
    \/ \E s \in answer.todo : Record(s)
    \/ Thank \/ FormCrash \/ FormEdit

FormSpec == FormInit /\ [][FormNext]_formVars

-----------------------------------------------------------------------------
(* Properties.                                                             *)

SlotAnswers == [slot : SlotIds, yes : BOOLEAN]

\* The shape of the tables, the pages and the submission in progress.
FormTypeOK ==
    /\ db \in DB
    /\ opened \subseteq [student : UserIds, round : RoundIds, mode : Modes,
                         slots : SUBSET SlotIds, preset : {"yes", "no", "none"}]
    /\ answer \in [pc : {"idle", "writing"}, student : UserIds \cup {"none"},
                   round : RoundIds, mode : Modes, todo : SUBSET SlotIds,
                   yes : SUBSET SlotIds, saying : SUBSET SlotAnswers, fresh : BOOLEAN,
                   purged : BOOLEAN]

Written == answer.pc = "writing" /\ answer.todo = {}

StoredAs(student, slot, yes) ==
    [student |-> student, slot |-> slot, available |-> yes] \in db.avail

\* When a submission has been written, what the student said is what is stored,
\* provided the page still showed what a new one would: an earlier answer, an
\* earlier crash and the mode it was given in leave no trace.  In availability
\* mode no slot of the round is left open either, shown or not.  A purge
\* meanwhile may have deleted the answers again.
SubmissionStored ==
    Written /\ ~answer.purged =>
        /\ answer.fresh => \A x \in answer.saying : StoredAs(answer.student, x.slot, x.yes)
        /\ answer.mode = "availability" =>
              \A s \in get_slots_for_round(db, answer.round) :
                  \E yes \in BOOLEAN : StoredAs(answer.student, s.id, yes)

=============================================================================
