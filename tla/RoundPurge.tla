----------------------------- MODULE RoundPurge -----------------------------
(***************************************************************************)
(* `planer purge` (cli.py, delete_round of adapters/db.py): a process of   *)
(* the CLI that deletes a round and what belongs to it, while the web      *)
(* process goes on: students submit and admins edit between its reads and  *)
(* its one transaction, and links and pages for the round live on, also    *)
(* when the next round created gets the id again.                          *)
(*                                                                         *)
(* `purge` has pc; round; slot_ids, the slots it has read.  The round's    *)
(* rows in email_log go with it; that table is a variable of Mailing.      *)
(***************************************************************************)
EXTENDS AvailabilityForm

VARIABLE purge

purgeVars == <<formVars, purge>>

NoPurge == [pc |-> "idle", round |-> 1, slot_ids |-> {}]

PurgeInit == FormInit /\ purge = NoPurge

\* Up to the list of slots, which no transaction protects yet.  A round that
\* does not exist is reported and nothing happens.
StartPurge(r) ==
    /\ purge.pc = "idle" /\ r \in db.rounds
    /\ purge' = [pc |-> "deleting", round |-> r.id,
                 slot_ids |-> Ids(get_slots_for_round(db, r.id))]
    /\ UNCHANGED formVars

\* The deletes and their commit.
Delete ==
    /\ purge.pc = "deleting"
    /\ ~PurgeRefused(db, purge.round, purge.slot_ids)
    /\ db' = delete_round(db, purge.round, purge.slot_ids)
    /\ purge' = NoPurge
    /\ answer' = [answer EXCEPT !.purged = answer.pc = "writing"]
    /\ UNCHANGED opened

\* IntegrityError: the transaction is rolled back.
Refuse ==
    /\ purge.pc = "deleting"
    /\ PurgeRefused(db, purge.round, purge.slot_ids)
    /\ purge' = [purge EXCEPT !.pc = "refused"]
    /\ UNCHANGED formVars

\* The command ends: with the error, killed, or on a locked database.
PurgeEnds ==
    /\ purge.pc # "idle"
    /\ purge' = NoPurge
    /\ UNCHANGED formVars

PurgeStep == Delete \/ Refuse \/ PurgeEnds

PurgeNext ==
    \/ FormNext /\ UNCHANGED purge
    \/ \E r \in db.rounds : StartPurge(r)
    \/ PurgeStep

PurgeSpec == PurgeInit /\ [][PurgeNext]_purgeVars

-----------------------------------------------------------------------------
(* Properties.                                                             *)

\* The shape of the command, beside that of the form.
PurgeTypeOK ==
    /\ FormTypeOK
    /\ purge \in [pc : {"idle", "deleting", "refused"}, round : RoundIds,
                  slot_ids : SUBSET SlotIds]

\* Whatever is submitted and edited between the reads of a purge and its
\* commit, and from however old a page or link: no answer, pin or mark is left
\* without its slot, no slot without its round, no key is taken twice.
NothingDangles == Consistent(db)

\* Ids are given out again, and answers are stored by id; yet an answer never
\* comes to mean another slot: a slot somebody has answered to keeps its row as
\* long as its round stays.  And an answer stays until the same student sends
\* another one, but for a purge that has listed the slot.
AnsweredSlotsStay ==
    [][\A a \in db.avail :
          /\ \A s \in db.slots :
                s.id = a.slot => s \in db'.slots \/ s.round \notin Ids(db'.rounds)
          /\ \/ a \in db'.avail
             \/ answer.student = a.student /\ a.slot \in answer.todo
             \/ a.slot \in purge.slot_ids]_purgeVars

-----------------------------------------------------------------------------
(* What the documentation says and the code does not do.                   *)

\* "Delete a planning round and everything scoped to it (data minimization)"
\* (db.py:565), "Runde restlos löschen (Semesterende)" (README.md:106): a purge
\* of a round nobody else refers to is not refused.
PurgeDeletesAll ==
    purge.pc = "refused" =>
        \/ \E c \in db.curations : c.round # purge.round /\ c.pin \in purge.slot_ids
        \/ \E p \in db.pres : p.round # purge.round /\ p.slot \in purge.slot_ids
=============================================================================
