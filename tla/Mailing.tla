------------------------------- MODULE Mailing -------------------------------
(***************************************************************************)
(* The `send` and `remind` commands (src/planer/mailing.py): each is a     *)
(* process of the CLI that reads its recipients, and then, one recipient   *)
(* after the other, asks the log, hands the mail to the SMTP server and    *)
(* logs the outcome.  Solves and edits change the tables meanwhile; the    *)
(* server can lose a mail, and can report a failure for a mail it has      *)
(* taken; the command can be killed between the mail and its log row.      *)
(*                                                                         *)
(* `mailer` has for each process: pc; kind, round and force, its           *)
(* arguments; excluded and responded, what it has read; rows, the          *)
(* presentations not visited yet, and expired, those of them whose loaded  *)
(* row a commit has expired; known, the slots it found; slot, the slot its *)
(* mails name; todo, the recipients to visit; at, the one it is at; ok,    *)
(* how the sending went.  `log` is the table email_log and `inbox` what    *)
(* has reached each student, in order.  `calm` is a history variable: no   *)
(* command was killed or ran beside another, with --force or for a round   *)
(* that is not there, no round was purged, the server has told the truth.  *)
(***************************************************************************)
EXTENDS SolveRound

CONSTANT Mailers    \* processes that send mail

VARIABLES mailer, log, inbox, calm

mailVars == <<solveVars, mailer, log, inbox, calm>>

AVAILABILITY == "availability_request"
REMINDER     == "reminder"
ASSIGNMENT   == "slot_assignment"
Kinds        == {AVAILABILITY, REMINDER, ASSIGNMENT}

NoRun == [pc |-> "idle", kind |-> "none", round |-> 1, force |-> FALSE,
          excluded |-> {}, responded |-> {}, rows |-> {}, expired |-> {}, known |-> {},
          slot |-> NoSlot, todo |-> {}, at |-> "nobody", ok |-> FALSE]

MailInit ==
    /\ SolveInit
    /\ mailer = [p \in Mailers |-> NoRun]
    /\ log = {}
    /\ inbox = [u \in UserIds |-> << >>]
    /\ calm = TRUE

-----------------------------------------------------------------------------

Runs(p, pc) == mailer[p].pc = pc
Turns(p, m) == mailer' = [mailer EXCEPT ![p] = m] /\ UNCHANGED solveVars

\* A command without --force, for a round there is, with no other running.
Undisturbed(round, force) ==
    ~force /\ round \in Ids(db.rounds) /\ \A p \in Mailers : Runs(p, "idle")

\* Mutant: the kind is the word of the command line.
StartSend_mutant(p, kind, round, force) ==
    /\ Runs(p, "idle")
    /\ Turns(p, [NoRun EXCEPT !.pc = IF kind = ASSIGNMENT THEN "schedule" ELSE "excluded",
                  !.kind = IF kind = ASSIGNMENT THEN "assignment" ELSE "availability",
                  !.round = round, !.force = force])
    /\ calm' = (calm /\ Undisturbed(round, force))
    /\ UNCHANGED <<log, inbox>>

\* The number of the round is typed, it need not exist.
StartSend(p, kind, round, force) ==
    /\ Runs(p, "idle")
    /\ Turns(p, [NoRun EXCEPT !.pc = IF kind = ASSIGNMENT THEN "schedule" ELSE "excluded",
                              !.kind = kind, !.round = round, !.force = force])
    /\ calm' = (calm /\ Undisturbed(round, force))
    /\ UNCHANGED <<log, inbox>>

ReadExcluded(p) ==
    /\ Runs(p, "excluded")
    /\ Turns(p, [mailer[p] EXCEPT
          !.pc = IF mailer[p].kind = REMINDER THEN "responded" ELSE "students",
          !.excluded = {c.group : c \in {k \in get_curations_for_round(db, mailer[p].round) :
                                            ~k.included}}])
    /\ UNCHANGED <<log, inbox, calm>>

ReadResponded(p) ==
    /\ Runs(p, "responded")
    /\ Turns(p, [mailer[p] EXCEPT !.pc = "students",
          !.responded = {a.student : a \in get_availabilities_for_round(db, mailer[p].round)}])
    /\ UNCHANGED <<log, inbox, calm>>

\* The tests of the loop that look at nothing but what was read are made here.
ReadStudents(p) ==
    /\ Runs(p, "students")
    /\ Turns(p, [mailer[p] EXCEPT !.pc = "visit",
          !.todo = {s.user_id : s \in {t \in db.students :
                        /\ t.group \notin mailer[p].excluded
                        /\ student_is_due(t, Threshold)
                        /\ t.user_id \notin mailer[p].responded}}])
    /\ UNCHANGED <<log, inbox, calm>>

ReadSchedule(p) ==
    /\ Runs(p, "schedule")
    /\ Turns(p, [mailer[p] EXCEPT !.pc = "slots",
          !.rows = {PresKey(x) : x \in get_presentations_for_round(db, mailer[p].round)}])
    /\ UNCHANGED <<log, inbox, calm>>

\* The slots; then groups and students, which only an import writes.
ReadSlotTimes(p) ==
    /\ Runs(p, "slots")
    /\ Turns(p, [mailer[p] EXCEPT !.pc = "visit",
                                  !.known = Ids(get_slots_for_round(db, mailer[p].round))])
    /\ UNCHANGED <<log, inbox, calm>>

DueMembersOf(g) ==
    {s.user_id : s \in {t \in db.students : t.group = g /\ student_is_due(t, Threshold)}}

\* for pres in presentations: loading an expired row again fails, and ends the
\* command, when a solve has deleted it.
VisitRow(p, row) ==
    /\ Runs(p, "visit") /\ mailer[p].todo = {} /\ row \in mailer[p].rows
    /\ IF row \in mailer[p].expired /\ row \notin {PresKey(x) : x \in db.pres}
       THEN Turns(p, NoRun)
       ELSE Turns(p, [mailer[p] EXCEPT
               !.rows = @ \ {row}, !.todo = DueMembersOf(row.group),
               !.slot = IF row.slot \in mailer[p].known THEN row.slot ELSE NoSlot])
    /\ UNCHANGED <<log, inbox, calm>>

\* Mutant: a failed attempt counts, a successful one does not.
email_already_sent_mutant(student, kind, round) ==
    [student |-> student, kind |-> kind, round |-> round, ok |-> FALSE] \in log

email_already_sent(student, kind, round) ==
    [student |-> student, kind |-> kind, round |-> round, ok |-> TRUE] \in log

Visit(p, u) ==
    /\ Runs(p, "visit") /\ u \in mailer[p].todo
    /\ IF ~mailer[p].force /\ email_already_sent(u, mailer[p].kind, mailer[p].round)
       THEN Turns(p, [mailer[p] EXCEPT !.todo = @ \ {u}])
       ELSE Turns(p, [mailer[p] EXCEPT !.pc = "send", !.at = u])
    /\ UNCHANGED <<log, inbox, calm>>

\* Mutant: every attempt is taken for a success.
Deliver_mutant(p, arrives, ok) ==
    /\ Runs(p, "send")
    /\ Turns(p, [mailer[p] EXCEPT !.pc = "log", !.ok = TRUE])
    /\ inbox' = IF ~arrives THEN inbox
                ELSE [inbox EXCEPT ![mailer[p].at] = Append(@, [kind  |-> mailer[p].kind,
                          round |-> mailer[p].round, slot |-> mailer[p].slot])]
    /\ calm' = (calm /\ arrives = ok)
    /\ UNCHANGED log

\* sender.send: whether the mail arrives and the outcome the command sees; a
\* mail the server has accepted arrives.  The connection has no time-out: when
\* the server falls silent this step never comes, and the command waits until
\* somebody kills it.
Deliver(p, arrives, ok) ==
    /\ Runs(p, "send") /\ (ok => arrives)
    /\ Turns(p, [mailer[p] EXCEPT !.pc = "log", !.ok = ok])
    /\ inbox' = IF ~arrives THEN inbox
                ELSE [inbox EXCEPT ![mailer[p].at] = Append(@, [kind  |-> mailer[p].kind,
                          round |-> mailer[p].round, slot |-> mailer[p].slot])]
    /\ calm' = (calm /\ arrives = ok)
    /\ UNCHANGED log

\* Mutant: a failure ends the run.
LogMail_mutant(p) ==
    /\ Runs(p, "log")
    /\ log' = log \cup {[student |-> mailer[p].at, kind |-> mailer[p].kind,
                         round |-> mailer[p].round, ok |-> mailer[p].ok]}
    /\ Turns(p, IF mailer[p].ok
                THEN [mailer[p] EXCEPT !.pc = "visit", !.todo = @ \ {mailer[p].at},
                                       !.at = "nobody", !.expired = mailer[p].rows]
                ELSE NoRun)
    /\ UNCHANGED <<inbox, calm>>

\* log_email: the foreign key refuses the row of a round that does not exist,
\* which ends the command.
LogMail(p) ==
    /\ Runs(p, "log")
    /\ IF mailer[p].round \notin Ids(db.rounds)
       THEN Turns(p, NoRun) /\ UNCHANGED log
       ELSE /\ log' = log \cup {[student |-> mailer[p].at, kind |-> mailer[p].kind,
                                 round |-> mailer[p].round, ok |-> mailer[p].ok]}
            /\ Turns(p, [mailer[p] EXCEPT !.pc = "visit", !.todo = @ \ {mailer[p].at},
                                          !.at = "nobody", !.expired = mailer[p].rows])
    /\ UNCHANGED <<inbox, calm>>

Finish(p) ==
    /\ Runs(p, "visit") /\ mailer[p].todo = {} /\ mailer[p].rows = {}
    /\ Turns(p, NoRun)
    /\ UNCHANGED <<log, inbox, calm>>

MailCrash(p) ==
    /\ ~Runs(p, "idle")
    /\ Turns(p, NoRun)
    /\ calm' = FALSE
    /\ UNCHANGED <<log, inbox>>

\* Everything a run does by itself, but for the answer of the server.
Proceed(p) ==
    \/ ReadExcluded(p) \/ ReadResponded(p) \/ ReadStudents(p)
    \/ ReadSchedule(p) \/ ReadSlotTimes(p)
    \/ \E row \in mailer[p].rows : VisitRow(p, row)
    \/ \E u \in mailer[p].todo : Visit(p, u)
    \/ LogMail(p) \/ Finish(p)

\* delete_round deletes the round's mails from the log as well; RoundPurge has
\* the steps of the command.
PurgeRound(r) ==
    LET slot_ids == Ids(get_slots_for_round(db, r.id)) IN
    /\ r \in db.rounds /\ ~PurgeRefused(db, r.id, slot_ids)
    /\ db' = delete_round(db, r.id, slot_ids)
    /\ log' = {row \in log : row.round # r.id}
    /\ calm' = FALSE
    /\ UNCHANGED <<solver, mailer, inbox>>

Others == SolveNext /\ UNCHANGED <<mailer, log, inbox, calm>>

MailNext ==
    \/ Others
    \/ \E r \in db.rounds : PurgeRound(r)
    \/ \E p \in Mailers :
          \/ \E kind \in Kinds, r \in RoundIds, force \in BOOLEAN : StartSend(p, kind, r, force)
          \/ Proceed(p) \/ MailCrash(p)
          \/ \E arrives, ok \in BOOLEAN : Deliver(p, arrives, ok)

MailSpec == MailInit /\ [][MailNext]_mailVars

-----------------------------------------------------------------------------
(* Properties.                                                             *)

Mail == [kind : Kinds, round : RoundIds, slot : SlotIds \cup {NoSlot}]

\* The shape of the log, of what the processes keep and of what has arrived.
MailTypeOK ==
    /\ log \subseteq [student : UserIds, kind : Kinds, round : RoundIds, ok : BOOLEAN]
    /\ \A u \in UserIds : \A i \in DOMAIN inbox[u] : inbox[u][i] \in Mail
    /\ \A p \in Mailers :
          /\ mailer[p].todo \subseteq UserIds /\ mailer[p].rows \subseteq Keys
          /\ mailer[p].at \in UserIds \cup {"nobody"}

\* Where in the inbox of u the mails of this kind for this round are.
MailsOf(u, kind, round) ==
    {i \in DOMAIN inbox[u] : inbox[u][i].kind = kind /\ inbox[u][i].round = round}

\* The log is never ahead of the mail: a row without error is only there when
\* the mail has arrived, so a student the next run skips has been told, however
\* runs interleave, crash and are lied to; and no row outlives its round, so
\* that the next round with the same id starts with nobody mailed.
LoggedIsDelivered ==
    \A row \in log :
        /\ row.ok => MailsOf(row.student, row.kind, row.round) # {}
        /\ row.round \in Ids(db.rounds)

\* "kein Doppelversand dank EmailLog" (README.md:109): as long as all is calm
\* no student gets a mail twice, however often the command is repeated and
\* whatever solves and edits come between its steps.
NoDoubleSend ==
    calm => \A u \in UserIds, kind \in Kinds, r \in RoundIds :
                \A i, j \in MailsOf(u, kind, r) : i = j

\* u is still to be visited by the run of p.
Pending(p, u) ==
    \/ u \in mailer[p].todo
    \/ \E row \in mailer[p].rows : u \in DueMembersOf(row.group)

\* The run of p has tried u, or an earlier one has reached it.
Tried(p, u) ==
    \E ok \in BOOLEAN : [student |-> u, kind |-> mailer[p].kind,
                          round |-> mailer[p].round, ok |-> ok] \in log

\* A solve has deleted a presentation the run has read and not visited yet.
RowGone(p) == \E row \in mailer[p].rows : row \notin {PresKey(x) : x \in db.pres}

\* Each send the run of p waits for returns or raises some time.
ServerAnswers(p) == []<>~Runs(p, "send")

\* "one failure ... never blocks the other recipients" (mailing.py:9): as long
\* as the server says something, be it an error, whoever is to be visited by a
\* run is in the log when it goes on, as sent or as failed; but for a run whose
\* schedule is deleted under it, which may end early, and as long as all is calm.
EveryoneIsTried ==
    \A p \in Mailers : ServerAnswers(p) =>
        \A u \in UserIds :
            Pending(p, u) ~> Tried(p, u) \/ RowGone(p) \/ ~calm
=============================================================================
