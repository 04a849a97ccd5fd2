---------------------------- MODULE Mailing_proofs ----------------------------
(***************************************************************************)
(* Theorems about Mailing, for every set of students, groups, rounds,      *)
(* slots, databases, and any number of processes that solve and that send. *)
(***************************************************************************)
EXTENDS Mailing, SolveRound_proofs

-----------------------------------------------------------------------------
(* Type correctness.                                                       *)

RunSet == [pc : {"idle", "excluded", "responded", "students", "schedule", "slots",
                 "visit", "send", "log"},
           kind : Kinds \cup {"none"}, round : RoundIds, force : BOOLEAN,
           excluded : SUBSET GroupIds, responded : SUBSET UserIds,
           rows : SUBSET Keys, expired : SUBSET Keys, known : SUBSET SlotIds,
           slot : SlotIds \cup {NoSlot}, todo : SUBSET UserIds,
           at : UserIds \cup {"nobody"}, ok : BOOLEAN]

RunOK(m) ==
    /\ m \in RunSet
    /\ m.pc # "idle" => m.kind \in Kinds
    /\ m.pc \in {"send", "log"} => m.at \in UserIds

LogSet == [student : UserIds, kind : Kinds, round : RoundIds, ok : BOOLEAN]

MailInv ==
    /\ SolveTypeOK
    /\ DOMAIN mailer = Mailers /\ \A p \in Mailers : RunOK(mailer[p])
    /\ log \subseteq LogSet
    /\ inbox \in [UserIds -> Seq(Mail)]

LEMMA NoRunOK == RunOK(NoRun)
  BY IdsAssumption DEF RunOK, RunSet, NoRun, RoundIds

LEMMA MailTypes == ASSUME MailInv PROVE MailTypeOK
<1>1. \A p \in Mailers : /\ mailer[p].todo \subseteq UserIds /\ mailer[p].rows \subseteq Keys
                         /\ mailer[p].at \in UserIds \cup {"nobody"}
  BY DEF MailInv, RunOK, RunSet
<1>2. \A u \in UserIds : \A i \in DOMAIN inbox[u] : inbox[u][i] \in Mail
  <2> SUFFICES ASSUME NEW u \in UserIds, NEW i \in DOMAIN inbox[u] PROVE inbox[u][i] \in Mail
    OBVIOUS
  <2>1. inbox[u] \in Seq(Mail)
    BY DEF MailInv
  <2> QED BY <2>1
<1> QED BY <1>1, <1>2 DEF MailTypeOK, MailInv, LogSet

\* A step of the command of p alone.
LEMMA RunFrame ==
    ASSUME MailInv, NEW p \in Mailers, NEW m, Turns(p, m), RunOK(m),
           log' \subseteq LogSet, inbox' \in [UserIds -> Seq(Mail)]
    PROVE  MailInv'
<1>1. SolveTypeOK'
  BY DEF MailInv, Turns, solveVars, SolveTypeOK, ProcOK
<1>2. DOMAIN mailer' = Mailers /\ \A q \in Mailers : RunOK(mailer'[q])
  BY DEF MailInv, Turns
<1> QED BY <1>1, <1>2 DEF MailInv, RunOK, RunSet

LEMMA ProceedType ==
    ASSUME MailInv, NEW p \in Mailers, Proceed(p) PROVE MailInv'
<1> DEFINE m == mailer[p]
<1>0. db \in DB /\ m \in RunSet /\ RunOK(m) /\ log \subseteq LogSet
      /\ inbox \in [UserIds -> Seq(Mail)]
  BY DEF MailInv, SolveTypeOK, RunOK
<1>1. CASE ReadExcluded(p)
  <2>1. \A e \in SUBSET GroupIds, pc \in {"responded", "students"} :
           m.pc = "excluded" => RunOK([m EXCEPT !.pc = pc, !.excluded = e])
    BY <1>0 DEF RunOK, RunSet
  <2>2. {c.group : c \in {k \in get_curations_for_round(db, m.round) : ~k.included}}
           \in SUBSET GroupIds
    BY <1>0 DEF get_curations_for_round, DB, Database
  <2> QED BY <1>0, <1>1, <2>1, <2>2, RunFrame DEF ReadExcluded, Runs
<1>2. CASE ReadResponded(p)
  <2>1. \A e \in SUBSET UserIds :
           m.pc = "responded" => RunOK([m EXCEPT !.pc = "students", !.responded = e])
    BY <1>0 DEF RunOK, RunSet
  <2>2. {a.student : a \in get_availabilities_for_round(db, m.round)} \in SUBSET UserIds
    BY <1>0 DEF get_availabilities_for_round, DB, Database
  <2> QED BY <1>0, <1>2, <2>1, <2>2, RunFrame DEF ReadResponded, Runs
<1>3. CASE ReadStudents(p)
  <2>1. \A e \in SUBSET UserIds :
           m.pc = "students" => RunOK([m EXCEPT !.pc = "visit", !.todo = e])
    BY <1>0 DEF RunOK, RunSet
  <2>2. \A S \in SUBSET db.students : {s.user_id : s \in S} \in SUBSET UserIds
    BY <1>0 DEF DB, Database
  <2>3. {t \in db.students : /\ t.group \notin m.excluded /\ student_is_due(t, Threshold)
                             /\ t.user_id \notin m.responded} \in SUBSET db.students
    OBVIOUS
  <2> QED BY <1>0, <1>3, <2>1, <2>2, <2>3, RunFrame DEF ReadStudents, Runs
<1>4. CASE ReadSchedule(p)
  <2>1. \A e \in SUBSET Keys :
           m.pc = "schedule" => RunOK([m EXCEPT !.pc = "slots", !.rows = e])
    BY <1>0 DEF RunOK, RunSet
  <2>2. {PresKey(x) : x \in get_presentations_for_round(db, m.round)} \in SUBSET Keys
    BY <1>0, KeysOf DEF get_presentations_for_round
  <2> QED BY <1>0, <1>4, <2>1, <2>2, RunFrame DEF ReadSchedule, Runs
<1>5. CASE ReadSlotTimes(p)
  <2>1. \A e \in SUBSET SlotIds :
           m.pc = "slots" => RunOK([m EXCEPT !.pc = "visit", !.known = e])
    BY <1>0 DEF RunOK, RunSet
  <2>2. Ids(get_slots_for_round(db, m.round)) \in SUBSET SlotIds
    BY <1>0 DEF Ids, get_slots_for_round, DB, Database
  <2> QED BY <1>0, <1>5, <2>1, <2>2, RunFrame DEF ReadSlotTimes, Runs
<1>6. ASSUME NEW row \in m.rows, VisitRow(p, row) PROVE MailInv'
  <2>1. \A e \in SUBSET UserIds, s \in SlotIds \cup {NoSlot} :
           m.pc = "visit" => RunOK([m EXCEPT !.rows = @ \ {row}, !.todo = e, !.slot = s])
    BY <1>0 DEF RunOK, RunSet
  <2>2. DueMembersOf(row.group) \in SUBSET UserIds
    BY <1>0 DEF DueMembersOf, DB, Database
  <2>3. row.slot \in SlotIds
    BY <1>0 DEF RunSet, Keys
  <2> QED BY <1>0, <1>6, <2>1, <2>2, <2>3, NoRunOK, RunFrame DEF VisitRow, Runs
<1>7. ASSUME NEW u \in m.todo, Visit(p, u) PROVE MailInv'
  <2>1. /\ RunOK([m EXCEPT !.todo = @ \ {u}])
        /\ RunOK([m EXCEPT !.pc = "send", !.at = u])
    BY <1>0, <1>7 DEF RunOK, RunSet, Visit, Runs
  <2> QED BY <1>0, <1>7, <2>1, RunFrame DEF Visit
<1>8. CASE LogMail(p)
  <2>1. RunOK([m EXCEPT !.pc = "visit", !.todo = @ \ {m.at}, !.at = "nobody", !.expired = m.rows])
    BY <1>0, <1>8 DEF RunOK, RunSet, LogMail, Runs
  <2>2. [student |-> m.at, kind |-> m.kind, round |-> m.round, ok |-> m.ok] \in LogSet
    BY <1>0, <1>8 DEF RunOK, RunSet, LogMail, Runs, LogSet
  <2>3. log' \subseteq LogSet
    BY <1>0, <1>8, <2>2 DEF LogMail
  <2> QED BY <1>0, <1>8, <2>1, <2>3, NoRunOK, RunFrame DEF LogMail
<1>9. CASE Finish(p)
  BY <1>0, <1>9, NoRunOK, RunFrame DEF Finish
<1> QED BY <1>1, <1>2, <1>3, <1>4, <1>5, <1>6, <1>7, <1>8, <1>9 DEF Proceed

\* What a mail that arrives does to the inboxes.
LEMMA DeliverInbox ==
    ASSUME MailInv, NEW p \in Mailers, NEW arrives, NEW ok, Deliver(p, arrives, ok)
    PROVE  /\ inbox' \in [UserIds -> Seq(Mail)]
           /\ \A u \in UserIds : \A kind, r :
                 MailsOf(u, kind, r)' =
                    IF arrives /\ u = mailer[p].at /\ kind = mailer[p].kind /\ r = mailer[p].round
                    THEN MailsOf(u, kind, r) \cup {Len(inbox[u]) + 1} ELSE MailsOf(u, kind, r)
<1> DEFINE m    == mailer[p]
           mail == [kind |-> m.kind, round |-> m.round, slot |-> m.slot]
<1>0. /\ RunOK(m) /\ m \in RunSet /\ inbox \in [UserIds -> Seq(Mail)]
      /\ m.at \in UserIds /\ m.kind \in Kinds
  BY DEF MailInv, RunOK, Deliver, Runs
<1>1. mail \in Mail /\ mail.kind = m.kind /\ mail.round = m.round
  BY <1>0 DEF RunSet, Mail
<1>2. CASE ~arrives
  <2>1. inbox' = inbox
    BY <1>2 DEF Deliver
  <2> QED BY <1>0, <1>2, <2>1 DEF MailsOf
<1>3. CASE arrives
  <2>1. inbox' = [inbox EXCEPT ![m.at] = Append(@, mail)]
    BY <1>3 DEF Deliver
  <2> HIDE DEF mail
  <2>2. \A s \in Seq(Mail) :
           /\ Append(s, mail) \in Seq(Mail)
           /\ DOMAIN s = 1..Len(s) /\ Len(s) \in Nat
           /\ DOMAIN Append(s, mail) = 1..(Len(s) + 1)
           /\ \A i \in 1..Len(s) : Append(s, mail)[i] = s[i]
           /\ Append(s, mail)[Len(s) + 1] = mail
    BY <1>1
  <2>3. inbox' \in [UserIds -> Seq(Mail)]
    BY <1>0, <2>1, <2>2
  <2>4. ASSUME NEW u \in UserIds, NEW kind, NEW r, u # m.at
        PROVE  MailsOf(u, kind, r)' = MailsOf(u, kind, r)
    <3>1. inbox'[u] = inbox[u]
      BY <1>0, <2>1, <2>4
    <3> QED BY <3>1 DEF MailsOf
  <2>5. ASSUME NEW u \in UserIds, NEW kind, NEW r, u = m.at
        PROVE  MailsOf(u, kind, r)' =
                  IF kind = m.kind /\ r = m.round
                  THEN MailsOf(u, kind, r) \cup {Len(inbox[u]) + 1} ELSE MailsOf(u, kind, r)
    <3>1. PICK s : s = inbox[u] /\ s \in Seq(Mail)
      BY <1>0
    <3>2. PICK t : t = inbox'[u] /\ t = Append(s, mail)
      BY <1>0, <2>1, <2>5, <3>1
    <3>3. {i \in DOMAIN t : t[i].kind = kind /\ t[i].round = r} =
             {i \in DOMAIN s : s[i].kind = kind /\ s[i].round = r}
               \cup {i \in {Len(s) + 1} : mail.kind = kind /\ mail.round = r}
      BY <2>2, <3>1, <3>2
    <3>4. MailsOf(u, kind, r) = {i \in DOMAIN s : s[i].kind = kind /\ s[i].round = r}
      BY <3>1 DEF MailsOf
    <3>5. MailsOf(u, kind, r)' = {i \in DOMAIN t : t[i].kind = kind /\ t[i].round = r}
      BY <3>2 DEF MailsOf
    <3> QED BY <1>1, <3>1, <3>3, <3>4, <3>5
  <2> QED BY <1>3, <2>3, <2>4, <2>5
<1> QED BY <1>2, <1>3

LEMMA OthersType ==
    ASSUME SolveTypeOK, [SolveNext]_solveVars PROVE SolveTypeOK'
<1>1. CASE Edit
  BY <1>1, EditType DEF Edit, SolveTypeOK
<1>2. CASE UNCHANGED solveVars
  BY <1>2 DEF solveVars, SolveTypeOK
<1> QED BY <1>1, <1>2, SolveStepType DEF SolveNext

LEMMA MailStepType ==
    ASSUME MailInv, [MailNext]_mailVars PROVE MailInv'
<1>0. /\ SolveTypeOK /\ db \in DB /\ log \subseteq LogSet /\ inbox \in [UserIds -> Seq(Mail)]
      /\ \A p \in Mailers : RunOK(mailer[p]) /\ mailer[p] \in RunSet
  BY DEF MailInv, SolveTypeOK, RunOK
<1>1. ASSUME SolveTypeOK', UNCHANGED <<mailer, inbox>>, log' \subseteq log PROVE MailInv'
  BY <1>1 DEF MailInv, RunOK, RunSet
<1>2. CASE Others
  BY <1>0, <1>1, <1>2, OthersType DEF Others
<1>3. CASE UNCHANGED mailVars
  BY <1>0, <1>1, <1>3, OthersType DEF mailVars
<1>4. ASSUME NEW r \in db.rounds, PurgeRound(r) PROVE MailInv'
  <2>1. db' \in DB /\ solver' = solver
    BY <1>0, <1>4, DeleteRoundType DEF PurgeRound
  <2>2. SolveTypeOK'
    BY <1>0, <2>1 DEF SolveTypeOK, ProcOK
  <2> QED BY <1>1, <1>4, <2>2 DEF PurgeRound
<1>5. ASSUME NEW p \in Mailers, NEW kind \in Kinds, NEW r \in RoundIds, NEW force \in BOOLEAN,
             StartSend(p, kind, r, force)
      PROVE  MailInv'
  <2>1. \A pc \in {"schedule", "excluded"} :
           RunOK([NoRun EXCEPT !.pc = pc, !.kind = kind, !.round = r, !.force = force])
    BY NoRunOK DEF RunOK, RunSet, NoRun
  <2> QED BY <1>0, <1>5, <2>1, RunFrame DEF StartSend
<1>6. ASSUME NEW p \in Mailers, MailCrash(p) PROVE MailInv'
  BY <1>0, <1>6, NoRunOK, RunFrame DEF MailCrash
<1>7. ASSUME NEW p \in Mailers, NEW arrives \in BOOLEAN, NEW ok \in BOOLEAN,
             Deliver(p, arrives, ok)
      PROVE  MailInv'
  <2>1. RunOK([mailer[p] EXCEPT !.pc = "log", !.ok = ok])
    BY <1>0, <1>7 DEF RunOK, RunSet, Deliver, Runs
  <2>2. inbox' \in [UserIds -> Seq(Mail)]
    BY <1>7, DeliverInbox
  <2> QED BY <1>0, <1>7, <2>1, <2>2, RunFrame DEF Deliver
<1> QED BY <1>2, <1>3, <1>4, <1>5, <1>6, <1>7, ProceedType DEF MailNext

LEMMA MailInvAlways == MailSpec => []MailInv
<1>1. MailInit => MailInv
  <2>1. MailInit => SolveTypeOK
    BY IdleOK, IdsAssumption DEF MailInit, SolveInit, SolveTypeOK
  <2>2. << >> \in Seq(Mail)
    OBVIOUS
  <2> QED BY <2>1, <2>2, NoRunOK DEF MailInit, MailInv
<1> QED BY <1>1, MailStepType, PTL DEF MailSpec

\* The log, the inboxes and what the commands keep have their shape: whoever is
\* mailed is a student, and whatever is logged is a row of the schema.
THEOREM MailTypeCorrect == MailSpec => []MailTypeOK
  BY MailInvAlways, MailTypes, PTL

-----------------------------------------------------------------------------
(* Steps that leave the inboxes alone, and rounds.                         *)

LEMMA SameMails ==
    ASSUME inbox' = inbox PROVE \A u, kind, r : MailsOf(u, kind, r)' = MailsOf(u, kind, r)
  BY DEF MailsOf

\* Nobody but a purge deletes rounds.
LEMMA RoundsStay ==
    ASSUME db \in DB, [SolveNext]_solveVars PROVE Ids(db.rounds) \subseteq Ids(db'.rounds)
<1>1. CASE Edit
  BY <1>1, EditSlots DEF Edit
<1>2. ASSUME NEW p, DeleteOld(p) PROVE db'.rounds = db.rounds
  BY <1>2 DEF DeleteOld, delete_presentations, DB, Database
<1>3. ASSUME NEW p, NEW row, Create(p, row) PROVE db'.rounds = db.rounds
  BY <1>3 DEF Create, create_presentation, DB, Database
<1> QED BY <1>1, <1>2, <1>3
        DEF SolveNext, SolveStep, Crash, Start, ReadSlots, ReadAvail, ReadCurations,
            ReadGroups, ReadGroupMembers, ReadPriorAndAssign, SelectOld, CreateFails, Return, solveVars

-----------------------------------------------------------------------------
(* The log is never ahead of the mail.                                     *)

\* What a command is about to log as sent has arrived.
Arrived ==
    \A p \in Mailers : Runs(p, "log") /\ mailer[p].ok =>
        MailsOf(mailer[p].at, mailer[p].kind, mailer[p].round) # {}

\* The run of p comes to keep m.
LEMMA ArrivedFrame ==
    ASSUME MailInv, Arrived, NEW p \in Mailers, NEW m, Turns(p, m), inbox' = inbox,
           m.pc = "log" => m = mailer[p]
    PROVE  Arrived'
<1>1. \A u, kind, r : MailsOf(u, kind, r)' = MailsOf(u, kind, r)
  BY SameMails
<1>2. mailer' = [mailer EXCEPT ![p] = m] /\ DOMAIN mailer = Mailers
  BY DEF Turns, MailInv
<1>3. \A q \in Mailers : Runs(q, "log")' => mailer'[q] = mailer[q]
  BY <1>2 DEF Runs
<1> QED BY <1>1, <1>3 DEF Arrived, Runs

LEMMA LoggedStep ==
    ASSUME MailInv, LoggedIsDelivered, Arrived, [MailNext]_mailVars
    PROVE  LoggedIsDelivered' /\ Arrived'
<1>0. /\ db \in DB /\ log \subseteq LogSet
      /\ \A p \in Mailers : RunOK(mailer[p]) /\ mailer[p] \in RunSet
  BY DEF MailInv, SolveTypeOK, RunOK
<1>1. ASSUME Ids(db.rounds) \subseteq Ids(db'.rounds), log' = log,
             \A u, kind, r : MailsOf(u, kind, r)' = MailsOf(u, kind, r)
      PROVE  LoggedIsDelivered'
  BY <1>1 DEF LoggedIsDelivered
<1>2. CASE Others \/ UNCHANGED mailVars
  <2>1. UNCHANGED <<mailer, log, inbox>> /\ Ids(db.rounds) \subseteq Ids(db'.rounds)
    BY <1>0, <1>2, RoundsStay DEF Others, mailVars
  <2> QED BY <1>1, <2>1, SameMails DEF Arrived, Runs
<1>3. ASSUME NEW r \in db.rounds, PurgeRound(r) PROVE LoggedIsDelivered' /\ Arrived'
  <2>1. db'.rounds = {x \in db.rounds : x.id # r.id}
    BY <1>0, <1>3 DEF PurgeRound, delete_round, DB, Database
  <2>2. \A i \in Ids(db.rounds) : i # r.id => i \in Ids(db'.rounds)
    BY <2>1 DEF Ids
  <2> QED BY <1>3, <2>2, SameMails DEF PurgeRound, LoggedIsDelivered, Arrived, Runs
<1>4. ASSUME NEW p \in Mailers, NEW m, Turns(p, m), inbox' = inbox, log' = log,
             m.pc = "log" => m = mailer[p]
      PROVE  LoggedIsDelivered' /\ Arrived'
  <2>1. db' = db
    BY <1>4 DEF Turns, solveVars
  <2> QED BY <1>1, <1>4, <2>1, SameMails, ArrivedFrame
<1>5. NoRun.pc # "log"
  BY DEF NoRun
<1>6. ASSUME NEW p \in Mailers, NEW kind, NEW r, NEW force, StartSend(p, kind, r, force)
      PROVE  LoggedIsDelivered' /\ Arrived'
  BY <1>4, <1>6 DEF StartSend, NoRun
<1>7. ASSUME NEW p \in Mailers, MailCrash(p) PROVE LoggedIsDelivered' /\ Arrived'
  BY <1>4, <1>5, <1>7 DEF MailCrash
<1>8. ASSUME NEW p \in Mailers, NEW arrives \in BOOLEAN, NEW ok \in BOOLEAN,
             Deliver(p, arrives, ok)
      PROVE  LoggedIsDelivered' /\ Arrived'
  <2>1. \A u \in UserIds : \A kind, r :
           MailsOf(u, kind, r)' =
              IF arrives /\ u = mailer[p].at /\ kind = mailer[p].kind /\ r = mailer[p].round
              THEN MailsOf(u, kind, r) \cup {Len(inbox[u]) + 1} ELSE MailsOf(u, kind, r)
    BY <1>8, DeliverInbox
  <2>2. \A u \in UserIds : \A kind, r : MailsOf(u, kind, r) # {} => MailsOf(u, kind, r)' # {}
    BY <2>1
  <2>3. LoggedIsDelivered'
    BY <1>0, <1>8, <2>2 DEF LoggedIsDelivered, Deliver, Turns, solveVars, LogSet
  <2>4. /\ mailer' = [mailer EXCEPT ![p] = [mailer[p] EXCEPT !.pc = "log", !.ok = ok]]
        /\ DOMAIN mailer = Mailers /\ mailer[p].at \in UserIds
    BY <1>0, <1>8 DEF Deliver, Turns, MailInv, RunOK, Runs
  <2>5. ASSUME NEW q \in Mailers, Runs(q, "log")', mailer'[q].ok,
               NEW u, NEW kind, NEW r,
               u = mailer'[q].at, kind = mailer'[q].kind, r = mailer'[q].round
        PROVE  MailsOf(u, kind, r)' # {}
    <3>1. CASE q = p
      <4>1. /\ u = mailer[p].at /\ kind = mailer[p].kind /\ r = mailer[p].round /\ ok
        BY <1>0, <2>4, <2>5, <3>1 DEF RunSet
      <4> QED BY <1>8, <2>1, <2>4, <4>1 DEF Deliver
    <3>2. CASE q # p
      <4>1. mailer'[q] = mailer[q]
        BY <2>4, <3>2
      <4>2. MailsOf(u, kind, r) # {} /\ u \in UserIds
        BY <1>0, <2>5, <4>1 DEF Arrived, Runs, RunOK
      <4> QED BY <2>2, <4>2
    <3> QED BY <3>1, <3>2
  <2> QED BY <2>3, <2>5 DEF Arrived
<1>9. ASSUME NEW p \in Mailers, LogMail(p) PROVE LoggedIsDelivered' /\ Arrived'
  <2> DEFINE m   == mailer[p]
             row == [student |-> m.at, kind |-> m.kind, round |-> m.round, ok |-> m.ok]
  <2>1. CASE m.round \notin Ids(db.rounds)
    BY <1>4, <1>5, <1>9, <2>1 DEF LogMail
  <2>2. CASE m.round \in Ids(db.rounds)
    <3>1. /\ log' = log \cup {row} /\ inbox' = inbox /\ db' = db
          /\ Turns(p, [m EXCEPT !.pc = "visit", !.todo = @ \ {m.at}, !.at = "nobody",
                                !.expired = m.rows])
      BY <1>9, <2>2 DEF LogMail, Turns, solveVars
    <3>2. Arrived'
      <4>1. \A t, e : [m EXCEPT !.pc = "visit", !.todo = t, !.at = "nobody", !.expired = e].pc
                       # "log"
        BY <1>0 DEF RunSet
      <4> QED BY <3>1, <4>1, ArrivedFrame
    <3>3. m.ok => MailsOf(m.at, m.kind, m.round) # {}
      BY <1>9 DEF LogMail, Arrived
    <3>4. \A x \in log' :
             /\ x.ok => MailsOf(x.student, x.kind, x.round) # {}
             /\ x.round \in Ids(db.rounds)
      BY <2>2, <3>1, <3>3 DEF LoggedIsDelivered
    <3>5. LoggedIsDelivered'
      BY <3>1, <3>4, SameMails DEF LoggedIsDelivered
    <3> QED BY <3>2, <3>5
  <2> QED BY <2>1, <2>2
<1>10. ASSUME NEW p \in Mailers, Proceed(p) PROVE LoggedIsDelivered' /\ Arrived'
  <2>1. CASE ReadExcluded(p)
    BY <1>0, <1>4, <2>1 DEF ReadExcluded, RunSet
  <2>2. CASE ReadResponded(p)
    BY <1>0, <1>4, <2>2 DEF ReadResponded, RunSet
  <2>3. CASE ReadStudents(p)
    BY <1>0, <1>4, <2>3 DEF ReadStudents, RunSet
  <2>4. CASE ReadSchedule(p)
    BY <1>0, <1>4, <2>4 DEF ReadSchedule, RunSet
  <2>5. CASE ReadSlotTimes(p)
    BY <1>0, <1>4, <2>5 DEF ReadSlotTimes, RunSet
  <2>6. ASSUME NEW row, VisitRow(p, row) PROVE LoggedIsDelivered' /\ Arrived'
    <3>1. \A r, t, x : [mailer[p] EXCEPT !.rows = r, !.todo = t, !.slot = x].pc = mailer[p].pc
      BY <1>0 DEF RunSet
    <3>2. mailer[p].pc = "visit"
      BY <2>6 DEF VisitRow, Runs
    <3>3. CASE Turns(p, NoRun)
      BY <1>4, <1>5, <2>6, <3>3 DEF VisitRow
    <3>4. CASE \E r, t, x : Turns(p, [mailer[p] EXCEPT !.rows = r, !.todo = t, !.slot = x])
      <4>0. PICK r, t, x : Turns(p, [mailer[p] EXCEPT !.rows = r, !.todo = t, !.slot = x])
        BY <3>4
      <4> DEFINE m == [mailer[p] EXCEPT !.rows = r, !.todo = t, !.slot = x]
      <4>1. Turns(p, m) /\ m.pc = "visit"
        BY <3>1, <3>2, <4>0
      <4> HIDE DEF m
      <4>2. m.pc = "log" => m = mailer[p]
        BY <4>1
      <4>3. log' = log /\ inbox' = inbox
        BY <2>6 DEF VisitRow
      <4> QED BY <1>4, <4>1, <4>2, <4>3
    <3> QED BY <2>6, <3>3, <3>4 DEF VisitRow
  <2>7. ASSUME NEW u, Visit(p, u) PROVE LoggedIsDelivered' /\ Arrived'
    <3>1. /\ \A t : [mailer[p] EXCEPT !.todo = t].pc = mailer[p].pc
          /\ \A a : [mailer[p] EXCEPT !.pc = "send", !.at = a].pc = "send"
      BY <1>0 DEF RunSet
    <3> QED BY <1>4, <2>7, <3>1 DEF Visit, Runs
  <2>8. CASE Finish(p)
    BY <1>4, <1>5, <2>8 DEF Finish
  <2> QED BY <1>9, <1>10, <2>1, <2>2, <2>3, <2>4, <2>5, <2>6, <2>7, <2>8 DEF Proceed
<1> QED BY <1>2, <1>3, <1>6, <1>7, <1>8, <1>10 DEF MailNext

\* A row of the log without error is only there when the mail has arrived, and no
\* row outlives its round, whatever runs, purges, solves and crashes interleave.
THEOREM LogIsHonest == MailSpec => []LoggedIsDelivered
<1>1. MailInit => LoggedIsDelivered /\ Arrived
  BY DEF MailInit, LoggedIsDelivered, Arrived, Runs, NoRun
<1>2. MailInv /\ (LoggedIsDelivered /\ Arrived) /\ [MailNext]_mailVars
         => (LoggedIsDelivered /\ Arrived)'
  BY LoggedStep
<1> QED BY <1>1, <1>2, MailInvAlways, PTL DEF MailSpec

-----------------------------------------------------------------------------
(* Nobody is mailed twice.                                                 *)

\* The command of p runs without --force, for a round there is.
Plain(p) == ~mailer[p].force /\ mailer[p].round \in Ids(db.rounds)

\* A mail that has arrived and is not logged yet.
Unlogged(u, kind, r) ==
    \E p \in Mailers : /\ Runs(p, "log") /\ mailer[p].ok
                       /\ mailer[p].at = u /\ mailer[p].kind = kind /\ mailer[p].round = r

\* At most one mail, and it is logged or about to be.
Once(u, kind, r) ==
    /\ \A i, j \in MailsOf(u, kind, r) : i = j
    /\ MailsOf(u, kind, r) # {} => email_already_sent(u, kind, r) \/ Unlogged(u, kind, r)

\* While all is calm one command runs, and it sends what nobody has got.
CalmInv ==
    calm =>
        /\ \A p, q \in Mailers : ~Runs(p, "idle") /\ ~Runs(q, "idle") => p = q
        /\ \A p \in Mailers : ~Runs(p, "idle") => Plain(p)
        /\ \A p \in Mailers : Runs(p, "send") =>
              ~email_already_sent(mailer[p].at, mailer[p].kind, mailer[p].round)
        /\ \A u \in UserIds, kind \in Kinds, r \in RoundIds : Once(u, kind, r)

\* A step of a command that neither sends nor logs.
LEMMA CalmFrame ==
    ASSUME MailInv, CalmInv, NEW p \in Mailers, NEW m, Turns(p, m),
           UNCHANGED <<log, inbox, calm>>,
           ~Runs(p, "idle"), ~Runs(p, "log"), m.pc # "log",
           m.pc = "idle" \/ (m.force = mailer[p].force /\ m.round = mailer[p].round),
           m.pc = "send" => ~email_already_sent(m.at, m.kind, m.round)
    PROVE  CalmInv'
<1> SUFFICES ASSUME calm PROVE CalmInv'
  BY DEF CalmInv
<1>1. mailer' = [mailer EXCEPT ![p] = m] /\ DOMAIN mailer = Mailers /\ db' = db
  BY DEF Turns, solveVars, MailInv
<1>2. /\ mailer'[p] = m
      /\ \A q \in Mailers : q # p => mailer'[q] = mailer[q] /\ Runs(q, "idle")
  BY <1>1 DEF CalmInv
<1>3. \A u, kind, r : email_already_sent(u, kind, r)' = email_already_sent(u, kind, r)
  BY DEF email_already_sent
<1>4. \A u, kind, r : ~Unlogged(u, kind, r)
  BY <1>2 DEF Unlogged, Runs
<1>5. \A u \in UserIds, kind \in Kinds, r \in RoundIds : Once(u, kind, r)'
  BY <1>3, <1>4, SameMails DEF CalmInv, Once
<1>6. \A q \in Mailers : ~Runs(q, "idle")' => q = p /\ m.pc # "idle"
  BY <1>2 DEF Runs
<1>7. \A q \in Mailers : ~Runs(q, "idle")' => Plain(q)'
  BY <1>1, <1>2, <1>6 DEF CalmInv, Plain
<1>8. \A q \in Mailers : Runs(q, "send")' =>
         ~email_already_sent(mailer[q].at, mailer[q].kind, mailer[q].round)'
  BY <1>2, <1>3 DEF Runs, email_already_sent
<1> QED BY <1>5, <1>6, <1>7, <1>8 DEF CalmInv

LEMMA StartCalm ==
    ASSUME MailInv, CalmInv, NEW p \in Mailers, NEW kind, NEW r, NEW force,
           StartSend(p, kind, r, force)
    PROVE  CalmInv'
<1> SUFFICES ASSUME calm' PROVE CalmInv'
  BY DEF CalmInv
<1>1. calm /\ ~force /\ r \in Ids(db.rounds) /\ \A q \in Mailers : Runs(q, "idle")
  BY DEF StartSend, Undisturbed
<1>2. PICK m : /\ mailer' = [mailer EXCEPT ![p] = m]
               /\ m.pc \in {"schedule", "excluded"} /\ m.force = force /\ m.round = r
  <2>1. \A pc : LET m == [NoRun EXCEPT !.pc = pc, !.kind = kind, !.round = r, !.force = force]
                IN  m.pc = pc /\ m.force = force /\ m.round = r
    BY DEF NoRun
  <2> QED BY <2>1 DEF StartSend, Turns
<1>3. UNCHANGED <<db, log, inbox>> /\ DOMAIN mailer = Mailers
  BY DEF StartSend, Turns, solveVars, MailInv
<1>4. \A q \in Mailers : q # p => Runs(q, "idle")'
  BY <1>1, <1>2 DEF Runs
<1>5. Plain(p)' /\ ~Runs(p, "send")'
  BY <1>1, <1>2, <1>3 DEF Plain, Runs
<1>6. \A u, k, i : ~Unlogged(u, k, i) /\ email_already_sent(u, k, i)' = email_already_sent(u, k, i)
  BY <1>1, <1>3 DEF Unlogged, Runs, email_already_sent
<1>7. \A u \in UserIds, k \in Kinds, i \in RoundIds : Once(u, k, i)'
  BY <1>1, <1>3, <1>6, SameMails DEF CalmInv, Once
<1>8. \A q \in Mailers : ~Runs(q, "send")'
  BY <1>4, <1>5 DEF Runs
<1> QED BY <1>4, <1>5, <1>7, <1>8 DEF CalmInv

LEMMA DeliverCalm ==
    ASSUME MailInv, CalmInv, NEW p \in Mailers, NEW arrives \in BOOLEAN, NEW ok \in BOOLEAN,
           Deliver(p, arrives, ok)
    PROVE  CalmInv'
<1> DEFINE m == mailer[p]
<1> SUFFICES ASSUME calm' PROVE CalmInv'
  BY DEF CalmInv
<1>1. calm /\ arrives = ok /\ UNCHANGED <<db, log>> /\ Runs(p, "send")
  BY DEF Deliver, Turns, solveVars
<1>2. PICK n : /\ mailer' = [mailer EXCEPT ![p] = n]
               /\ n.pc = "log" /\ n.ok = ok /\ n.at = m.at /\ n.kind = m.kind
               /\ n.round = m.round /\ n.force = m.force
  <2>1. LET n == [m EXCEPT !.pc = "log", !.ok = ok]
        IN  /\ n.pc = "log" /\ n.ok = ok /\ n.at = m.at /\ n.kind = m.kind
            /\ n.round = m.round /\ n.force = m.force
    BY DEF MailInv, RunOK, RunSet
  <2> QED BY <2>1 DEF Deliver, Turns
<1>3. DOMAIN mailer = Mailers /\ m.at \in UserIds /\ m.kind \in Kinds /\ m.round \in RoundIds
  BY <1>1 DEF MailInv, RunOK, RunSet, Runs
<1>4. mailer'[p] = n /\ \A q \in Mailers : q # p => mailer'[q] = mailer[q] /\ Runs(q, "idle")
  BY <1>1, <1>2, <1>3 DEF CalmInv, Runs
<1>5. \A u, k, i : ~Unlogged(u, k, i) /\ email_already_sent(u, k, i)' = email_already_sent(u, k, i)
  BY <1>1, <1>4 DEF Unlogged, Runs, email_already_sent
<1>6. \A u \in UserIds : \A k, i :
         MailsOf(u, k, i)' =
            IF arrives /\ u = m.at /\ k = m.kind /\ i = m.round
            THEN MailsOf(u, k, i) \cup {Len(inbox[u]) + 1} ELSE MailsOf(u, k, i)
  BY DeliverInbox
<1>7. MailsOf(m.at, m.kind, m.round) = {}
  BY <1>1, <1>3, <1>5 DEF CalmInv, Once
<1>8. ASSUME NEW u \in UserIds, NEW k \in Kinds, NEW i \in RoundIds PROVE Once(u, k, i)'
  <2>1. CASE arrives /\ u = m.at /\ k = m.kind /\ i = m.round
    <3>1. Unlogged(u, k, i)'
      BY <1>1, <1>2, <1>4, <2>1 DEF Unlogged, Runs
    <3>2. MailsOf(u, k, i)' = {Len(inbox[u]) + 1}
      BY <1>6, <1>7, <2>1
    <3> QED BY <3>1, <3>2 DEF Once
  <2>2. CASE ~(arrives /\ u = m.at /\ k = m.kind /\ i = m.round)
    <3>1. MailsOf(u, k, i)' = MailsOf(u, k, i)
      BY <1>6, <2>2
    <3> QED BY <1>1, <1>5, <3>1 DEF CalmInv, Once
  <2> QED BY <2>1, <2>2
<1>9. \A q \in Mailers : ~Runs(q, "idle")' => q = p
  BY <1>4 DEF Runs
<1>10. Plain(p)' /\ ~Runs(p, "send")'
  BY <1>1, <1>2, <1>4 DEF CalmInv, Plain, Runs
<1>11. \A q \in Mailers : ~Runs(q, "send")'
  BY <1>4, <1>10 DEF Runs
<1> QED BY <1>8, <1>9, <1>10, <1>11 DEF CalmInv

LEMMA LogCalm ==
    ASSUME MailInv, CalmInv, NEW p \in Mailers, LogMail(p) PROVE CalmInv'
<1> DEFINE m == mailer[p]
           row == [student |-> m.at, kind |-> m.kind, round |-> m.round, ok |-> m.ok]
<1> SUFFICES ASSUME calm PROVE CalmInv'
  BY DEF LogMail, CalmInv
<1>1. m.round \in Ids(db.rounds) /\ Runs(p, "log")
  BY DEF LogMail, CalmInv, Plain, Runs
<1>2. /\ log' = log \cup {row} /\ UNCHANGED <<db, inbox>>
  BY <1>1 DEF LogMail, Turns, solveVars
<1>3. PICK n : /\ mailer' = [mailer EXCEPT ![p] = n]
               /\ n.pc = "visit" /\ n.round = m.round /\ n.force = m.force
  <2>1. \A t, e : LET n == [m EXCEPT !.pc = "visit", !.todo = t, !.at = "nobody", !.expired = e]
                  IN  n.pc = "visit" /\ n.round = m.round /\ n.force = m.force
    BY DEF MailInv, RunOK, RunSet
  <2> DEFINE n == [m EXCEPT !.pc = "visit", !.todo = m.todo \ {m.at}, !.at = "nobody",
                            !.expired = m.rows]
  <2>2. mailer' = [mailer EXCEPT ![p] = n]
    BY <1>1 DEF LogMail, Turns
  <2>3. n.pc = "visit" /\ n.round = m.round /\ n.force = m.force
    BY <2>1
  <2> HIDE DEF n, m
  <2> QED BY <2>2, <2>3
<1>4. /\ DOMAIN mailer = Mailers /\ mailer'[p] = n
      /\ \A q \in Mailers : q # p => mailer'[q] = mailer[q] /\ Runs(q, "idle")
  BY <1>1, <1>3 DEF MailInv, CalmInv, Runs
<1>5. ASSUME NEW u \in UserIds, NEW k \in Kinds, NEW i \in RoundIds PROVE Once(u, k, i)'
  <2>1. email_already_sent(u, k, i) => email_already_sent(u, k, i)'
    BY <1>2 DEF email_already_sent
  <2>2. Unlogged(u, k, i) => email_already_sent(u, k, i)'
    <3> SUFFICES ASSUME Unlogged(u, k, i) PROVE email_already_sent(u, k, i)'
      OBVIOUS
    <3>1. m.at = u /\ m.kind = k /\ m.round = i /\ m.ok
      BY <1>4 DEF Unlogged, Runs
    <3>2. m.ok = TRUE
      BY <3>1 DEF MailInv, RunOK, RunSet
    <3> QED BY <1>2, <3>1, <3>2 DEF email_already_sent
  <2> QED BY <1>2, <2>1, <2>2, SameMails DEF CalmInv, Once
<1>6. \A q \in Mailers : ~Runs(q, "idle")' => q = p
  BY <1>4 DEF Runs
<1>7. Plain(p)'
  BY <1>1, <1>2, <1>3, <1>4 DEF CalmInv, Plain, Runs
<1>8. \A q \in Mailers : ~Runs(q, "send")'
  BY <1>3, <1>4 DEF Runs
<1> QED BY <1>5, <1>6, <1>7, <1>8 DEF CalmInv, LogMail

LEMMA ProceedCalm ==
    ASSUME MailInv, CalmInv, NEW p \in Mailers, Proceed(p) PROVE CalmInv'
<1> DEFINE m == mailer[p]
<1>0. m \in RunSet
  BY DEF MailInv, RunOK
<1>1. ASSUME NEW n, Turns(p, n), UNCHANGED <<log, inbox, calm>>, m.pc \notin {"idle", "log"},
             n.pc \notin {"send", "log"},
             n.pc = "idle" \/ (n.force = m.force /\ n.round = m.round)
      PROVE  CalmInv'
  BY <1>1, CalmFrame DEF Runs
<1>2. NoRun.pc = "idle"
  BY DEF NoRun
<1>3. CASE ReadExcluded(p)
  BY <1>0, <1>1, <1>3 DEF ReadExcluded, Runs, RunSet
<1>4. CASE ReadResponded(p)
  BY <1>0, <1>1, <1>4 DEF ReadResponded, Runs, RunSet
<1>5. CASE ReadStudents(p)
  BY <1>0, <1>1, <1>5 DEF ReadStudents, Runs, RunSet
<1>6. CASE ReadSchedule(p)
  BY <1>0, <1>1, <1>6 DEF ReadSchedule, Runs, RunSet
<1>7. CASE ReadSlotTimes(p)
  BY <1>0, <1>1, <1>7 DEF ReadSlotTimes, Runs, RunSet
<1>8. ASSUME NEW row, VisitRow(p, row) PROVE CalmInv'
  <2>0. m.pc = "visit" /\ UNCHANGED <<log, inbox, calm>>
    BY <1>8 DEF VisitRow, Runs
  <2>1. CASE Turns(p, NoRun)
    BY <1>1, <1>2, <2>0, <2>1
  <2>2. CASE \E r, t, x : Turns(p, [mailer[p] EXCEPT !.rows = r, !.todo = t, !.slot = x])
    <3>1. PICK r, t, x : Turns(p, [mailer[p] EXCEPT !.rows = r, !.todo = t, !.slot = x])
      BY <2>2
    <3> DEFINE n == [mailer[p] EXCEPT !.rows = r, !.todo = t, !.slot = x]
    <3>2. Turns(p, n) /\ n.pc = "visit" /\ n.force = m.force /\ n.round = m.round
      BY <1>0, <2>0, <3>1 DEF RunSet
    <3> HIDE DEF n
    <3> QED BY <1>1, <2>0, <3>2
  <2> QED BY <1>8, <2>1, <2>2 DEF VisitRow
<1>9. ASSUME NEW u \in m.todo, Visit(p, u) PROVE CalmInv'
  <2> SUFFICES ASSUME calm PROVE CalmInv'
    BY <1>9 DEF Visit, CalmInv
  <2>0. m.pc = "visit" /\ UNCHANGED <<log, inbox, calm>> /\ ~m.force
    BY <1>9 DEF Visit, Runs, CalmInv, Plain
  <2>1. CASE email_already_sent(u, m.kind, m.round)
    BY <1>0, <1>1, <1>9, <2>0, <2>1 DEF Visit, RunSet
  <2>2. CASE ~email_already_sent(u, m.kind, m.round)
    <3> DEFINE n == [m EXCEPT !.pc = "send", !.at = u]
    <3>1. /\ n.pc = "send" /\ n.at = u /\ n.kind = m.kind /\ n.round = m.round
          /\ n.force = m.force /\ Turns(p, n)
      BY <1>0, <1>9, <2>2 DEF Visit, RunSet
    <3> HIDE DEF n
    <3> QED BY <2>0, <2>2, <3>1, CalmFrame DEF Runs
  <2> QED BY <2>1, <2>2
<1>10. CASE Finish(p)
  BY <1>1, <1>2, <1>10 DEF Finish, Runs
<1> QED BY <1>3, <1>4, <1>5, <1>6, <1>7, <1>8, <1>9, <1>10, LogCalm DEF Proceed

LEMMA CalmStep ==
    ASSUME MailInv, CalmInv, [MailNext]_mailVars PROVE CalmInv'
<1>1. CASE Others \/ UNCHANGED mailVars
  <2>1. UNCHANGED <<mailer, log, inbox, calm>> /\ Ids(db.rounds) \subseteq Ids(db'.rounds)
    BY <1>1, RoundsStay DEF Others, mailVars, MailInv, SolveTypeOK
  <2>2. \A u, k, i : Once(u, k, i)' = Once(u, k, i)
    BY <2>1, SameMails DEF Once, Unlogged, Runs, email_already_sent
  <2> QED BY <2>1, <2>2 DEF CalmInv, Runs, Plain, email_already_sent
<1>2. ASSUME NEW r, PurgeRound(r) PROVE CalmInv'
  BY <1>2 DEF PurgeRound, CalmInv
<1>3. ASSUME NEW p, MailCrash(p) PROVE CalmInv'
  BY <1>3 DEF MailCrash, CalmInv
<1> QED BY <1>1, <1>2, <1>3, StartCalm, ProceedCalm, DeliverCalm DEF MailNext

\* As long as all is calm nobody is mailed twice, however often the commands are
\* repeated and whatever solves and edits come between their steps.
THEOREM NobodyIsMailedTwice == MailSpec => []NoDoubleSend
<1>1. MailInit => CalmInv
  BY DEF MailInit, CalmInv, Once, MailsOf, Runs, NoRun
<1>2. CalmInv => NoDoubleSend
  BY DEF CalmInv, NoDoubleSend, Once
<1> QED BY <1>1, <1>2, CalmStep, MailInvAlways, PTL DEF MailSpec
=============================================================================
