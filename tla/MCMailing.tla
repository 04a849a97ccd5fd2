------------------------------ MODULE MCMailing ------------------------------
(***************************************************************************)
(* Instances of Mailing: round 1 with slots 1 and 2, group 1 of students a *)
(* and b, group 2 of student c; round 2 does not exist.  The round was     *)
(* scheduled by hand of a pin that is gone, so that solving it again moves *)
(* group 1 from slot 2 to slot 1.                                          *)
(***************************************************************************)
EXTENDS Mailing, SlotTexts

CONSTANTS
    MaxRequests,    \* bound: sends, solves, purges and edits; one less
                    \* when not all is calm
    SentKinds,      \* the kinds of mail somebody sends
    SentRounds      \* the rounds somebody sends mail for

VARIABLE requests

mcVars == <<mailVars, requests>>

MCInit == MailInit /\ requests = 0

Counted(A) ==
    requests < (IF calm THEN MaxRequests ELSE MaxRequests - 1) /\ requests' = requests + 1 /\ A
Free(A)    == A /\ UNCHANGED requests

Send(p, force) ==
    \E kind \in SentKinds, r \in SentRounds : StartSend(p, kind, r, force)

NoMail(A) == A /\ UNCHANGED <<mailer, log, inbox, calm>>

\* What the server does with a mail, if it ever answers.
ServerStep(p) == \E arrives, ok \in BOOLEAN : Deliver(p, arrives, ok)

\* Requests that change what the mails or a solve are made from.
RelevantEdit ==
    /\ WebFree
    /\ \/ \E s \in db.slots : DeleteSlot(s)
       \/ \E g \in GroupIds, inc \in BOOLEAN : CurateGroup(g, 1, inc, NoSlot, FALSE)
    /\ UNCHANGED solver

\* Everything Mailing allows but the crash of a solve, which is in MCSolveRound.
MCNext ==
    \/ Counted(\E p \in Mailers, force \in BOOLEAN : Send(p, force))
    \/ Counted(NoMail(\E p \in Procs : \E r \in db.rounds : Start(p, r)))
    \/ Counted(NoMail(RelevantEdit))
    \/ Counted(\E r \in db.rounds : PurgeRound(r))
    \/ Free(NoMail(\E p \in Procs : SolveStep(p)))
    \/ \E p \in Mailers : Free(Proceed(p) \/ ServerStep(p) \/ MailCrash(p))

\* A command that nobody kills goes on; nothing is said of the server.
MCSpec ==
    /\ MCInit /\ [][MCNext]_mcVars
    /\ \A p \in Mailers : WF_mcVars(Free(Proceed(p)))

-----------------------------------------------------------------------------

MCUsers  == {"a", "b", "c"}
MCGroups == {1, 2}

Student(u, g, assessed) ==
    [user_id |-> u, group |-> g, prev |-> FALSE, assessed |-> assessed, points |-> 0]

Snapshot(bAssessed, curations, pres) ==
    [students  |-> {Student("a", 1, FALSE), Student("b", 1, bAssessed), Student("c", 2, FALSE)},
     groups    |-> MCGroups,
     rounds    |-> {[id |-> 1, mode |-> "availability", quorum |-> "all"]},
     slots     |-> {[id |-> s, round |-> 1, capacity |-> 1] : s \in {1, 2}},
     avail     |-> {[student |-> u, slot |-> s, available |-> TRUE] : u \in {"a", "b"}, s \in {1, 2}},
     curations |-> curations,
     pres      |-> pres,
     att       |-> {}]

Scheduled == {[group |-> 1, slot |-> 2, round |-> 1, status |-> SCHEDULED]}

Deselected == {[group |-> 2, round |-> 1, included |-> FALSE, pin |-> NoSlot, override |-> FALSE]}

MCDatabases ==
    {Snapshot(ba, {}, Scheduled) : ba \in BOOLEAN} \cup {Snapshot(FALSE, Deselected, Scheduled)}
=============================================================================
