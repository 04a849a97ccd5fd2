---------------------------- MODULE MCSolveRound ----------------------------
(***************************************************************************)
(* Instances of SolveRound: two rounds, two groups (1 of students a and b, *)
(* 2 of student c), slot 1 in round 1 and slots 2 and 3, of capacity 1, in *)
(* round 2.  Admins and CLI users make at most MaxRequests requests.       *)
(***************************************************************************)
EXTENDS SolveRound, SlotTexts

CONSTANT MaxRequests    \* bound: edits and solves that are started

VARIABLE requests

mcVars == <<solveVars, requests>>

MCInit == SolveInit /\ requests = 0

Request ==
    /\ requests < MaxRequests /\ requests' = requests + 1
    /\ Edit \/ \E p \in Procs : \E r \in db.rounds : Start(p, r)

MCNext ==
    \/ Request
    \/ UNCHANGED requests /\ \E p \in Procs : SolveStep(p) \/ Crash(p)

MCSpec == MCInit /\ [][MCNext]_mcVars

-----------------------------------------------------------------------------

MCUsers  == {"a", "b", "c"}
MCGroups == {1, 2}

Student(u, g, assessed, points) ==
    [user_id |-> u, group |-> g, prev |-> FALSE, assessed |-> assessed, points |-> points]

\* An answer per student: "yes" and "no" to slot 2, or silence, and
\* whether the student can also come to slot 3.
Answers(u, second, third) ==
    (IF second = "silent" THEN {}
     ELSE {[student |-> u, slot |-> 2, available |-> second = "yes"]})
    \cup {[student |-> u, slot |-> 3, available |-> third]}

Pres(g, s, r, status) == [group |-> g, slot |-> s, round |-> r, status |-> status]

Snapshot(quorum, bAssessed, cPoints, avail, curations, pres) ==
    [students  |-> {Student("a", 1, FALSE, 0), Student("b", 1, bAssessed, 0),
                    Student("c", 2, FALSE, cPoints)},
     groups    |-> MCGroups,
     rounds    |-> {[id |-> 1, mode |-> "availability", quorum |-> "all"],
                    [id |-> 2, mode |-> "availability", quorum |-> quorum]},
     slots     |-> {[id |-> 1, round |-> 1, capacity |-> 1],
                    [id |-> 2, round |-> 2, capacity |-> 1],
                    [id |-> 3, round |-> 2, capacity |-> 1]},
     avail     |-> avail,
     curations |-> curations,
     pres      |-> pres,
     att       |-> {}]

\* What the solver has to tell apart: the quorum, who is due, every answer to
\* slot 2, and what round 1 settled for group 2.
WebDatabases ==
    {Snapshot(q, ba, cp, Answers("a", a2, a3) \cup Answers("b", b2, TRUE)
                            \cup Answers("c", c2, FALSE), {}, prior) :
        q \in Quorums, ba \in BOOLEAN, cp \in {Threshold - 1, Threshold},
        a2 \in {"yes", "no"}, b2 \in {"yes", "no", "silent"}, c2 \in {"yes", "no", "silent"},
        a3 \in BOOLEAN,
        prior \in {{}, {Pres(2, 1, 1, PRESENTED)}, {Pres(2, 1, 1, NO_SHOW)}}}

\* A round that was solved before and can be solved again while admins edit.
CliDatabases ==
    {Snapshot("all", FALSE, 0, Answers("a", "yes", FALSE) \cup Answers("b", "yes", FALSE)
                                  \cup Answers("c", c2, TRUE), {}, prior) :
        c2 \in {"yes", "no"},
        prior \in {{Pres(1, 2, 2, SCHEDULED)}, {Pres(1, 3, 2, PRESENTED), Pres(2, 2, 2, NO_SHOW)}}}
=============================================================================
