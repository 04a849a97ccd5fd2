---------------------------- MODULE MCAttendance ----------------------------
(***************************************************************************)
(* Instances of Attendance: group 1 of students a and b was scheduled in   *)
(* slot 1 of round 1, with group 2 of student c in some databases; round 2 *)
(* has slot 2.  Everybody said yes to everything.                          *)
(***************************************************************************)
EXTENDS Attendance, SlotTexts

CONSTANTS
    MaxPages,       \* bound: pages open at the same time
    MaxPosts,       \* bound: submissions
    MaxRequests,    \* bound: solves and edits
    SolvedRounds    \* the rounds somebody solves

VARIABLES posts, requests

mcVars == <<attVars, posts, requests>>

MCInit == AttInit /\ posts = 0 /\ requests = 0

OpenPage ==
    /\ \E s \in db.slots : TutorForm(s)
    /\ Cardinality(pages') =< MaxPages
    /\ UNCHANGED <<posts, requests>>

Submit ==
    /\ posts < MaxPosts /\ posts' = posts + 1
    /\ \E page \in pages : \E form \in Forms(page) : TutorSubmit(page, form)
    /\ UNCHANGED requests

SolveRequest ==
    /\ requests < MaxRequests /\ requests' = requests + 1
    /\ \E p \in Procs : \E r \in db.rounds : r.id \in SolvedRounds /\ StartSolve(p, r)
    /\ UNCHANGED posts

EditRequest ==
    /\ requests < MaxRequests /\ requests' = requests + 1
    /\ AttEdit
    /\ UNCHANGED posts

NoCrashNext ==
    \/ OpenPage \/ Submit \/ SolveRequest
    \/ (PostStep \/ Solving) /\ UNCHANGED <<posts, requests>>

MCNext ==
    \/ NoCrashNext \/ EditRequest
    \/ Crashes /\ UNCHANGED <<posts, requests>>

\* With crashes and edits, and without.
MCSpec      == MCInit /\ [][MCNext]_mcVars
NoCrashSpec == MCInit /\ [][NoCrashNext]_mcVars

-----------------------------------------------------------------------------

MCUsers  == {"a", "b", "c"}
MCGroups == {1, 2}

Student(u, g, assessed) ==
    [user_id |-> u, group |-> g, prev |-> FALSE, assessed |-> assessed, points |-> 0]

Snapshot(bAssessed, pres) ==
    [students  |-> {Student("a", 1, FALSE), Student("b", 1, bAssessed), Student("c", 2, FALSE)},
     groups    |-> MCGroups,
     rounds    |-> {[id |-> r, mode |-> "availability", quorum |-> "all"] : r \in {1, 2}},
     slots     |-> {[id |-> 1, round |-> 1, capacity |-> 2],
                    [id |-> 2, round |-> 2, capacity |-> 2]},
     avail     |-> {[student |-> u, slot |-> s, available |-> TRUE] : u \in MCUsers, s \in {1, 2}},
     curations |-> {},
     pres      |-> {[group |-> g, slot |-> 1, round |-> 1, status |-> SCHEDULED] : g \in pres},
     att       |-> {}]

MCDatabases  == {Snapshot(ba, gs) : ba \in BOOLEAN, gs \in {{1}, {1, 2}}}
OneDatabase  == {Snapshot(FALSE, {1})}
=============================================================================
