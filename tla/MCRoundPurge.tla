---------------------------- MODULE MCRoundPurge ----------------------------
(***************************************************************************)
(* Instances of AvailabilityForm and RoundPurge: round 1 with slots 1 and  *)
(* 2, round 2 with slot 3, one group of students a and b; in one database  *)
(* they have been marked in slot 1.                                        *)
(***************************************************************************)
EXTENDS RoundPurge, SlotTexts

CONSTANTS
    a, b,           \* the students
    MaxOpened,      \* bound: pages open at the same time
    MaxEdits,       \* bound: admin requests and purges
    MaxPosts        \* bound: submissions

VARIABLES edits, posts

mcVars == <<purgeVars, edits, posts>>

MCInit == PurgeInit /\ edits = 0 /\ posts = 0

OpenPage ==
    /\ \E s \in db.students, r \in db.rounds : OpenForm(s, r)
    /\ Cardinality(opened') =< MaxOpened
    /\ UNCHANGED <<purge, edits, posts>>

Submit ==
    /\ posts < MaxPosts /\ posts' = posts + 1
    /\ \E page \in opened : \E input \in Inputs(page) : SubmitAvailability(page, input)
    /\ UNCHANGED <<purge, edits>>

\* The requests of AdminRequest that change what the form or the purge reads.
RelevantEdit ==
    \/ CreateNewRound
    \/ \E s \in db.slots : DeleteSlot(s)
    \/ \E r \in RoundIds :
         \/ \E c \in Capacities : AddSlot(r, c)
         \/ \E g \in GroupIds, pin \in SlotIds \cup {NoSlot} : CurateGroup(g, r, TRUE, pin, FALSE)
         \/ \E m \in Modes : SetMode(r, m)

EditRequest ==
    /\ edits < MaxEdits /\ edits' = edits + 1
    /\ answer.pc = "idle" /\ RelevantEdit /\ UNCHANGED <<opened, answer>>
    /\ UNCHANGED <<purge, posts>>

PurgeRequest ==
    /\ edits < MaxEdits /\ edits' = edits + 1
    /\ \E r \in db.rounds : StartPurge(r)
    /\ UNCHANGED posts

Process ==
    /\ \/ ((\E s \in answer.todo : Record(s)) \/ Thank \/ FormCrash) /\ UNCHANGED purge
       \/ PurgeStep
    /\ UNCHANGED <<edits, posts>>

MCNext == OpenPage \/ Submit \/ EditRequest \/ PurgeRequest \/ Process

MCSpec == MCInit /\ [][MCNext]_mcVars

-----------------------------------------------------------------------------

MCUsers  == {a, b}
MCGroups == {1}

\* The students differ in nothing.
Alike == Permutations(MCUsers)

Snapshot(mode, curations, att) ==
    [students  |-> {[user_id |-> u, group |-> 1, prev |-> FALSE, assessed |-> FALSE,
                     points |-> 0] : u \in MCUsers},
     groups    |-> MCGroups,
     rounds    |-> {[id |-> 1, mode |-> mode, quorum |-> "all"],
                    [id |-> 2, mode |-> "availability", quorum |-> "all"]},
     slots     |-> {[id |-> 1, round |-> 1, capacity |-> 1],
                    [id |-> 2, round |-> 1, capacity |-> 1],
                    [id |-> 3, round |-> 2, capacity |-> 1]},
     avail     |-> {},
     curations |-> curations,
     pres      |-> {},
     att       |-> att]

Pinned(pin) ==
    {[group |-> 1, round |-> 1, included |-> TRUE, pin |-> pin, override |-> FALSE]}

Marked == {[student |-> u, slot |-> 1, group |-> 1, round |-> 1, status |-> PRESENTED] : u \in MCUsers}

\* No pin, a pin on a slot of the round, a pin on a slot of another round; and
\* a round that was held.
MCDatabases ==
    {Snapshot(mode, curations, {}) : mode \in Modes, curations \in {{}, Pinned(1), Pinned(3)}}
        \cup {Snapshot("availability", {}, Marked)}
=============================================================================
