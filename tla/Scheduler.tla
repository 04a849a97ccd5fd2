------------------------------ MODULE Scheduler ------------------------------
(***************************************************************************)
(* One call of `assign` (src/planer/domain/scheduling.py), step by step:   *)
(* the loop over the pins, the loop over the free groups, and the KeyError *)
(* of a pin on a slot that is not among the capacities.                    *)
(*                                                                         *)
(* `call` holds the arguments and never changes: groups, slots (the keys   *)
(* of slot_capacities), feasible, capacity and pinned, a set of            *)
(* [group, slot] rows with one row per group.  The two results are         *)
(* `assignments`, rows of the same form, and `unplaced`, rows              *)
(* [group, reason]; `remaining` is the counter the code decrements.        *)
(***************************************************************************)
EXTENDS Domain

CONSTANTS
    Groups,     \* ranks of group ids
    Slots,      \* slot ids, those of other rounds included
    Calls       \* the calls considered

VARIABLES
    call,           \* the arguments
    pins_left,      \* what the first loop has still to place
    free_left,      \* what is left of the sorted free_groups
    remaining,      \* remaining: dict[str, int]
    assignments,    \* assignments: dict[str, str]
    unplaced,       \* unplaced: list[tuple[str, str]]
    failed          \* a KeyError has left the function

vars == <<call, pins_left, free_left, remaining, assignments, unplaced, failed>>

NONE_FEASIBLE == "no feasible slots"
ALL_FULL      == "all feasible slots at capacity"

Row == [group : Groups, slot : Slots]

\* What solve_round passes: feasible slots are slots of the round, `pinned`
\* is a dict, and a pinned group need be neither among `groups` nor on a slot
\* of this round.
IsCall(c) ==
    /\ c.groups \subseteq Groups
    /\ c.slots \subseteq Slots
    /\ c.feasible \in [Groups -> SUBSET c.slots]
    /\ c.capacity \in [c.slots -> Int]
    /\ c.pinned \subseteq Row
    /\ \A a, b \in c.pinned : a.group = b.group => a = b

ASSUME DataAssumption ==
    /\ Groups \subseteq Nat /\ IsFiniteSet(Groups)
    /\ IsFiniteSet(Slots) /\ Ranked(Slots)
ASSUME CallsAssumption == \A c \in Calls : IsCall(c)

-----------------------------------------------------------------------------

Pinned   == {p.group : p \in call.pinned}
Assigned == {a.group : a \in assignments}
Rejected == {u.group : u \in unplaced}

\* Mutant: pinned groups are not taken out.
FreeGroups_mutant == call.groups

FreeGroups == call.groups \ Pinned

Occupants(s) == {a \in assignments : a.slot = s}

Done == failed \/ (pins_left = {} /\ free_left = {})

-----------------------------------------------------------------------------

Init ==
    /\ call \in Calls
    /\ pins_left = call.pinned
    /\ free_left = FreeGroups
    /\ remaining = call.capacity
    /\ assignments = {}
    /\ unplaced = {}
    /\ failed = FALSE

\* Mutant: the capacity is not decremented.
PlacePinned_mutant(p) ==
    /\ ~failed
    /\ p \in pins_left /\ p.slot \in call.slots
    /\ pins_left' = pins_left \ {p}
    /\ assignments' = assignments \cup {p}
    /\ UNCHANGED <<call, free_left, remaining, unplaced, failed>>

\* for gid, sid in pinned.items(), in the order the rows came
PlacePinned(p) ==
    /\ ~failed
    /\ p \in pins_left /\ p.slot \in call.slots
    /\ pins_left' = pins_left \ {p}
    /\ assignments' = assignments \cup {p}
    /\ remaining' = [remaining EXCEPT ![p.slot] = @ - 1]
    /\ UNCHANGED <<call, free_left, unplaced, failed>>

\* remaining[sid] -= 1 on a slot that has no capacity entry
PinFails(p) ==
    /\ ~failed
    /\ p \in pins_left /\ p.slot \notin call.slots
    /\ failed' = TRUE
    /\ UNCHANGED <<call, pins_left, free_left, remaining, assignments, unplaced>>

\* Mutant: by id only, the sort key is lost.
InOrder_unsorted_mutant(g) ==
    /\ ~failed /\ pins_left = {}
    /\ g \in free_left
    /\ \A h \in free_left : g =< h

\* Mutant: free groups are not made to wait for the pins.
InOrder_early_mutant(g) ==
    /\ ~failed
    /\ g \in free_left
    /\ \A h \in free_left \ {g} : Earlier(call.feasible, g, h)

\* g is the next element of the sorted free_groups
InOrder(g) ==
    /\ ~failed /\ pins_left = {}
    /\ g \in free_left
    /\ \A h \in free_left \ {g} : Earlier(call.feasible, g, h)

PlaceFree(g, s) ==
    /\ InOrder(g)
    /\ Best(remaining, Candidates(remaining, call.feasible[g]), s)
    /\ free_left' = free_left \ {g}
    /\ assignments' = assignments \cup {[group |-> g, slot |-> s]}
    /\ remaining' = [remaining EXCEPT ![s] = @ - 1]
    /\ UNCHANGED <<call, pins_left, unplaced, failed>>

\* Mutant: one text for both cases.
Reason_mutant(g) == "at capacity"

Reason(g) == IF call.feasible[g] = {} THEN NONE_FEASIBLE ELSE ALL_FULL

\* Mutant: the empty-candidates case covers only groups without feasible slot.
LeaveUnplaced_mutant(g) ==
    /\ InOrder(g)
    /\ call.feasible[g] = {}
    /\ free_left' = free_left \ {g}
    /\ unplaced' = unplaced \cup {[group |-> g, reason |-> Reason(g)]}
    /\ UNCHANGED <<call, pins_left, remaining, assignments, failed>>

LeaveUnplaced(g) ==
    /\ InOrder(g)
    /\ Candidates(remaining, call.feasible[g]) = {}
    /\ free_left' = free_left \ {g}
    /\ unplaced' = unplaced \cup {[group |-> g, reason |-> Reason(g)]}
    /\ UNCHANGED <<call, pins_left, remaining, assignments, failed>>

Next ==
    \/ \E p \in call.pinned : PlacePinned(p) \/ PinFails(p)
    \/ \E g \in call.groups :
          LeaveUnplaced(g) \/ \E s \in call.slots : PlaceFree(g, s)

Spec == Init /\ [][Next]_vars /\ WF_vars(Next)

-----------------------------------------------------------------------------

\* The types of the arguments, the counters and the two results.
TypeOK ==
    /\ IsCall(call)
    /\ pins_left \subseteq call.pinned /\ free_left \subseteq FreeGroups
    /\ remaining \in [call.slots -> Int]
    /\ assignments \subseteq Row
    /\ unplaced \subseteq [group : Groups, reason : {NONE_FEASIBLE, ALL_FULL}]
    /\ failed \in BOOLEAN

\* The counter the loop decrements always equals the capacity minus the groups
\* on the slot: the two pieces of state of `assign` never drift apart, pins on
\* full slots (a negative counter) included.
CounterExact ==
    \A s \in call.slots :
        remaining[s] = call.capacity[s] - Cardinality(Occupants(s))

\* A slot holds more groups than its capacity only by pins: the greedy loop
\* never adds a group to a slot that is full, whatever the pins did before.
CapacityRespected ==
    \A s \in call.slots :
        \/ Cardinality(Occupants(s)) =< call.capacity[s]
        \/ Occupants(s) \subseteq call.pinned

\* Each group is decided at most once, on one slot, and never both placed and
\* reported unplaced.
DecidedOnce ==
    /\ \A a, b \in assignments : a.group = b.group => a = b
    /\ Assigned \cap Rejected = {}

\* A free group only ever sits on one of its feasible slots, and a pinned one
\* only on its pin.
OnlyWhereAllowed ==
    \A a \in assignments :
        a \in call.pinned \/ (a.group \notin Pinned /\ a.slot \in call.feasible[a.group])

\* A group that was left unplaced is justified by the final schedule: each of
\* its feasible slots is full, with pins or with groups that come before it in
\* the order "most constrained first, then id", and the reason names the case.
UnplacedJustified ==
    \A u \in unplaced :
        /\ (u.reason = NONE_FEASIBLE) = (call.feasible[u.group] = {})
        /\ \A s \in call.feasible[u.group] :
              /\ Cardinality(Occupants(s)) >= call.capacity[s]
              /\ \A a \in Occupants(s) :
                    a \in call.pinned \/ Earlier(call.feasible, a.group, u.group)

\* "Identical inputs always produce identical outputs" (scheduling.py:27): a
\* call that returns has assigned exactly what `assign`, as a function of the
\* arguments alone, says, whatever the order of the pins.
PinFunction == [g \in Pinned |-> (CHOOSE p \in call.pinned : p.group = g).slot]
Deterministic ==
    Done /\ ~failed =>
        LET result == assign(call.groups, call.feasible, call.capacity, PinFunction)
        IN  assignments = {[group |-> g, slot |-> result[g]] : g \in DOMAIN result}

\* Every call comes to its end: it raises the KeyError, or every pinned group
\* is placed and every free group is placed or reported.
EventuallyDone ==
    <>(failed \/ (Pinned \subseteq Assigned /\ FreeGroups \subseteq Assigned \cup Rejected))

\* The abstract promise: `assignments` is the schedule, the groups of
\* `unplaced` are the rejected ones.
Promise == INSTANCE Placement WITH placed <- assignments, rejected <- Rejected

\* Every step of the loops is a step of Placement or leaves it unchanged: the
\* counters and the order only restrict what the promise allows.
ImplementsPlacement == Promise!Spec
=============================================================================
