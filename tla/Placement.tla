------------------------------ MODULE Placement ------------------------------
(***************************************************************************)
(* What the assignment promises, without counters and without an order:    *)
(* groups with a pin are put on it first; then each other group, in any    *)
(* order, is put on one of its feasible slots that has room, counted from  *)
(* the schedule itself, and is rejected only when none has.  A decision is *)
(* never taken back.                                                       *)
(***************************************************************************)
EXTENDS Integers, FiniteSets

VARIABLES call, placed, rejected

vars == <<call, placed, rejected>>

HasRoom(s) == Cardinality({a \in placed : a.slot = s}) < call.capacity[s]

Open(g) ==
    /\ call.pinned \subseteq placed
    /\ g \in call.groups \ rejected
    /\ \A a \in placed : a.group # g

\* `call` may be any call: what is promised does not depend on where it is from.
Init == placed = {} /\ rejected = {}

Pin(p) ==
    /\ p \in call.pinned \ placed
    /\ p.slot \in call.slots
    /\ placed' = placed \cup {p}
    /\ UNCHANGED <<call, rejected>>

Place(g, s) ==
    /\ Open(g)
    /\ s \in call.feasible[g] /\ HasRoom(s)
    /\ placed' = placed \cup {[group |-> g, slot |-> s]}
    /\ UNCHANGED <<call, rejected>>

Reject(g) ==
    /\ Open(g)
    /\ \A s \in call.feasible[g] : ~HasRoom(s)
    /\ rejected' = rejected \cup {g}
    /\ UNCHANGED <<call, placed>>

Next ==
    \/ \E p \in call.pinned : Pin(p)
    \/ \E g \in call.groups : Reject(g) \/ \E s \in call.feasible[g] : Place(g, s)

Spec == Init /\ [][Next]_vars
=============================================================================
