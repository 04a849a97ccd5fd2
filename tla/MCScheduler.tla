----------------------------- MODULE MCScheduler -----------------------------
(***************************************************************************)
(* Small instances of Scheduler: every call with up to three groups, two   *)
(* slots of the round (9 and 10, which is the first as a text) and a slot  *)
(* of another round (1) to which a group may be pinned.                    *)
(***************************************************************************)
EXTENDS Scheduler, SlotTexts

CONSTANT Capacities

MCGroups == 1..3
MCSlots  == {1, 9, 10}

\* Each group has at most one pin; group 3 may be pinned although it is not
\* in the pool.
PinChoices == {{}} \cup {{[group |-> g, slot |-> s]} : g \in MCGroups, s \in MCSlots}
PinSets ==
    {UNION {f[g] : g \in MCGroups} :
        f \in {f \in [MCGroups -> PinChoices] :
                 \A g \in MCGroups : \A p \in f[g] : p.group = g}}

MCCalls ==
    {[groups |-> gs, slots |-> {9, 10}, feasible |-> fs, capacity |-> cap, pinned |-> pins] :
        gs \in {MCGroups, {1, 2}}, fs \in [MCGroups -> SUBSET {9, 10}],
        cap \in [{9, 10} -> Capacities], pins \in PinSets}
=============================================================================
