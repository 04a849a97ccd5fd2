--------------------------- MODULE Scheduler_proofs ---------------------------
(***************************************************************************)
(* Theorems about Scheduler, for every set of groups, slots and calls.     *)
(***************************************************************************)
EXTENDS Scheduler, Assign_proofs

\* A call has at most one row of `pinned` for a group: `pinned` is a dict.
\* What the loops preserve of it is that decided and waiting groups are apart.
Apart ==
    /\ pins_left \cap assignments = {}
    /\ \A a \in assignments : a.group \notin free_left
    /\ Rejected \cap free_left = {}

\* The loop over the pins ends before the loop over the free groups begins.
PinsFirst ==
    /\ pins_left # {} => assignments \subseteq call.pinned /\ unplaced = {}
    /\ call.pinned \subseteq pins_left \cup assignments
    /\ Rejected \subseteq FreeGroups

\* The inductive invariant.
IInv ==
    /\ TypeOK
    /\ IsFiniteSet(assignments)
    /\ Apart
    /\ PinsFirst
    /\ OnlyWhereAllowed
    /\ DecidedOnce
    /\ CounterExact
    /\ CapacityRespected

-----------------------------------------------------------------------------

LEMMA InitIInv == Init => IInv
<1> SUFFICES ASSUME Init PROVE IInv
  OBVIOUS
<1>1. IsCall(call)
  BY CallsAssumption DEF Init
<1>2. TypeOK
  BY <1>1 DEF Init, TypeOK, IsCall, Row, FreeGroups
<1>3. IsFiniteSet(assignments)
  BY FS_EmptySet DEF Init
<1>4. Apart /\ PinsFirst /\ OnlyWhereAllowed /\ DecidedOnce
  BY DEF Init, Apart, PinsFirst, OnlyWhereAllowed, DecidedOnce, Assigned, Rejected
<1>5. \A s \in call.slots : Occupants(s) = {}
  BY DEF Init, Occupants
<1>6. CounterExact
  <2>1. Cardinality({}) = 0
    BY FS_EmptySet
  <2> SUFFICES ASSUME NEW s \in call.slots
               PROVE  remaining[s] = call.capacity[s] - Cardinality(Occupants(s))
    BY DEF CounterExact
  <2>2. Cardinality(Occupants(s)) = 0
    BY <1>5, <2>1
  <2>3. remaining[s] = call.capacity[s] /\ call.capacity[s] \in Int
    BY <1>1 DEF Init, IsCall
  <2> QED BY <2>2, <2>3
<1>7. CapacityRespected
  BY <1>5 DEF CapacityRespected
<1> QED BY <1>2, <1>3, <1>4, <1>6, <1>7 DEF IInv

\* What both placing actions do to the counters, given the row they add.
LEMMA PlacingKeepsCounters ==
    ASSUME IInv, NEW r \in Row, r \notin assignments, r.slot \in call.slots,
           call' = call, assignments' = assignments \cup {r},
           remaining' = [remaining EXCEPT ![r.slot] = @ - 1]
    PROVE  /\ IsFiniteSet(assignments')
           /\ CounterExact'
           /\ \A s \in call.slots : s # r.slot => Occupants(s)' = Occupants(s)
           /\ Occupants(r.slot)' = Occupants(r.slot) \cup {r}
           /\ Cardinality(Occupants(r.slot)') = Cardinality(Occupants(r.slot)) + 1
           /\ Cardinality(Occupants(r.slot)) \in Nat
<1>1. IsFiniteSet(assignments')
  BY FS_AddElement DEF IInv
<1>2. \A s : /\ Cardinality(Occupants(s)) \in Nat
             /\ Occupants(s)' = IF r.slot = s THEN Occupants(s) \cup {r} ELSE Occupants(s)
             /\ Cardinality(Occupants(s)') = IF r.slot = s THEN Cardinality(Occupants(s)) + 1
                                             ELSE Cardinality(Occupants(s))
  <2> SUFFICES ASSUME NEW s
               PROVE  /\ Cardinality(Occupants(s)) \in Nat
                      /\ Occupants(s)' = IF r.slot = s THEN Occupants(s) \cup {r} ELSE Occupants(s)
                      /\ Cardinality(Occupants(s)') = IF r.slot = s THEN Cardinality(Occupants(s)) + 1
                                                      ELSE Cardinality(Occupants(s))
    OBVIOUS
  <2>1. IsFiniteSet(Occupants(s))
    BY FS_Subset DEF IInv, Occupants
  <2>2. Occupants(s)' = IF r.slot = s THEN Occupants(s) \cup {r} ELSE Occupants(s)
    BY DEF Occupants
  <2>3. r \notin Occupants(s)
    BY DEF Occupants
  <2>4. Cardinality(Occupants(s) \cup {r}) = Cardinality(Occupants(s)) + 1
    BY <2>1, <2>3, FS_AddElement
  <2>5. Cardinality(Occupants(s)) \in Nat
    BY <2>1, FS_CardinalityType
  <2>6. CASE r.slot = s
    BY <2>2, <2>4, <2>5, <2>6
  <2>7. CASE r.slot # s
    BY <2>2, <2>5, <2>7
  <2> QED BY <2>6, <2>7
<1>3. CounterExact'
  <2> SUFFICES ASSUME NEW s \in call.slots
               PROVE  remaining'[s] = call.capacity[s] - Cardinality(Occupants(s)')
    BY DEF CounterExact
  <2>1. remaining \in [call.slots -> Int] /\ call.capacity[s] \in Int
    BY DEF IInv, TypeOK, IsCall
  <2>2. remaining[s] = call.capacity[s] - Cardinality(Occupants(s))
    BY DEF IInv, CounterExact
  <2>3. CASE s = r.slot
    BY <2>1, <2>2, <2>3, <1>2
  <2>4. CASE s # r.slot
    BY <2>1, <2>2, <2>4, <1>2
  <2> QED BY <2>3, <2>4
<1> QED BY <1>1, <1>2, <1>3

-----------------------------------------------------------------------------

LEMMA PlacePinnedStep ==
    ASSUME IInv, NEW p \in call.pinned, PlacePinned(p)
    PROVE  IInv'
<1> USE DEF PlacePinned
<1>1. p \in Row /\ p \notin assignments /\ p.slot \in call.slots /\ p \in pins_left
  BY DEF IInv, TypeOK, IsCall, Apart
<1>2. /\ \A a, b \in call.pinned : a.group = b.group => a = b
      /\ assignments \subseteq call.pinned /\ unplaced = {}
  BY <1>1 DEF IInv, TypeOK, IsCall, PinsFirst
<1>3. /\ IsFiniteSet(assignments') /\ CounterExact'
      /\ \A s \in call.slots : s # p.slot => Occupants(s)' = Occupants(s)
      /\ Occupants(p.slot)' = Occupants(p.slot) \cup {p}
  BY <1>1, PlacingKeepsCounters
<1>4. TypeOK'
  <2>1. remaining' \in [call.slots -> Int]
    BY <1>1 DEF IInv, TypeOK
  <2> QED BY <1>1, <2>1 DEF IInv, TypeOK, FreeGroups, Pinned
<1>5. Apart'
  BY <1>1, <1>2 DEF IInv, TypeOK, Apart, Rejected, FreeGroups, Pinned
<1>6. PinsFirst'
  BY <1>1, <1>2 DEF IInv, PinsFirst, Rejected, FreeGroups, Pinned
<1>7. OnlyWhereAllowed' /\ DecidedOnce'
  <2>1. assignments' \subseteq call'.pinned /\ unplaced' = {}
    BY <1>2
  <2> QED BY <1>2, <2>1 DEF OnlyWhereAllowed, DecidedOnce, Assigned, Rejected
<1>8. CapacityRespected'
  <2>1. \A s : Occupants(s)' \subseteq call'.pinned
    BY <1>2 DEF Occupants
  <2> QED BY <2>1 DEF CapacityRespected
<1> QED BY <1>3, <1>4, <1>5, <1>6, <1>7, <1>8 DEF IInv

LEMMA PinFailsStep ==
    ASSUME IInv, NEW p \in call.pinned, PinFails(p)
    PROVE  IInv'
  BY DEF PinFails, IInv, TypeOK, Apart, PinsFirst, OnlyWhereAllowed, DecidedOnce,
         CounterExact, CapacityRespected, Occupants, Assigned, Rejected, FreeGroups, Pinned

LEMMA PlaceFreeStep ==
    ASSUME IInv, NEW g \in call.groups, NEW s \in call.slots, PlaceFree(g, s)
    PROVE  IInv'
<1> DEFINE r == [group |-> g, slot |-> s]
<1> USE DEF PlaceFree, InOrder
<1>1. r \in Row /\ r \notin assignments /\ g \in FreeGroups /\ s \in call.feasible[g]
      /\ remaining[s] > 0
  BY DEF IInv, TypeOK, IsCall, Row, Apart, Best, Candidates
<1>2. /\ IsFiniteSet(assignments') /\ CounterExact'
      /\ \A t \in call.slots : t # s => Occupants(t)' = Occupants(t)
      /\ Cardinality(Occupants(s)') = Cardinality(Occupants(s)) + 1
      /\ Cardinality(Occupants(s)) \in Nat
  <2>1. r.slot = s
    OBVIOUS
  <2> QED BY <1>1, <2>1, PlacingKeepsCounters
<1>3. TypeOK'
  <2>1. remaining' \in [call.slots -> Int]
    BY DEF IInv, TypeOK
  <2> QED BY <1>1, <2>1 DEF IInv, TypeOK, FreeGroups, Pinned
<1>4. Apart'
  BY <1>1 DEF IInv, TypeOK, Apart, Rejected
<1>5. PinsFirst'
  BY <1>1 DEF IInv, PinsFirst, Rejected, FreeGroups, Pinned
<1>6. OnlyWhereAllowed'
  BY <1>1 DEF IInv, OnlyWhereAllowed, FreeGroups, Pinned
<1>7. DecidedOnce'
  BY <1>1 DEF IInv, DecidedOnce, Apart, Assigned, Rejected
<1>8. CapacityRespected'
  <2> SUFFICES ASSUME NEW t \in call.slots
               PROVE  \/ Cardinality(Occupants(t)') =< call.capacity[t]
                      \/ Occupants(t)' \subseteq call.pinned
    BY DEF CapacityRespected
  <2>1. CASE t = s
    <3>1. remaining[s] = call.capacity[s] - Cardinality(Occupants(s))
          /\ call.capacity[s] \in Int
      BY DEF IInv, CounterExact, TypeOK, IsCall
    <3> QED BY <1>1, <1>2, <2>1, <3>1
  <2>2. CASE t # s
    BY <1>2, <2>2 DEF IInv, CapacityRespected
  <2> QED BY <2>1, <2>2
<1> QED BY <1>2, <1>3, <1>4, <1>5, <1>6, <1>7, <1>8 DEF IInv

\* Leaving a group unplaced adds it, and no other, to the rejected groups.
LEMMA RejectedGrows ==
    ASSUME NEW g, LeaveUnplaced(g)
    PROVE  Rejected' = Rejected \cup {g}
<1> DEFINE u == [group |-> g, reason |-> Reason(g)]
<1>1. unplaced' = unplaced \cup {u}
  BY DEF LeaveUnplaced
<1>2. u.group = g
  OBVIOUS
<1> HIDE DEF u
<1> QED BY <1>1, <1>2 DEF Rejected

LEMMA LeaveUnplacedStep ==
    ASSUME IInv, NEW g \in call.groups, LeaveUnplaced(g)
    PROVE  IInv'
<1> DEFINE u == [group |-> g, reason |-> Reason(g)]
<1> USE DEF LeaveUnplaced, InOrder
<1>1. /\ g \in Groups /\ g \in FreeGroups
      /\ u \in [group : Groups, reason : {NONE_FEASIBLE, ALL_FULL}]
      /\ Rejected' = Rejected \cup {g}
  <2>1. g \in Groups /\ g \in FreeGroups
    BY DEF IInv, TypeOK, IsCall
  <2>2. u \in [group : Groups, reason : {NONE_FEASIBLE, ALL_FULL}]
    BY <2>1 DEF Reason
  <2>3. Rejected' = Rejected \cup {g}
    BY RejectedGrows
  <2> QED BY <2>1, <2>2, <2>3
<1>2. TypeOK'
  BY <1>1 DEF IInv, TypeOK, FreeGroups, Pinned
<1>3. Apart' /\ PinsFirst'
  BY <1>1 DEF IInv, TypeOK, Apart, PinsFirst, FreeGroups, Pinned
<1>4. OnlyWhereAllowed' /\ DecidedOnce'
  BY <1>1 DEF IInv, OnlyWhereAllowed, DecidedOnce, Apart, Assigned, Pinned
<1>5. IsFiniteSet(assignments') /\ CounterExact' /\ CapacityRespected'
  BY DEF IInv, CounterExact, CapacityRespected, Occupants
<1> QED BY <1>2, <1>3, <1>4, <1>5 DEF IInv

LEMMA StutterStep == IInv /\ UNCHANGED vars => IInv'
  BY DEF vars, IInv, TypeOK, Apart, PinsFirst, OnlyWhereAllowed, DecidedOnce,
         CounterExact, CapacityRespected, Occupants, Assigned, Rejected, FreeGroups, Pinned

\* The invariant is inductive: every iteration of both loops keeps it.
THEOREM Inductive == Spec => []IInv
<1>1. Init => IInv
  BY InitIInv
<1>2. IInv /\ [Next]_vars => IInv'
  <2> SUFFICES ASSUME IInv, [Next]_vars PROVE IInv'
    OBVIOUS
  <2>1. ASSUME NEW p \in call.pinned, PlacePinned(p) PROVE IInv'
    BY <2>1, PlacePinnedStep
  <2>2. ASSUME NEW p \in call.pinned, PinFails(p) PROVE IInv'
    BY <2>2, PinFailsStep
  <2>3. ASSUME NEW g \in call.groups, LeaveUnplaced(g) PROVE IInv'
    BY <2>3, LeaveUnplacedStep
  <2>4. ASSUME NEW g \in call.groups, NEW s \in call.slots, PlaceFree(g, s) PROVE IInv'
    BY <2>4, PlaceFreeStep
  <2>5. CASE UNCHANGED vars
    BY <2>5, StutterStep
  <2> QED BY <2>1, <2>2, <2>3, <2>4, <2>5 DEF Next
<1> QED BY <1>1, <1>2, PTL DEF Spec

\* The types hold in every reachable state.
THEOREM TypeCorrect == Spec => []TypeOK
  BY Inductive, PTL DEF IInv

\* The counter of the loop and the schedule it builds never disagree.
THEOREM CountersAreExact == Spec => []CounterExact
  BY Inductive, PTL DEF IInv

\* Only pins overfill a slot, for every call.
THEOREM CapacityIsRespected == Spec => []CapacityRespected
  BY Inductive, PTL DEF IInv

\* No group is placed twice, and none is both placed and reported.
THEOREM EachDecidedOnce == Spec => []DecidedOnce
  BY Inductive, PTL DEF IInv

\* A group is only ever on its pin, or on a slot that is feasible for it.
THEOREM OnlyAllowedSlots == Spec => []OnlyWhereAllowed
  BY Inductive, PTL DEF IInv

-----------------------------------------------------------------------------
(* Why a group is left unplaced.                                           *)

\* Whoever got a slot in the second loop comes before everyone still waiting.
PlacedInOrder ==
    \A a \in assignments : \A h \in free_left :
        a \in call.pinned \/ Earlier(call.feasible, a.group, h)

\* A slot is full for the counter exactly when the schedule fills it.
LEMMA FullIsCounted ==
    ASSUME IInv, NEW s \in call.slots
    PROVE  remaining[s] > 0 <=> Cardinality(Occupants(s)) < call.capacity[s]
<1>1. /\ remaining[s] = call.capacity[s] - Cardinality(Occupants(s))
      /\ call.capacity[s] \in Int
  BY DEF IInv, CounterExact, TypeOK, IsCall
<1>2. IsFiniteSet(Occupants(s))
  BY FS_Subset DEF IInv, Occupants
<1>3. Cardinality(Occupants(s)) \in Nat
  BY <1>2, FS_CardinalityType
<1> QED BY <1>1, <1>3

LEMMA JustifiedInit == Init => UnplacedJustified /\ PlacedInOrder
  BY DEF Init, UnplacedJustified, PlacedInOrder

LEMMA JustifiedPin ==
    ASSUME IInv, UnplacedJustified, PlacedInOrder, NEW p \in call.pinned, PlacePinned(p)
    PROVE  (UnplacedJustified /\ PlacedInOrder)'
<1>1. unplaced' = {} /\ call' = call
  BY DEF PlacePinned, IInv, PinsFirst
<1>2. UnplacedJustified'
  BY <1>1 DEF UnplacedJustified
<1>3. PlacedInOrder'
  BY <1>1 DEF PlacePinned, PlacedInOrder
<1> QED BY <1>2, <1>3

LEMMA JustifiedPlace ==
    ASSUME IInv, UnplacedJustified, PlacedInOrder,
           NEW g \in call.groups, NEW s \in call.slots, PlaceFree(g, s)
    PROVE  (UnplacedJustified /\ PlacedInOrder)'
<1>1. PlacedInOrder'
  BY DEF PlaceFree, InOrder, PlacedInOrder
<1>2. UnplacedJustified'
  <2> SUFFICES ASSUME NEW u \in unplaced, NEW t \in call.feasible[u.group]
               PROVE  Occupants(t)' = Occupants(t)
    BY DEF UnplacedJustified, PlaceFree
  <2>1. remaining[s] > 0
    BY DEF PlaceFree, Best, Candidates
  <2>2. t \in call.slots
    BY DEF IInv, TypeOK, IsCall
  <2>3. Cardinality(Occupants(t)) >= call.capacity[t]
    BY DEF UnplacedJustified
  <2>4. call.capacity[t] \in Int /\ Cardinality(Occupants(t)) \in Int
    <3>1. IsFiniteSet(Occupants(t))
      BY FS_Subset DEF IInv, Occupants
    <3> QED BY <2>2, <3>1, FS_CardinalityType DEF IInv, TypeOK, IsCall
  <2>5. t # s
    BY <2>1, <2>2, <2>3, <2>4, FullIsCounted
  <2> QED BY <2>5 DEF PlaceFree, Occupants
<1> QED BY <1>1, <1>2

LEMMA JustifiedLeave ==
    ASSUME IInv, UnplacedJustified, PlacedInOrder,
           NEW g \in call.groups, LeaveUnplaced(g)
    PROVE  (UnplacedJustified /\ PlacedInOrder)'
<1> DEFINE u == [group |-> g, reason |-> Reason(g)]
<1>1. PlacedInOrder'
  BY DEF LeaveUnplaced, PlacedInOrder
<1>2. UnplacedJustified'
  <2>1. (u.reason = NONE_FEASIBLE) = (call.feasible[g] = {})
    BY DEF Reason, NONE_FEASIBLE, ALL_FULL
  <2>2. ASSUME NEW s \in call.feasible[g]
        PROVE  /\ Cardinality(Occupants(s)) >= call.capacity[s]
               /\ \A a \in Occupants(s) :
                     a \in call.pinned \/ Earlier(call.feasible, a.group, g)
    <3>1. s \in call.slots /\ ~ (remaining[s] > 0)
      BY <2>2 DEF LeaveUnplaced, Candidates, IInv, TypeOK, IsCall
    <3>2. call.capacity[s] \in Int /\ Cardinality(Occupants(s)) \in Int
      <4>1. IsFiniteSet(Occupants(s))
        BY FS_Subset DEF IInv, Occupants
      <4> QED BY <3>1, <4>1, FS_CardinalityType DEF IInv, TypeOK, IsCall
    <3>3. Cardinality(Occupants(s)) >= call.capacity[s]
      BY <3>1, <3>2, FullIsCounted
    <3>4. g \in free_left
      BY DEF LeaveUnplaced, InOrder
    <3> QED BY <3>3, <3>4 DEF PlacedInOrder, Occupants
  <2>3. unplaced' = unplaced \cup {u} /\ UNCHANGED <<call, assignments>>
    BY DEF LeaveUnplaced
  <2>4. \A s : Occupants(s)' = Occupants(s)
    BY <2>3 DEF Occupants
  <2>5. u.group = g
    OBVIOUS
  <2> HIDE DEF u
  <2> QED BY <2>1, <2>2, <2>3, <2>4, <2>5 DEF UnplacedJustified
<1> QED BY <1>1, <1>2

\* A group is reported unplaced only when its feasible slots are taken by pins
\* and by groups that are more constrained, and that stays true until the end.
THEOREM UnplacedIsJustified == Spec => []UnplacedJustified
<1>1. IInv /\ UnplacedJustified /\ PlacedInOrder /\ [Next]_vars
        => (UnplacedJustified /\ PlacedInOrder)'
  <2> SUFFICES ASSUME IInv, UnplacedJustified, PlacedInOrder, [Next]_vars
               PROVE  (UnplacedJustified /\ PlacedInOrder)'
    OBVIOUS
  <2>1. ASSUME NEW p \in call.pinned, PlacePinned(p)
        PROVE  (UnplacedJustified /\ PlacedInOrder)'
    BY <2>1, JustifiedPin
  <2>2. ASSUME NEW p \in call.pinned, PinFails(p)
        PROVE  (UnplacedJustified /\ PlacedInOrder)'
    BY <2>2 DEF PinFails, UnplacedJustified, PlacedInOrder, Occupants
  <2>3. ASSUME NEW g \in call.groups, LeaveUnplaced(g)
        PROVE  (UnplacedJustified /\ PlacedInOrder)'
    BY <2>3, JustifiedLeave
  <2>4. ASSUME NEW g \in call.groups, NEW s \in call.slots, PlaceFree(g, s)
        PROVE  (UnplacedJustified /\ PlacedInOrder)'
    BY <2>4, JustifiedPlace
  <2>5. CASE UNCHANGED vars
    BY <2>5 DEF vars, UnplacedJustified, PlacedInOrder, Occupants
  <2> QED BY <2>1, <2>2, <2>3, <2>4, <2>5 DEF Next
<1> QED BY <1>1, JustifiedInit, Inductive, PTL DEF Spec

-----------------------------------------------------------------------------
(* The loops implement the promise: their steps are steps of Placement.    *)

\* A step that takes a group off the free list finds the abstract guard true:
\* every pin is placed and the group is not decided yet.
LEMMA OpenWhenInOrder ==
    ASSUME IInv, NEW g \in call.groups, InOrder(g)
    PROVE  Promise!Open(g)
<1>1. call.pinned \subseteq assignments
  BY DEF IInv, PinsFirst, InOrder
<1>2. g \notin Rejected /\ \A a \in assignments : a.group # g
  BY DEF IInv, Apart, InOrder
<1> QED BY <1>1, <1>2 DEF Promise!Open

\* The cardinality that Placement counts with is the one of this module.
LEMMA SameCardinality == \A S : Promise!Cardinality(S) = Cardinality(S)
  BY DEF Cardinality, Promise!Cardinality

\* Whether the counter says there is room is whether the schedule has room.
LEMMA RoomIsCounted ==
    ASSUME IInv, NEW s \in call.slots
    PROVE  remaining[s] > 0 <=> Promise!HasRoom(s)
  BY FullIsCounted, SameCardinality DEF Promise!HasRoom, Occupants

LEMMA StepRefines ==
    ASSUME IInv, [Next]_vars
    PROVE  [Promise!Next]_(Promise!vars)
<1>1. ASSUME NEW p \in call.pinned, PlacePinned(p) PROVE Promise!Next
  <2>1. p \in call.pinned \ assignments /\ p.slot \in call.slots
    BY <1>1 DEF PlacePinned, IInv, Apart
  <2>2. assignments' = assignments \cup {p} /\ UNCHANGED <<call, Rejected>>
    BY <1>1 DEF PlacePinned, Rejected
  <2>3. Promise!Pin(p)
    BY <2>1, <2>2 DEF Promise!Pin
  <2> QED BY <2>3 DEF Promise!Next
<1>2. ASSUME NEW p \in call.pinned, PinFails(p) PROVE UNCHANGED Promise!vars
  BY <1>2 DEF PinFails, Promise!vars, Rejected
<1>3. ASSUME NEW g \in call.groups, LeaveUnplaced(g) PROVE Promise!Next
  <2>1. Promise!Open(g)
    BY <1>3, OpenWhenInOrder DEF LeaveUnplaced
  <2>2. \A s \in call.feasible[g] : s \in call.slots /\ ~ (remaining[s] > 0)
    BY <1>3 DEF LeaveUnplaced, Candidates, IInv, TypeOK, IsCall
  <2>3. \A s \in call.feasible[g] : ~Promise!HasRoom(s)
    BY <2>2, RoomIsCounted
  <2>4. Rejected' = Rejected \cup {g} /\ UNCHANGED <<call, assignments>>
    BY <1>3, RejectedGrows DEF LeaveUnplaced
  <2>5. Promise!Reject(g)
    BY <2>1, <2>3, <2>4 DEF Promise!Reject
  <2> QED BY <2>5 DEF Promise!Next
<1>4. ASSUME NEW g \in call.groups, NEW s \in call.slots, PlaceFree(g, s)
      PROVE  Promise!Next
  <2>1. Promise!Open(g)
    BY <1>4, OpenWhenInOrder DEF PlaceFree
  <2>2. s \in call.feasible[g] /\ remaining[s] > 0
    BY <1>4 DEF PlaceFree, Best, Candidates
  <2>3. Promise!HasRoom(s)
    BY <2>2, RoomIsCounted
  <2>4. assignments' = assignments \cup {[group |-> g, slot |-> s]}
        /\ UNCHANGED <<call, Rejected>>
    BY <1>4 DEF PlaceFree, Rejected
  <2>5. Promise!Place(g, s)
    BY <2>1, <2>2, <2>3, <2>4 DEF Promise!Place
  <2> QED BY <2>2, <2>5 DEF Promise!Next
<1>5. CASE UNCHANGED vars
  BY <1>5 DEF vars, Promise!vars, Rejected
<1> QED BY <1>1, <1>2, <1>3, <1>4, <1>5 DEF Next

\* The greedy assignment keeps the promise of Placement, for every call.
THEOREM Implements == Spec => ImplementsPlacement
<1>1. Init => Promise!Init
  BY DEF Init, Promise!Init, Rejected
<1>2. IInv /\ [Next]_vars => [Promise!Next]_(Promise!vars)
  BY StepRefines
<1> QED BY <1>1, <1>2, Inductive, PTL DEF Spec, ImplementsPlacement, Promise!Spec

-----------------------------------------------------------------------------
(* The steps do what `assign` as a function of the arguments does.         *)

\* The rows of a schedule.
Rows(placed) == {[group |-> g, slot |-> placed[g]] : g \in DOMAIN placed}

OnSlot(rows, s) == {x \in rows : x.slot = s}

\* The groups the second loop is through with.
Decided == FreeGroups \ free_left

\* What the recursion has when it is through with them.
Loop == After(FreeGroups, call.feasible, FirstState(call.capacity, PinFunction))
Reached == Loop[Decided]

\* The second loop does not start before the first one ends, takes the groups
\* in their order, and has at each turn what the recursion has.
LoopInv ==
    /\ pins_left # {} => Decided = {}
    /\ \A g \in Decided : \A h \in free_left : Earlier(call.feasible, g, h)
    /\ pins_left = {} => assignments = Rows(Reached.placed) /\ remaining = Reached.remaining

\* Rows are pairs of a group and a slot, of which there are finitely many.
LEMMA RowFinite == IsFiniteSet(Row)
<1> DEFINE f == [x \in Groups \X Slots |-> [group |-> x[1], slot |-> x[2]]]
<1>1. IsFiniteSet(Groups \X Slots)
  BY DataAssumption, FS_Product
<1>2. f \in [Groups \X Slots -> Row]
  BY DEF Row
<1>3. \A r \in Row : \E x \in Groups \X Slots : f[x] = r
  <2> SUFFICES ASSUME NEW r \in Row PROVE \E x \in Groups \X Slots : f[x] = r
    OBVIOUS
  <2>1. <<r.group, r.slot>> \in Groups \X Slots /\ r = [group |-> r.group, slot |-> r.slot]
    BY DEF Row
  <2> QED BY <2>1
<1>4. f \in Surjection(Groups \X Slots, Row)
  BY <1>2, <1>3 DEF Surjection
<1> QED BY <1>1, <1>4, FS_Surjection

\* The order of the loop is one of numbers.
LEMMA CallCountable ==
    ASSUME IsCall(call)
    PROVE  IsFiniteSet(FreeGroups) /\ Countable(call.feasible, FreeGroups)
<1>1. FreeGroups \subseteq Groups
  BY DEF FreeGroups, IsCall
<1>2. IsFiniteSet(FreeGroups)
  BY <1>1, DataAssumption, FS_Subset
<1>3. ASSUME NEW g \in FreeGroups PROVE Cardinality(call.feasible[g]) \in Nat
  <2>1. call.feasible[g] \subseteq Slots
    BY <1>1 DEF IsCall
  <2>2. IsFiniteSet(call.feasible[g])
    BY <2>1, DataAssumption, FS_Subset
  <2> QED BY <2>2, FS_CardinalityType
<1> QED BY <1>1, <1>2, <1>3, DataAssumption DEF Countable

\* Its equations for the arguments of a call.
LEMMA CallUnfolds ==
    ASSUME IsCall(call)
    PROVE  /\ Loop[{}] = FirstState(call.capacity, PinFunction)
           /\ \A S \in SUBSET FreeGroups : S # {} =>
                 Loop[S] = PlaceNext(call.feasible, Loop[S \ {LastOf(call.feasible, S)}],
                                     LastOf(call.feasible, S))
<1> SUFFICES ASSUME NEW F, F = FreeGroups, NEW f, f = call.feasible,
                    NEW start, start = FirstState(call.capacity, PinFunction),
                    NEW a, a = After(F, f, start)
             PROVE  /\ a[{}] = start
                    /\ \A S \in SUBSET F : S # {} =>
                          a[S] = PlaceNext(f, a[S \ {LastOf(f, S)}], LastOf(f, S))
  BY DEF Loop
<1>1. IsFiniteSet(F) /\ Countable(f, F)
  BY CallCountable
<1>2. \A S \in SUBSET F :
         After(F, f, start)[S] =
            IF S = {} THEN start
            ELSE PlaceNext(f, After(F, f, start)[S \ {LastOf(f, S)}], LastOf(f, S))
  BY <1>1, AfterUnfolds
<1>3. \A S \in SUBSET F :
         a[S] = IF S = {} THEN start
                ELSE PlaceNext(f, a[S \ {LastOf(f, S)}], LastOf(f, S))
  BY <1>2
<1> QED BY <1>3

\* The pins as a function, and the capacities they leave.
LEMMA PinsAsFunction ==
    ASSUME IsCall(call)
    PROVE  /\ Rows(PinFunction) = call.pinned /\ DOMAIN PinFunction = Pinned
           /\ DOMAIN AfterPins(call.capacity, PinFunction) = call.slots
           /\ \A s \in call.slots :
                 AfterPins(call.capacity, PinFunction)[s] =
                    call.capacity[s] - Cardinality(OnSlot(call.pinned, s))
<1>1. /\ call.pinned \subseteq Row /\ IsFiniteSet(call.pinned) /\ DOMAIN call.capacity = call.slots
      /\ \A a, b \in call.pinned : a.group = b.group => a = b
  <2>1. IsFiniteSet(Row)
    BY RowFinite
  <2> QED BY <2>1, FS_Subset DEF IsCall
<1>2. DOMAIN PinFunction = Pinned
  BY DEF PinFunction
<1>3. \A p \in call.pinned : p.group \in Pinned /\ PinFunction[p.group] = p.slot
  <2> SUFFICES ASSUME NEW p \in call.pinned
               PROVE  p.group \in Pinned /\ PinFunction[p.group] = p.slot
    OBVIOUS
  <2>1. p.group \in Pinned
    BY DEF Pinned
  <2>2. (CHOOSE q \in call.pinned : q.group = p.group) = p
    BY <1>1
  <2> QED BY <2>1, <2>2 DEF PinFunction
<1>4. \A g \in Pinned : \E p \in call.pinned : p.group = g
  BY DEF Pinned
<1>5. \A p \in call.pinned : p = [group |-> p.group, slot |-> p.slot]
  BY <1>1 DEF Row
<1>6. Rows(PinFunction) = call.pinned
  <2>1. ASSUME NEW p \in call.pinned PROVE p \in Rows(PinFunction)
    BY <1>2, <1>3, <1>5 DEF Rows
  <2>2. ASSUME NEW x \in Rows(PinFunction) PROVE x \in call.pinned
    <3>1. PICK g \in Pinned : x = [group |-> g, slot |-> PinFunction[g]]
      BY <1>2 DEF Rows
    <3>2. PICK p \in call.pinned : p.group = g
      BY <1>4
    <3>3. x = [group |-> p.group, slot |-> p.slot]
      BY <1>3, <3>1, <3>2
    <3> QED BY <1>5, <3>3
  <2> QED BY <2>1, <2>2
<1>7. ASSUME NEW s \in call.slots
      PROVE  AfterPins(call.capacity, PinFunction)[s] =
                call.capacity[s] - Cardinality(OnSlot(call.pinned, s))
  <2> DEFINE P == OnSlot(call.pinned, s)
             G == {g \in DOMAIN PinFunction : PinFunction[g] = s}
             f == [p \in P |-> p.group]
  <2>0. P \subseteq call.pinned /\ \A p \in call.pinned : p \in P <=> p.slot = s
    BY DEF OnSlot
  <2> HIDE DEF P
  <2>1. IsFiniteSet(P)
    BY <1>1, <2>0, FS_Subset
  <2>2. \A p \in P : p.group \in G
    BY <1>2, <1>3, <2>0
  <2>3. f \in Injection(P, G)
    BY <1>1, <2>0, <2>2 DEF Injection, IsInjective
  <2>4. \A g \in G : \E p \in P : f[p] = g
    BY <1>2, <1>3, <1>4, <2>0
  <2>5. f \in Bijection(P, G)
    <3>1. f \in [P -> G]
      BY <2>2
    <3> HIDE DEF P, G, f
    <3> QED BY <2>3, <2>4, <3>1 DEF Bijection, Surjection
  <2>6. Cardinality(P) = Cardinality(G)
    <3> HIDE DEF P, G, f
    <3> QED BY <2>1, <2>5, FS_Bijection DEF ExistsBijection
  <2> QED BY <1>1, <2>6 DEF AfterPins, P
<1>8. DOMAIN AfterPins(call.capacity, PinFunction) = call.slots
  BY <1>1 DEF AfterPins
<1> QED BY <1>2, <1>6, <1>7, <1>8

\* Nothing is decided and the pins are placed: the recursion starts there.
LEMMA StartReached ==
    ASSUME IsCall(call), NEW a, a = call.pinned, NEW r \in [call.slots -> Int],
           \A s \in call.slots :
              r[s] = call.capacity[s] - Cardinality(OnSlot(a, s)),
           NEW st, st = Loop[{}]
    PROVE  a = Rows(st.placed) /\ r = st.remaining
<1>1. st = FirstState(call.capacity, PinFunction)
  BY CallUnfolds
<1>2. st.placed = PinFunction /\ st.remaining = AfterPins(call.capacity, PinFunction)
  BY <1>1 DEF FirstState
<1>3. r = st.remaining
  <2> DEFINE q == AfterPins(call.capacity, PinFunction)
  <2>1. q = [s \in DOMAIN q |-> q[s]]
    BY DEF AfterPins
  <2>2. DOMAIN q = call.slots /\ \A s \in call.slots : q[s] = r[s]
    BY PinsAsFunction
  <2>3. r = [s \in call.slots |-> r[s]]
    OBVIOUS
  <2> HIDE DEF q
  <2>4. r = q
    BY <2>1, <2>2, <2>3
  <2> QED BY <1>2, <2>4 DEF q
<1> QED BY <1>2, <1>3, PinsAsFunction

LEMMA LoopInit ==
    ASSUME Init, IInv PROVE LoopInv
<1>1. IsCall(call) /\ Decided = {} /\ remaining \in [call.slots -> Int] /\ assignments = {}
  BY DEF Init, IInv, TypeOK, Decided
<1>2. pins_left = call.pinned
  BY DEF Init
<1>3. \A s \in call.slots :
         remaining[s] = call.capacity[s] - Cardinality(OnSlot(assignments, s))
  BY DEF IInv, CounterExact, Occupants, OnSlot
<1>4. Reached = Loop[{}]
  BY <1>1 DEF Reached
<1>5. pins_left = {} => assignments = Rows(Reached.placed) /\ remaining = Reached.remaining
  <2> SUFFICES ASSUME pins_left = {}
               PROVE  assignments = Rows(Reached.placed) /\ remaining = Reached.remaining
    OBVIOUS
  <2> HIDE DEF Reached
  <2>1. assignments = call.pinned
    BY <1>1, <1>2
  <2> QED BY <1>1, <1>3, <1>4, <2>1, StartReached
<1> QED BY <1>1, <1>5 DEF LoopInv

\* The last pin is placed: the schedule is what was asked to be pinned.
LEMMA LoopPin ==
    ASSUME IInv, IInv', LoopInv, NEW p \in call.pinned, PlacePinned(p)
    PROVE  LoopInv'
<1>1. /\ call' = call /\ free_left' = free_left /\ p \in pins_left
      /\ pins_left' = pins_left \ {p} /\ assignments' = assignments \cup {p}
  BY DEF PlacePinned
<1>2. Decided' = {} /\ Decided = {} /\ FreeGroups' = FreeGroups /\ PinFunction' = PinFunction
  BY <1>1 DEF LoopInv, Decided, FreeGroups, Pinned, PinFunction
<1>3. ASSUME pins_left' = {}
      PROVE  assignments' = Rows(Reached'.placed) /\ remaining' = Reached'.remaining
  <2>1. assignments' = call.pinned
    BY <1>1, <1>3 DEF IInv, PinsFirst
  <2>2. IsCall(call) /\ remaining' \in [call.slots -> Int]
    BY <1>1 DEF IInv, TypeOK
  <2>3. \A s \in call.slots :
           remaining'[s] = call.capacity[s] - Cardinality(OnSlot(assignments', s))
    BY <1>1 DEF IInv, CounterExact, Occupants, OnSlot
  <2>4. Reached' = Loop[{}]
    BY <1>1, <1>2 DEF Reached, Loop
  <2> QED BY <2>1, <2>2, <2>3, <2>4, StartReached
<1> QED BY <1>2, <1>3 DEF LoopInv

\* A turn of the second loop: the group is the last of those decided now, and
\* what the recursion does with it comes on top of what it had.
LEMMA TurnReached ==
    ASSUME IInv, LoopInv, NEW g \in call.groups, InOrder(g), call' = call,
           free_left' = free_left \ {g}
    PROVE  /\ Reached' = PlaceNext(call.feasible, Reached, g)
           /\ \A h \in Decided' : \A k \in free_left' : Earlier(call.feasible, h, k)
           /\ assignments = Rows(Reached.placed) /\ remaining = Reached.remaining
           /\ g \notin DOMAIN Reached.placed
<1>1. /\ g \in free_left /\ pins_left = {} /\ free_left \subseteq FreeGroups /\ IsCall(call)
      /\ \A h \in free_left \ {g} : Earlier(call.feasible, g, h)
  BY DEF InOrder, IInv, TypeOK
<1>2. FreeGroups' = FreeGroups /\ PinFunction' = PinFunction
  BY DEF FreeGroups, Pinned, PinFunction
<1>3. Decided' = Decided \cup {g} /\ g \notin Decided /\ Decided' \subseteq FreeGroups
  BY <1>1, <1>2 DEF Decided
<1>4. \A h \in Decided' \ {g} : Earlier(call.feasible, h, g)
  BY <1>1, <1>3 DEF LoopInv
<1>5. LastOf(call.feasible, Decided') = g
  <2> DEFINE D == Decided'
  <2>1. g \in D /\ D \in SUBSET FreeGroups /\ \A h \in D \ {g} : Earlier(call.feasible, h, g)
    BY <1>3, <1>4
  <2> HIDE DEF D
  <2>2. LastOf(call.feasible, D) = g
    BY <1>1, <2>1, CallCountable, LastIsUnique
  <2> QED BY <2>2 DEF D
<1>6. Reached' = PlaceNext(call.feasible, Reached, g)
  <2> DEFINE D == Decided'
  <2>1. D # {} /\ D \in SUBSET FreeGroups /\ D \ {g} = Decided
    BY <1>3
  <2>2. Reached' = Loop[D] /\ Reached = Loop[Decided]
    BY <1>2 DEF Reached, Loop
  <2>3. LastOf(call.feasible, D) = g
    BY <1>5
  <2> HIDE DEF D
  <2>4. Loop[D] = PlaceNext(call.feasible, Loop[D \ {LastOf(call.feasible, D)}], LastOf(call.feasible, D))
    BY <1>1, <2>1, CallUnfolds
  <2> QED BY <2>1, <2>2, <2>3, <2>4
<1>7. \A h \in Decided' : \A k \in free_left' : Earlier(call.feasible, h, k)
  BY <1>1, <1>3 DEF LoopInv
<1>8. assignments = Rows(Reached.placed) /\ remaining = Reached.remaining
  BY <1>1 DEF LoopInv
<1>9. g \notin DOMAIN Reached.placed
  <2> SUFFICES ASSUME g \in DOMAIN Reached.placed PROVE FALSE
    OBVIOUS
  <2>1. [group |-> g, slot |-> Reached.placed[g]] \in assignments
    BY <1>8 DEF Rows
  <2> QED BY <1>1, <2>1 DEF IInv, Apart
<1> QED BY <1>6, <1>7, <1>8, <1>9

LEMMA LoopPlace ==
    ASSUME IInv, LoopInv, NEW g \in call.groups, NEW s \in call.slots, PlaceFree(g, s)
    PROVE  LoopInv'
<1> DEFINE C == Candidates(remaining, call.feasible[g])
           st == Reached
<1>1. /\ InOrder(g) /\ call' = call /\ free_left' = free_left \ {g} /\ pins_left' = pins_left
      /\ pins_left = {} /\ assignments' = assignments \cup {[group |-> g, slot |-> s]}
      /\ remaining' = [remaining EXCEPT ![s] = @ - 1]
  BY DEF PlaceFree, InOrder
<1>2. /\ Reached' = PlaceNext(call.feasible, st, g)
      /\ \A h \in Decided' : \A k \in free_left' : Earlier(call.feasible, h, k)
      /\ assignments = Rows(st.placed) /\ remaining = st.remaining
      /\ g \notin DOMAIN st.placed
  BY <1>1, TurnReached
<1>3. s \in C /\ (CHOOSE c \in C : Best(remaining, C, c)) = s
  <2>1. Best(remaining, C, s) /\ s \in C
    BY DEF PlaceFree, Best
  <2>2. C \in SUBSET call.slots /\ Ranked(call.slots) /\ \A t \in call.slots : remaining[t] \in Int
    BY <1>1, DataAssumption DEF Candidates, IInv, TypeOK, IsCall, Ranked
  <2> HIDE DEF C
  <2>3. \A c \in C : Best(remaining, C, c) => c = s
    BY <2>1, <2>2, BestIsUnique
  <2> QED BY <2>1, <2>3
<1> HIDE DEF st
<1>4. Reached' = [remaining |-> [remaining EXCEPT ![s] = @ - 1],
                  placed |-> [h \in DOMAIN st.placed \cup {g} |->
                                IF h = g THEN s ELSE st.placed[h]]]
  <2> DEFINE D == Candidates(st.remaining, call.feasible[g])
             t == CHOOSE c \in D : Best(st.remaining, D, c)
  <2>1. D = C
    BY <1>2
  <2>2. t = s /\ D # {}
    BY <1>2, <1>3, <2>1
  <2>3. PlaceNext(call.feasible, st, g) =
           IF D = {} THEN st
           ELSE [remaining |-> [st.remaining EXCEPT ![t] = @ - 1],
                 placed |-> [h \in DOMAIN st.placed \cup {g} |->
                               IF h = g THEN t ELSE st.placed[h]]]
    BY DEF PlaceNext
  <2> HIDE DEF D, t, C
  <2> QED BY <1>2, <2>2, <2>3
<1>5. assignments' = Rows(Reached'.placed)
  <2> DEFINE f == [h \in DOMAIN st.placed \cup {g} |-> IF h = g THEN s ELSE st.placed[h]]
  <2>1. /\ DOMAIN f = DOMAIN st.placed \cup {g} /\ f[g] = s
        /\ \A h \in DOMAIN st.placed : f[h] = st.placed[h]
    BY <1>2
  <2>2. Reached'.placed = f
    BY <1>4
  <2> HIDE DEF f
  <2>3. Rows(f) = Rows(st.placed) \cup {[group |-> g, slot |-> s]}
    BY <2>1 DEF Rows
  <2> QED BY <1>1, <1>2, <2>2, <2>3
<1>6. remaining' = Reached'.remaining
  BY <1>1, <1>4
<1> QED BY <1>1, <1>2, <1>5, <1>6 DEF LoopInv

LEMMA LoopLeave ==
    ASSUME IInv, LoopInv, NEW g \in call.groups, LeaveUnplaced(g)
    PROVE  LoopInv'
<1>1. /\ InOrder(g) /\ call' = call /\ free_left' = free_left \ {g} /\ pins_left' = pins_left
      /\ pins_left = {} /\ assignments' = assignments /\ remaining' = remaining
      /\ Candidates(remaining, call.feasible[g]) = {}
  BY DEF LeaveUnplaced, InOrder
<1>2. /\ Reached' = PlaceNext(call.feasible, Reached, g)
      /\ \A h \in Decided' : \A k \in free_left' : Earlier(call.feasible, h, k)
      /\ assignments = Rows(Reached.placed) /\ remaining = Reached.remaining
  BY <1>1, TurnReached
<1>3. Reached' = Reached
  BY <1>1, <1>2 DEF PlaceNext
<1> QED BY <1>1, <1>2, <1>3 DEF LoopInv

LEMMA LoopOther ==
    ASSUME LoopInv, UNCHANGED <<call, pins_left, free_left, remaining, assignments>>
    PROVE  LoopInv'
  BY DEF LoopInv, Decided, Reached, Loop, FreeGroups, Pinned, PinFunction

\* "Identical inputs always produce identical outputs": whatever order the rows
\* of the pins came in, a call that returns has assigned what `assign`, as a
\* function of the arguments, says.
THEOREM OutputsAreDetermined == Spec => []Deterministic
<1>1. Init /\ IInv => LoopInv
  BY LoopInit
<1>2. IInv /\ IInv' /\ LoopInv /\ [Next]_vars => LoopInv'
  <2> SUFFICES ASSUME IInv, IInv', LoopInv, [Next]_vars PROVE LoopInv'
    OBVIOUS
  <2>1. ASSUME NEW p \in call.pinned, PlacePinned(p) PROVE LoopInv'
    BY <2>1, LoopPin
  <2>2. ASSUME NEW p \in call.pinned, PinFails(p) PROVE LoopInv'
    BY <2>2, LoopOther DEF PinFails
  <2>3. ASSUME NEW g \in call.groups, LeaveUnplaced(g) PROVE LoopInv'
    BY <2>3, LoopLeave
  <2>4. ASSUME NEW g \in call.groups, NEW s \in call.slots, PlaceFree(g, s) PROVE LoopInv'
    BY <2>4, LoopPlace
  <2>5. CASE UNCHANGED vars
    BY <2>5, LoopOther DEF vars
  <2> QED BY <2>1, <2>2, <2>3, <2>4, <2>5 DEF Next
<1>3. IInv /\ LoopInv => Deterministic
  <2> SUFFICES ASSUME IInv, LoopInv, Done, ~failed PROVE
        LET result == assign(call.groups, call.feasible, call.capacity, PinFunction)
        IN  assignments = {[group |-> g, slot |-> result[g]] : g \in DOMAIN result}
    BY DEF Deterministic
  <2>1. pins_left = {} /\ Decided = FreeGroups
    BY DEF Done, Decided
  <2>2. call.groups \ DOMAIN PinFunction = FreeGroups
    BY PinsAsFunction DEF IInv, TypeOK, FreeGroups
  <2>3. assign(call.groups, call.feasible, call.capacity, PinFunction) = Reached.placed
    BY <2>1, <2>2, AssignIsLoop DEF Reached, Loop
  <2> QED BY <2>1, <2>3 DEF LoopInv, Rows
<1> QED BY <1>1, <1>2, <1>3, Inductive, PTL DEF Spec
=============================================================================
