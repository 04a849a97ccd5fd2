---------------------------- MODULE Assign_proofs ----------------------------
(***************************************************************************)
(* Lemmas about `assign` as a function (Domain), for every set of groups,  *)
(* feasible slots, capacities and pins.  The recursion over sets of groups *)
(* is reduced to what finite sets and the order of the numbers give; what  *)
(* the proofs of Scheduler and SolveRound cite is AssignIsSound.           *)
(***************************************************************************)
EXTENDS Domain, FiniteSetTheorems, WellFoundedInduction, TLAPS

-----------------------------------------------------------------------------
(* Finite sets.                                                            *)

\* A set of numbers that is not empty has a least element.
LEMMA LeastNumber ==
    ASSUME NEW N, N \subseteq Nat, N # {}
    PROVE  \E n \in N : \A k \in N : n =< k
<1>1. PICK x \in N : TRUE
  OBVIOUS
<1>2. PICK n \in N : \A k \in N : ~(<<k, n>> \in OpToRel(<, Nat))
  BY <1>1, NatLessThanWellFounded, WFMin
<1>3. \A k \in N : k \in Nat /\ n \in Nat /\ ~(k < n)
  BY <1>2 DEF OpToRel
<1> QED BY <1>3

\* What holds of a set as soon as it holds of its proper subsets holds of
\* every subset of a finite set.
LEMMA SubsetInduction ==
    ASSUME NEW F, IsFiniteSet(F), NEW Good,
           \A U \in SUBSET F : (\A V \in SUBSET U : V # U => V \in Good) => U \in Good
    PROVE  \A U \in SUBSET F : U \in Good
<1> SUFFICES ASSUME NEW X \in SUBSET F, X \notin Good PROVE FALSE
  OBVIOUS
<1> DEFINE Bad == {U \in SUBSET F : U \notin Good}
           Sizes == {Cardinality(U) : U \in Bad}
<1>1. \A U \in SUBSET F : IsFiniteSet(U) /\ Cardinality(U) \in Nat
  BY FS_Subset, FS_CardinalityType
<1>2. Sizes \subseteq Nat /\ Sizes # {}
  <2>1. X \in Bad
    OBVIOUS
  <2>2. Cardinality(X) \in Sizes
    BY <2>1
  <2>3. Sizes \subseteq Nat
    BY <1>1
  <2> QED BY <2>2, <2>3
<1>0. \A U \in Bad : U \in SUBSET F /\ U \notin Good /\ Cardinality(U) \in Sizes
  OBVIOUS
<1>7. \A U \in SUBSET F : U \notin Good => Cardinality(U) \in Sizes
  OBVIOUS
<1>3. PICK n \in Sizes : \A k \in Sizes : n =< k
  <2> HIDE DEF Sizes
  <2> QED BY <1>2, LeastNumber
<1>4. PICK U \in Bad : n = Cardinality(U)
  BY <1>3
<1> HIDE DEF Bad, Sizes
<1>5. ASSUME NEW V \in SUBSET U, V # U PROVE V \in Good
  <2>1. IsFiniteSet(U) /\ V \in SUBSET F
    BY <1>0, <1>1
  <2>2. Cardinality(V) < Cardinality(U)
    BY <1>1, <1>0, <1>5, FS_Subset
  <2>3. Cardinality(V) \in Nat /\ Cardinality(U) \in Nat
    BY <1>0, <1>1, <2>1
  <2>4. Cardinality(V) \notin Sizes
    BY <1>3, <1>4, <2>2, <2>3
  <2> QED BY <1>7, <2>1, <2>4
<1> QED BY <1>0, <1>4, <1>5

\* The order of the loop: feasible slots can be counted, ids compared.
Countable(feasible, F) ==
    F \subseteq Nat /\ \A g \in F : Cardinality(feasible[g]) \in Nat

LEMMA OrderIsTotal ==
    ASSUME NEW F, NEW f, Countable(f, F)
    PROVE  /\ \A g, h \in F : g # h => Earlier(f, g, h) \/ Earlier(f, h, g)
           /\ \A g, h, k \in F : Earlier(f, g, h) /\ Earlier(f, h, k) => Earlier(f, g, k)
           /\ \A g, h \in F : ~(Earlier(f, g, h) /\ Earlier(f, h, g))
<1> DEFINE c == [g \in F |-> Cardinality(f[g])]
<1>1. c \in [F -> Nat] /\ F \subseteq Nat
  BY DEF Countable
<1>2. \A g, h \in F : Earlier(f, g, h) <=> c[g] < c[h] \/ (c[g] = c[h] /\ g < h)
  BY DEF Earlier
<1> HIDE DEF c
<1>3. \A g \in F : c[g] \in Nat /\ g \in Nat
  BY <1>1
<1> QED BY <1>2, <1>3

LEMMA LastIsLast ==
    ASSUME NEW F, IsFiniteSet(F), NEW f, Countable(f, F), NEW S \in SUBSET F, S # {}
    PROVE  LastOf(f, S) \in S /\ \A h \in S \ {LastOf(f, S)} : Earlier(f, h, LastOf(f, S))
<1> DEFINE Good == {U \in SUBSET F : U # {} => \E g \in U : \A h \in U \ {g} : Earlier(f, h, g)}
<1>1. ASSUME NEW U \in SUBSET F, \A V \in SUBSET U : V # U => V \in Good
      PROVE  U \in Good
  <2> SUFFICES ASSUME NEW x \in U PROVE \E g \in U : \A h \in U \ {g} : Earlier(f, h, g)
    OBVIOUS
  <2>1. CASE U = {x}
    BY <2>1
  <2>2. CASE U # {x}
    <3>1. U \ {x} \in Good /\ U \ {x} # {}
      BY <1>1, <2>2
    <3>2. PICK m \in U \ {x} : \A h \in (U \ {x}) \ {m} : Earlier(f, h, m)
      BY <3>1
    <3>3. CASE Earlier(f, x, m)
      BY <3>2, <3>3
    <3>4. CASE Earlier(f, m, x)
      <4>1. \A h \in U \ {x} : Earlier(f, h, x)
        BY <3>2, <3>4, OrderIsTotal
      <4> QED BY <4>1
    <3> QED BY <3>2, <3>3, <3>4, OrderIsTotal
  <2> QED BY <2>1, <2>2
<1>2. S \in Good
  <2> HIDE DEF Good
  <2> QED BY <1>1, SubsetInduction
<1> QED BY <1>2 DEF LastOf

\* And it is the only one.
LEMMA LastIsUnique ==
    ASSUME NEW F, IsFiniteSet(F), NEW f, Countable(f, F), NEW S \in SUBSET F,
           NEW g \in S, \A h \in S \ {g} : Earlier(f, h, g)
    PROVE  LastOf(f, S) = g
<1>1. LastOf(f, S) \in S /\ \A h \in S \ {LastOf(f, S)} : Earlier(f, h, LastOf(f, S))
  BY LastIsLast
<1> QED BY <1>1, OrderIsTotal

\* The same for the choice of a slot.
LEMMA BestExists ==
    ASSUME NEW F, IsFiniteSet(F), Ranked(F), NEW r, \A s \in F : r[s] \in Int,
           NEW C \in SUBSET F, C # {}
    PROVE  \E s \in C : Best(r, C, s)
<1> DEFINE Good == {U \in SUBSET F : U # {} => \E s \in U : \A t \in U : Preferred(r, s, t)}
<1>0. /\ \A s, t \in F : Preferred(r, s, t) \/ Preferred(r, t, s)
      /\ \A s, t, u \in F : Preferred(r, s, t) /\ Preferred(r, t, u) => Preferred(r, s, u)
  <2>1. \A s \in F : r[s] \in Int /\ SlotRank[s] \in Int
    BY DEF Ranked
  <2> QED BY <2>1 DEF Preferred
<1>1. ASSUME NEW U \in SUBSET F, \A V \in SUBSET U : V # U => V \in Good
      PROVE  U \in Good
  <2> SUFFICES ASSUME NEW x \in U PROVE \E s \in U : \A t \in U : Preferred(r, s, t)
    OBVIOUS
  <2>1. CASE U = {x}
    BY <1>0, <2>1
  <2>2. CASE U # {x}
    <3>1. U \ {x} \in Good /\ U \ {x} # {}
      BY <1>1, <2>2
    <3>2. PICK m \in U \ {x} : \A t \in U \ {x} : Preferred(r, m, t)
      BY <3>1
    <3>3. CASE Preferred(r, m, x)
      <4>1. \A t \in U : Preferred(r, m, t)
        BY <3>2, <3>3
      <4> QED BY <4>1
    <3>4. CASE Preferred(r, x, m)
      <4>1. \A t \in U : Preferred(r, x, t)
        BY <1>0, <3>2, <3>4
      <4> QED BY <4>1
    <3> QED BY <1>0, <3>2, <3>3, <3>4
  <2> QED BY <2>1, <2>2
<1>2. \A U \in SUBSET F : U \in Good
  <2> HIDE DEF Good
  <2>1. \A U \in SUBSET F : (\A V \in SUBSET U : V # U => V \in Good) => U \in Good
    BY <1>1
  <2> QED BY <2>1, SubsetInduction
<1>3. C \in Good
  BY <1>2
<1> QED BY <1>3 DEF Best

LEMMA BestIsUnique ==
    ASSUME NEW F, Ranked(F), NEW r, \A s \in F : r[s] \in Int,
           NEW C \in SUBSET F, NEW s, NEW t, Best(r, C, s), Best(r, C, t)
    PROVE  s = t
<1>1. s \in C /\ t \in C /\ Preferred(r, s, t) /\ Preferred(r, t, s)
  BY DEF Best
<1>2. /\ SlotRank[s] \in Int /\ SlotRank[t] \in Int /\ r[s] \in Int /\ r[t] \in Int
      /\ SlotRank[s] = SlotRank[t] => s = t
  BY <1>1 DEF Ranked
<1> QED BY <1>1, <1>2 DEF Preferred

-----------------------------------------------------------------------------
(* The recursion.                                                          *)

Body(feasible, start, f, S) ==
    IF S = {} THEN start
    ELSE LET g == LastOf(feasible, S) IN PlaceNext(feasible, f[S \ {g}], g)

After(F, feasible, start) ==
    LET after[S \in SUBSET F] ==
            IF S = {} THEN start
            ELSE LET g == LastOf(feasible, S) IN PlaceNext(feasible, after[S \ {g}], g)
    IN  after

\* There is a function that does what the recursion says.
LEMMA AfterUnfolds ==
    ASSUME NEW F, IsFiniteSet(F), NEW f, Countable(f, F), NEW start
    PROVE  \A S \in SUBSET F :
              After(F, f, start)[S] =
                  IF S = {} THEN start
                  ELSE PlaceNext(f, After(F, f, start)[S \ {LastOf(f, S)}], LastOf(f, S))
<1> DEFINE N == Cardinality(F)
           UpTo(a, n) == /\ a = [S \in SUBSET F |-> a[S]]
                         /\ \A S \in SUBSET F : Cardinality(S) =< n => a[S] = Body(f, start, a, S)
           Bad == {n \in Nat : ~\E a : UpTo(a, n)}
<1>0. \A S \in SUBSET F : IsFiniteSet(S) /\ Cardinality(S) \in Nat /\ Cardinality(S) =< N
  BY FS_Subset, FS_CardinalityType
<1>1. Bad = {}
  <2> SUFFICES ASSUME Bad # {} PROVE FALSE
    OBVIOUS
  <2>0. Bad \subseteq Nat /\ \A k \in Nat : k \notin Bad => \E a : UpTo(a, k)
    OBVIOUS
  <2>1. PICK n \in Bad : \A k \in Bad : n =< k
    <3> HIDE DEF Bad
    <3> QED BY <2>0, LeastNumber
  <2>2. n \in Nat /\ \A k \in Bad : ~(k < n)
    <3> HIDE DEF Bad
    <3> QED BY <2>0, <2>1
  <2>3. CASE n = 0
    <3> DEFINE a == [S \in SUBSET F |-> start]
    <3>1. \A S \in SUBSET F : Cardinality(S) =< 0 => S = {}
      BY <1>0, FS_EmptySet
    <3>2. UpTo(a, 0)
      BY <3>1 DEF Body
    <3> QED BY <2>1, <2>3, <3>2
  <2>4. CASE n # 0
    <3>1. n - 1 \in Nat /\ n - 1 < n
      <4> HIDE DEF Bad
      <4> QED BY <2>2, <2>4
    <3>2. PICK a : UpTo(a, n - 1)
      <4> HIDE DEF Bad, UpTo
      <4> QED BY <2>0, <2>2, <3>1
    <3> DEFINE b == [S \in SUBSET F |-> IF Cardinality(S) =< n - 1 THEN a[S] ELSE Body(f, start, a, S)]
    <3>3. ASSUME NEW S \in SUBSET F, Cardinality(S) =< n PROVE b[S] = Body(f, start, b, S)
      <4>1. b[S] = Body(f, start, a, S)
        BY <3>2
      <4>2. CASE S = {}
        BY <4>1, <4>2 DEF Body
      <4>3. CASE S # {}
        <5>1. LastOf(f, S) \in S /\ S \ {LastOf(f, S)} \in SUBSET F
          BY <4>3, LastIsLast
        <5>2. Cardinality(S \ {LastOf(f, S)}) = Cardinality(S) - 1
          BY <1>0, <5>1, FS_RemoveElement
        <5>3. Cardinality(S \ {LastOf(f, S)}) =< n - 1
          <6> HIDE DEF Bad, b
          <6>1. Cardinality(S) \in Nat /\ Cardinality(S) =< n
            BY <1>0, <3>3
          <6> QED BY <2>2, <5>2, <6>1
        <5>4. b[S \ {LastOf(f, S)}] = a[S \ {LastOf(f, S)}]
          BY <5>1, <5>3
        <5> HIDE DEF b
        <5> QED BY <4>1, <4>3, <5>4 DEF Body
      <4> QED BY <4>2, <4>3
    <3>4. b = [S \in SUBSET F |-> b[S]]
      OBVIOUS
    <3> HIDE DEF b
    <3>5. UpTo(b, n)
      BY <3>3, <3>4
    <3> QED BY <2>1, <3>5
  <2> QED BY <2>3, <2>4
<1>2. \E a : UpTo(a, N)
  BY <1>0, <1>1, FS_CardinalityType
<1>3. \E a : a = [S \in SUBSET F |-> Body(f, start, a, S)]
  <2>1. PICK a : UpTo(a, N)
    BY <1>2
  <2>2. \A S \in SUBSET F : a[S] = Body(f, start, a, S)
    BY <1>0, <2>1
  <2>3. a = [S \in SUBSET F |-> a[S]]
    BY <2>1
  <2> QED BY <2>2, <2>3
<1> DEFINE after[S \in SUBSET F] ==
              IF S = {} THEN start
              ELSE LET g == LastOf(f, S) IN PlaceNext(f, after[S \ {g}], g)
<1>4. After(F, f, start) = after
  BY DEF After
<1>5. after = CHOOSE a : a = [S \in SUBSET F |-> IF S = {} THEN start
                             ELSE LET g == LastOf(f, S) IN PlaceNext(f, a[S \ {g}], g)]
  BY DEF after
<1> HIDE DEF after
<1>6. after = [S \in SUBSET F |-> IF S = {} THEN start
                             ELSE LET g == LastOf(f, S) IN PlaceNext(f, after[S \ {g}], g)]
  BY <1>3, <1>5 DEF Body
<1> QED BY <1>4, <1>6

-----------------------------------------------------------------------------
(* What the loop keeps.                                                    *)

\* What the callers pass: the free groups F, their feasible slots among those
\* that have a capacity, and pins of other groups on such slots.
Arguments(F, f, capacity, pinned) ==
    /\ IsFiniteSet(F) /\ F \subseteq Nat
    /\ IsFiniteSet(DOMAIN capacity) /\ Ranked(DOMAIN capacity)
    /\ \A s \in DOMAIN capacity : capacity[s] \in Int
    /\ \A g \in F : f[g] \subseteq DOMAIN capacity
    /\ IsFiniteSet(DOMAIN pinned) /\ F \cap DOMAIN pinned = {}
    /\ PinsKnown(capacity, pinned)

On(placed, s) == {g \in DOMAIN placed : placed[g] = s}

\* The loop is through with the groups of S: pins stay, every other group is on
\* a feasible slot, the counters are exact, only pins overfill a slot, and the
\* feasible slots of a group that was left out are full.
Sound(f, capacity, pinned, S, st) ==
    /\ DOMAIN st.remaining = DOMAIN capacity
    /\ \A s \in DOMAIN capacity : st.remaining[s] \in Int
    /\ DOMAIN pinned \subseteq DOMAIN st.placed
    /\ DOMAIN st.placed \subseteq DOMAIN pinned \cup S
    /\ \A g \in DOMAIN pinned : st.placed[g] = pinned[g]
    /\ \A g \in DOMAIN st.placed \ DOMAIN pinned : st.placed[g] \in f[g]
    /\ \A s \in DOMAIN capacity :
          st.remaining[s] = capacity[s] - Cardinality(On(st.placed, s))
    /\ \A s \in DOMAIN capacity :
          st.remaining[s] >= 0 \/ On(st.placed, s) \subseteq DOMAIN pinned
    /\ \A g \in S \ DOMAIN st.placed : \A s \in f[g] : st.remaining[s] =< 0

FirstState(capacity, pinned) == [remaining |-> AfterPins(capacity, pinned), placed |-> pinned]

LEMMA FirstIsSound ==
    ASSUME NEW F, NEW f, NEW capacity, NEW pinned, Arguments(F, f, capacity, pinned)
    PROVE  Sound(f, capacity, pinned, {}, FirstState(capacity, pinned))
<1> DEFINE st == FirstState(capacity, pinned)
<1>1. st.placed = pinned /\ st.remaining = AfterPins(capacity, pinned)
  BY DEF FirstState
<1>2. ASSUME NEW s \in DOMAIN capacity
      PROVE  /\ st.remaining[s] = capacity[s] - Cardinality(On(pinned, s))
             /\ Cardinality(On(pinned, s)) \in Nat /\ capacity[s] \in Int
  <2>1. IsFiniteSet(On(pinned, s))
    BY FS_Subset DEF On, Arguments
  <2> QED BY <1>1, <2>1, FS_CardinalityType DEF AfterPins, On, Arguments
<1>3. DOMAIN st.remaining = DOMAIN capacity
  BY <1>1 DEF AfterPins
<1> HIDE DEF st
<1>4. \A s : On(pinned, s) \subseteq DOMAIN pinned
  BY DEF On
<1>6. /\ \A s \in DOMAIN capacity : st.remaining[s] \in Int
      /\ \A s \in DOMAIN capacity :
            st.remaining[s] = capacity[s] - Cardinality(On(st.placed, s))
  BY <1>1, <1>2
<1>7. /\ DOMAIN pinned \subseteq DOMAIN st.placed
      /\ DOMAIN st.placed \subseteq DOMAIN pinned \cup {}
      /\ \A g \in DOMAIN pinned : st.placed[g] = pinned[g]
      /\ \A g \in DOMAIN st.placed \ DOMAIN pinned : st.placed[g] \in f[g]
      /\ \A s \in DOMAIN capacity :
            st.remaining[s] >= 0 \/ On(st.placed, s) \subseteq DOMAIN pinned
      /\ \A g \in {} \ DOMAIN st.placed : \A s \in f[g] : st.remaining[s] =< 0
  BY <1>1, <1>4
<1>8. Sound(f, capacity, pinned, {}, st)
  BY <1>3, <1>6, <1>7, Zenon DEF Sound
<1> QED BY <1>8 DEF st

\* One round of the loop.
LEMMA PlaceNextIsSound ==
    ASSUME NEW F, NEW f, NEW capacity, NEW pinned, Arguments(F, f, capacity, pinned),
           NEW S \in SUBSET F, NEW g \in F \ S, NEW st, Sound(f, capacity, pinned, S, st)
    PROVE  Sound(f, capacity, pinned, S \cup {g}, PlaceNext(f, st, g))
<1> DEFINE C == Candidates(st.remaining, f[g])
           new == PlaceNext(f, st, g)
<1>1. C \in SUBSET DOMAIN capacity /\ \A s \in C : s \in f[g] /\ st.remaining[s] > 0
  BY DEF Candidates, Arguments
<1>2. g \notin DOMAIN pinned /\ g \notin DOMAIN st.placed
  BY DEF Arguments, Sound
<1>3. CASE C = {}
  <2>1. new = st
    BY <1>3 DEF PlaceNext
  <2>2. \A s \in f[g] : st.remaining[s] =< 0
    BY <1>3 DEF Candidates, Arguments, Sound
  <2> HIDE DEF new
  <2>3. \A h \in (S \cup {g}) \ DOMAIN st.placed : \A s \in f[h] : st.remaining[s] =< 0
    BY <2>2 DEF Sound
  <2>4. DOMAIN st.placed \subseteq DOMAIN pinned \cup (S \cup {g})
    BY DEF Sound
  <2>5. Sound(f, capacity, pinned, S \cup {g}, st)
    BY <2>3, <2>4, Zenon DEF Sound
  <2> QED BY <2>1, <2>5 DEF new
<1>4. CASE C # {}
  <2> DEFINE s == CHOOSE c \in C : Best(st.remaining, C, c)
  <2>1. s \in C
    <3>1. \E c \in C : Best(st.remaining, C, c)
      BY <1>1, <1>4, BestExists DEF Arguments, Sound
    <3> QED BY <3>1
  <2>2. new = [remaining |-> [st.remaining EXCEPT ![s] = @ - 1],
                     placed |-> [h \in DOMAIN st.placed \cup {g} |->
                                   IF h = g THEN s ELSE st.placed[h]]]
    BY <1>4 DEF PlaceNext
  <2> HIDE DEF s, C, new
  <2>3. /\ DOMAIN new.placed = DOMAIN st.placed \cup {g} /\ new.placed[g] = s
        /\ \A h \in DOMAIN st.placed : new.placed[h] = st.placed[h]
    BY <1>2, <2>2
  <2>4. s \in DOMAIN capacity /\ s \in f[g] /\ st.remaining[s] > 0
    BY <1>1, <2>1
  <2>5. /\ DOMAIN new.remaining = DOMAIN capacity /\ new.remaining[s] = st.remaining[s] - 1
        /\ \A t \in DOMAIN capacity : t # s => new.remaining[t] = st.remaining[t]
    BY <2>2, <2>4 DEF Sound
  <2>6. \A t : t # s => On(new.placed, t) = On(st.placed, t)
    BY <1>2, <2>3 DEF On
  <2>7. On(new.placed, s) = On(st.placed, s) \cup {g} /\ g \notin On(st.placed, s)
    BY <1>2, <2>3 DEF On
  <2>8. /\ Cardinality(On(new.placed, s)) = Cardinality(On(st.placed, s)) + 1
        /\ Cardinality(On(st.placed, s)) \in Nat
    <3>1. IsFiniteSet(DOMAIN pinned \cup S)
      BY FS_Subset, FS_Union DEF Arguments
    <3>2. On(st.placed, s) \subseteq DOMAIN pinned \cup S
      BY DEF On, Sound
    <3>3. IsFiniteSet(On(st.placed, s))
      BY <3>1, <3>2, FS_Subset
    <3> QED BY <2>7, <3>3, FS_AddElement, FS_CardinalityType
  <2>9. \A t \in DOMAIN capacity : /\ capacity[t] \in Int /\ st.remaining[t] \in Int
                                   /\ st.remaining[t] = capacity[t] - Cardinality(On(st.placed, t))
    BY DEF Arguments, Sound
  <2>10. \A t \in DOMAIN capacity :
            /\ new.remaining[t] \in Int
            /\ new.remaining[t] = capacity[t] - Cardinality(On(new.placed, t))
            /\ new.remaining[t] =< st.remaining[t]
    BY <2>4, <2>5, <2>6, <2>8, <2>9
  <2>11. \A t \in DOMAIN capacity :
            new.remaining[t] >= 0 \/ On(new.placed, t) \subseteq DOMAIN pinned
    <3> SUFFICES ASSUME NEW t \in DOMAIN capacity
                 PROVE  new.remaining[t] >= 0 \/ On(new.placed, t) \subseteq DOMAIN pinned
      OBVIOUS
    <3>1. CASE t = s
      BY <2>4, <2>5, <2>9, <3>1
    <3>2. CASE t # s
      BY <2>5, <2>6, <3>2 DEF Sound
    <3> QED BY <3>1, <3>2
  <2>12. \A h \in (S \cup {g}) \ DOMAIN new.placed : \A t \in f[h] : new.remaining[t] =< 0
    <3> SUFFICES ASSUME NEW h \in (S \cup {g}) \ DOMAIN new.placed, NEW t \in f[h]
                 PROVE  new.remaining[t] =< 0
      OBVIOUS
    <3>1. h \in S \ DOMAIN st.placed /\ t \in DOMAIN capacity
      BY <2>3 DEF Arguments
    <3>2. st.remaining[t] =< 0
      BY <3>1 DEF Sound
    <3> QED BY <2>9, <2>10, <3>1, <3>2
  <2>13. /\ DOMAIN pinned \subseteq DOMAIN new.placed
         /\ DOMAIN new.placed \subseteq DOMAIN pinned \cup (S \cup {g})
         /\ \A h \in DOMAIN pinned : new.placed[h] = pinned[h]
         /\ \A h \in DOMAIN new.placed \ DOMAIN pinned : new.placed[h] \in f[h]
    BY <2>3, <2>4 DEF Sound
  <2>14. /\ DOMAIN new.remaining = DOMAIN capacity
         /\ \A t \in DOMAIN capacity : new.remaining[t] \in Int
         /\ \A t \in DOMAIN capacity :
               new.remaining[t] = capacity[t] - Cardinality(On(new.placed, t))
    BY <2>5, <2>10
  <2>15. Sound(f, capacity, pinned, S \cup {g}, new)
    BY <2>11, <2>12, <2>13, <2>14, Zenon DEF Sound
  <2> QED BY <2>15 DEF new
<1> QED BY <1>3, <1>4

\* A slot set is finite, so the feasible slots can be counted.
LEMMA ArgumentsCountable ==
    ASSUME NEW F, NEW f, NEW capacity, NEW pinned, Arguments(F, f, capacity, pinned)
    PROVE  Countable(f, F)
BY FS_Subset, FS_CardinalityType DEF Arguments, Countable

\* The loop as a whole.
LEMMA LoopIsSound ==
    ASSUME NEW F, NEW f, NEW capacity, NEW pinned, Arguments(F, f, capacity, pinned)
    PROVE  \A S \in SUBSET F :
              Sound(f, capacity, pinned, S, After(F, f, FirstState(capacity, pinned))[S])
<1> DEFINE a == After(F, f, FirstState(capacity, pinned))
           Good == {S \in SUBSET F : Sound(f, capacity, pinned, S, a[S])}
<1>0. IsFiniteSet(F) /\ Countable(f, F)
  BY ArgumentsCountable DEF Arguments
<1>1. \A S \in SUBSET F : a[S] = IF S = {} THEN FirstState(capacity, pinned)
                                ELSE PlaceNext(f, a[S \ {LastOf(f, S)}], LastOf(f, S))
  BY <1>0, AfterUnfolds
<1> HIDE DEF a
<1>2. ASSUME NEW U \in SUBSET F, \A V \in SUBSET U : V # U => V \in Good
      PROVE  Sound(f, capacity, pinned, U, a[U])
  <2>1. CASE U = {}
    BY <1>1, <2>1, FirstIsSound
  <2>2. CASE U # {}
    <3> DEFINE g == LastOf(f, U)
               V == U \ {g}
    <3>1. g \in U
      BY <1>0, <2>2, LastIsLast
    <3>2. a[U] = PlaceNext(f, a[V], g)
      BY <1>1, <2>2
    <3> HIDE DEF g
    <3>3. Sound(f, capacity, pinned, V, a[V])
      BY <1>2, <3>1
    <3>4. V \in SUBSET F /\ g \in F \ V /\ V \cup {g} = U
      BY <3>1
    <3> HIDE DEF V
    <3>5. Sound(f, capacity, pinned, V \cup {g}, PlaceNext(f, a[V], g))
      BY <3>3, <3>4, PlaceNextIsSound
    <3> QED BY <3>2, <3>4, <3>5
  <2> QED BY <2>1, <2>2
<1>3. \A U \in SUBSET F : (\A V \in SUBSET U : V # U => V \in Good) => U \in Good
  BY <1>2
<1>4. \A U \in SUBSET F : U \in Good
  <2> HIDE DEF Good
  <2> QED BY <1>0, <1>3, SubsetInduction
<1> QED BY <1>4 DEF a

\* `assign` is what the loop has when it is through with the free groups.
LEMMA AssignIsLoop ==
    ASSUME NEW groups, NEW f, NEW capacity, NEW pinned
    PROVE  assign(groups, f, capacity, pinned) =
              After(groups \ DOMAIN pinned, f, FirstState(capacity, pinned))
                  [groups \ DOMAIN pinned].placed
  BY DEF assign, After, FirstState

\* What a caller of `assign` gets.
LEMMA AssignIsSound ==
    ASSUME NEW groups, NEW f, NEW capacity, NEW pinned,
           Arguments(groups \ DOMAIN pinned, f, capacity, pinned)
    PROVE  \E st : /\ st.placed = assign(groups, f, capacity, pinned)
                   /\ Sound(f, capacity, pinned, groups \ DOMAIN pinned, st)
<1> DEFINE F == groups \ DOMAIN pinned
           st == After(F, f, FirstState(capacity, pinned))[F]
<1>1. st.placed = assign(groups, f, capacity, pinned)
  BY AssignIsLoop
<1>2. Sound(f, capacity, pinned, F, st)
  BY LoopIsSound
<1> QED BY <1>1, <1>2
=============================================================================
