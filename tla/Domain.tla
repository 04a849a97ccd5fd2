------------------------------- MODULE Domain -------------------------------
(***************************************************************************)
(* The pure part of the program, src/planer/domain/: who still has to      *)
(* present, which slots a group can take, what earlier rounds settle, and  *)
(* the greedy assignment of groups to slots.  No state, no I/O.            *)
(*                                                                         *)
(* A participant is a record [user_id, group, prev, assessed, results]:    *)
(* prev is the admission of an earlier semester, assessed says that an     *)
(* assessment exists, and results holds the points of the individual       *)
(* homework result, no element when the participant has none.              *)
(* An availability is a row [student, slot, available]; the absence of a   *)
(* row is silence.  A group identifier is a number that stands for the     *)
(* rank of the identifier in the text order the code sorts by.  A slot     *)
(* identifier is the number the database gave the slot, which the code     *)
(* turns into a text before it sorts; SlotRank has the order of the texts. *)
(***************************************************************************)
EXTENDS Integers, FiniteSets, SequencesExt

CONSTANT SlotRank   \* the place of each slot in the order of the ids as texts

\* Different ids are different texts.
Ranked(S) ==
    \A s, t \in S : SlotRank[s] \in Int /\ (SlotRank[s] = SlotRank[t] => s = t)

SCHEDULED == "SCHEDULED"
PRESENTED == "PRESENTED"
NO_SHOW   == "NO_SHOW"
Statuses  == {SCHEDULED, PRESENTED, NO_SHOW}

-----------------------------------------------------------------------------
(* Who is due (filtering.py).                                              *)

\* Mutant: =< for <.
is_due_mutant(m, threshold) ==
    ~m.prev /\ ~m.assessed /\ \E points \in m.results : points =< threshold

is_due(m, threshold) ==
    /\ ~m.prev
    /\ ~m.assessed
    /\ \E points \in m.results : points < threshold

due_members(members, threshold) == {m \in members : is_due(m, threshold)}

-----------------------------------------------------------------------------
(* What a group can attend (availability.py).                              *)

Answered(avail, m, slot, yes) ==
    [student |-> m.user_id, slot |-> slot, available |-> yes] \in avail

group_feasible_slots(members, avail, all_slots, require_all) ==
    IF require_all
    THEN {s \in all_slots : \A m \in members : Answered(avail, m, s, TRUE)}
    ELSE {s \in all_slots : \E m \in members : Answered(avail, m, s, TRUE)}

member_declined(members, slot, avail, require_all) ==
    LET declines == {m \in members : Answered(avail, m, slot, FALSE)}
    IN  declines # {} /\ (require_all \/ declines = members)

-----------------------------------------------------------------------------
(* What the earlier rounds settle (tracking.py).  prior is a set of        *)
(* presentation rows; only `excluded` is used by the planner.              *)

compute_carry_over(prior) ==
    LET presented == {p.group : p \in {q \in prior : q.status = PRESENTED}}
        no_shows  == {p.group : p \in {q \in prior : q.status = NO_SHOW}}
    IN  [excluded |-> presented, pending |-> no_shows \ presented]

-----------------------------------------------------------------------------
(* The status of a group from those of its members (db.py, rollup_status). *)

\* Mutant: one absent member is enough, and is looked for first.
rollup_status_mutant(statuses) ==
    IF NO_SHOW \in statuses THEN NO_SHOW
    ELSE IF PRESENTED \in statuses THEN PRESENTED ELSE SCHEDULED

rollup_status(statuses) ==
    IF PRESENTED \in statuses THEN PRESENTED
    ELSE IF statuses = {NO_SHOW} THEN NO_SHOW ELSE SCHEDULED

-----------------------------------------------------------------------------
(* The greedy assignment (scheduling.py).  capacity and remaining are      *)
(* functions on the slots of the round, feasible one on the groups,        *)
(* pinned one on the groups that have a fixed slot.                        *)

\* Most constrained first, the group id as tiebreaker.
Earlier(feasible, g, h) ==
    \/ Cardinality(feasible[g]) < Cardinality(feasible[h])
    \/ Cardinality(feasible[g]) = Cardinality(feasible[h]) /\ g < h

\* Mutant: >= for >.
Candidates_full_mutant(remaining, slots) == {s \in slots : remaining[s] >= 0}

\* Mutant: the feasible slots are not looked at.
Candidates_any_mutant(remaining, slots) ==
    {s \in DOMAIN remaining : remaining[s] > 0}

Candidates(remaining, slots) == {s \in slots : remaining[s] > 0}

\* Most remaining capacity first, the slot id as tiebreaker.
Preferred(remaining, s, t) ==
    \/ remaining[s] > remaining[t]
    \/ remaining[s] = remaining[t] /\ SlotRank[s] =< SlotRank[t]

\* Mutant: no sort, any candidate.
Best_mutant(remaining, candidates, s) == s \in candidates

\* candidates[0] after the sort
Best(remaining, candidates, s) ==
    s \in candidates /\ \A t \in candidates : Preferred(remaining, s, t)

\* Mutant: a pin on a foreign slot is let through.
PinsKnown_mutant(capacity, pinned) == TRUE

\* remaining[sid] -= 1 raises KeyError for a slot the round does not have.
PinsKnown(capacity, pinned) ==
    \A g \in DOMAIN pinned : pinned[g] \in DOMAIN capacity

AfterPins(capacity, pinned) ==
    [s \in DOMAIN capacity |->
        capacity[s] - Cardinality({g \in DOMAIN pinned : pinned[g] = s})]

\* The last of some groups in the order of the loop.
LastOf(feasible, S) == CHOOSE g \in S : \A h \in S \ {g} : Earlier(feasible, h, g)

\* The body of the loop: the group is put on its best slot, or left out.
PlaceNext(feasible, st, g) ==
    LET candidates == Candidates(st.remaining, feasible[g])
        s == CHOOSE c \in candidates : Best(st.remaining, candidates, c)
    IN  IF candidates = {} THEN st
        ELSE [remaining |-> [st.remaining EXCEPT ![s] = @ - 1],
              placed    |-> [h \in DOMAIN st.placed \cup {g} |->
                                IF h = g THEN s ELSE st.placed[h]]]

\* The whole call: a function from the groups that got a slot to the slots.
\* after[S] is what the loop has when it is through with the groups of S.
assign(groups, feasible, capacity, pinned) ==
    LET free == groups \ DOMAIN pinned
        after[S \in SUBSET free] ==
            IF S = {} THEN [remaining |-> AfterPins(capacity, pinned), placed |-> pinned]
            ELSE LET g == LastOf(feasible, S) IN PlaceNext(feasible, after[S \ {g}], g)
    IN  after[free].placed
=============================================================================
