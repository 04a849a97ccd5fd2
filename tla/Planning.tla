------------------------------ MODULE Planning ------------------------------
(***************************************************************************)
(* What solve_round (src/planer/planning.py) computes between its reads    *)
(* and its writes.  `inp` is what it has read: quorum, slots, avail,       *)
(* curations (of the round), groups, students, and prior, the              *)
(* presentations of earlier rounds.                                        *)
(***************************************************************************)
EXTENDS Repository

require_all(inp) == inp.quorum # "any"

capacities(inp) ==
    [s \in Ids(inp.slots) |-> (CHOOSE row \in inp.slots : row.id = s).capacity]

members(inp, g) == {student_to_participant(s) : s \in {t \in inp.students : t.group = g}}

\* Mutant: pending for excluded.
included_groups_mutant(inp, threshold) ==
    {g \in inp.groups :
        /\ \A c \in inp.curations : c.group = g => c.included
        /\ g \notin compute_carry_over(inp.prior).pending
        /\ due_members(members(inp, g), threshold) # {}}

included_groups(inp, threshold) ==
    {g \in inp.groups :
        /\ \A c \in inp.curations : c.group = g => c.included
        /\ g \notin compute_carry_over(inp.prior).excluded
        /\ due_members(members(inp, g), threshold) # {}}

feasible(inp, threshold) ==
    [g \in included_groups(inp, threshold) |->
        group_feasible_slots(due_members(members(inp, g), threshold), inp.avail,
                             Ids(inp.slots), require_all(inp))]

\* A due member declined the slot the group is fixed to.
declined(inp, threshold, c) ==
    /\ c.group \in inp.groups
    /\ member_declined(due_members(members(inp, c.group), threshold), c.pin,
                       inp.avail, require_all(inp))

pinned_rows(inp, threshold) ==
    {c \in inp.curations :
        /\ c.pin # NoSlot /\ c.included
        /\ declined(inp, threshold, c) => c.override}

pinned(inp, threshold) ==
    [g \in {c.group : c \in pinned_rows(inp, threshold)} |->
        (CHOOSE c \in pinned_rows(inp, threshold) : c.group = g).pin]

\* assign raises KeyError when a group is pinned to a slot of another round.
CanAssign(inp, threshold) == PinsKnown(capacities(inp), pinned(inp, threshold))

\* result.assignments as the rows that are to be created.
assignments(inp, threshold) ==
    LET result == assign(included_groups(inp, threshold), feasible(inp, threshold),
                         capacities(inp), pinned(inp, threshold))
    IN  {[group |-> g, slot |-> result[g]] : g \in DOMAIN result}
=============================================================================
