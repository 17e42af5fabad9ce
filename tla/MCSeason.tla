------------------------------ MODULE MCSeason ------------------------------
(***************************************************************************)
(* Model values for the runs of Season.                                    *)
(***************************************************************************)
EXTENDS SeasonProps, TLC

CONSTANTS a, o1, o2, h1, h2, p1, p2

\* A row that is listed twice, and a layout with other prices.
Hall == << [row |-> a, width |-> 2, price |-> 15], [row |-> a, width |-> 1, price |-> 12] >>
Later == << [row |-> a, width |-> 1, price |-> 20] >>
HallLayouts == {Hall, Later}

Symmetry == Permutations(Orders) \union Permutations(Handlers) \union Permutations(Openers)
=============================================================================
