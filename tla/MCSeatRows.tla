----------------------------- MODULE MCSeatRows -----------------------------
(***************************************************************************)
(* Model values for the runs of SeatRows.                                  *)
(***************************************************************************)
EXTENDS SeatRowsProps, TLC

CONSTANTS u1, u2, o1, o2, t1, t2

\* Seats are numbers and keep their order.
Symmetry == Permutations(Users) \union Permutations(Txs)
=============================================================================
