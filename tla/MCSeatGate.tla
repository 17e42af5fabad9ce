----------------------------- MODULE MCSeatGate -----------------------------
(***************************************************************************)
(* Model values and symmetry for the runs of SeatGate.                     *)
(***************************************************************************)
EXTENDS SeatGateProps, TLC

CONSTANTS u1, u2, r1, r2, r3

\* Seats are numbers and keep their order.
Symmetry == Permutations(Users) \union Permutations(Requests)
=============================================================================
