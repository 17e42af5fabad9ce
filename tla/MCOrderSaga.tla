---------------------------- MODULE MCOrderSaga ----------------------------
(***************************************************************************)
(* Model values and symmetry for the runs of OrderSaga.                    *)
(***************************************************************************)
EXTENDS OrderSagaProps, TLC

CONSTANTS s1, s2, s3, u1, u2, k1, k2, h1, h2, r1, r2, w1

\* Interchangeable values; only for runs without liveness properties.
Symmetry ==
  Permutations(Seats) \union Permutations(Users) \union Permutations(Orders)
    \union Permutations(Handlers) \union Permutations(Reconcilers)
=============================================================================
