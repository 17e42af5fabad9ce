----------------------------- MODULE SeatStore -----------------------------
(***************************************************************************)
(* What holding seats means, without a gate, requests or clocks: a free    *)
(* seat may be taken, a taken seat may be given up or sold to whoever took *)
(* it, a sold seat may come back.  Nobody takes a seat somebody has.       *)
(***************************************************************************)
CONSTANTS Seats, Users, Free, Sold

VARIABLE has   \* a seat is Free, Sold, or taken by a user

Init == has = [s \in Seats |-> Free]

Change(S, v) == has' = [s \in Seats |-> IF s \in S THEN v ELSE has[s]]

Take(u, S) == (\A s \in S : has[s] = Free) /\ Change(S, u)

\* By giving them up, or by letting their time run out.
GiveUp(S) == (\A s \in S : has[s] \in Users) /\ Change(S, Free)

Sell(u, S) == (\A s \in S : has[s] = u) /\ Change(S, Sold)

TakeBack(S) == (\A s \in S : has[s] = Sold) /\ Change(S, Free)

Next ==
  \E S \in SUBSET Seats :
    \/ \E u \in Users : Take(u, S) \/ Sell(u, S)
    \/ GiveUp(S)
    \/ TakeBack(S)

Spec == Init /\ [][Next]_has
=============================================================================
