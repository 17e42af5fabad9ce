---------------------------- MODULE TicketOffice ----------------------------
(***************************************************************************)
(* What the ticket store promises, without holds, payments or processes:   *)
(* an order buys all its seats at once or none of them, a seat belongs to  *)
(* at most one order at a time, an order ends once, and each sale and each *)
(* return is announced exactly once, together with the change itself.      *)
(***************************************************************************)
EXTENDS Sequences

CONSTANTS Seats, Orders, NoOrder

VARIABLES
  owner,    \* the order that owns a seat
  outcome,  \* of an order: "open", "sold", "returned" or "refused"
  told      \* the announcements made about an order

vars == <<owner, outcome, told>>

Init ==
  /\ owner = [s \in Seats |-> NoOrder]
  /\ outcome = [k \in Orders |-> "open"]
  /\ told = [k \in Orders |-> <<>>]

Give(S, k) == owner' = [s \in Seats |-> IF s \in S THEN k ELSE owner[s]]

Tell(k, topic) == told' = [told EXCEPT ![k] = Append(@, topic)]

Sell(k, S) ==
  /\ outcome[k] = "open"
  /\ S # {} /\ \A s \in S : owner[s] = NoOrder
  /\ Give(S, k)
  /\ outcome' = [outcome EXCEPT ![k] = "sold"]
  /\ Tell(k, "order.paid")

TakeBack(k) ==
  /\ outcome[k] = "sold"
  /\ Give({s \in Seats : owner[s] = k}, NoOrder)
  /\ outcome' = [outcome EXCEPT ![k] = "returned"]
  /\ Tell(k, "order.canceled")

Refuse(k) ==
  /\ outcome[k] = "open"
  /\ outcome' = [outcome EXCEPT ![k] = "refused"]
  /\ UNCHANGED <<owner, told>>

Next ==
  \E k \in Orders :
    \/ \E S \in SUBSET Seats : Sell(k, S)
    \/ TakeBack(k)
    \/ Refuse(k)

Spec == Init /\ [][Next]_vars
=============================================================================
