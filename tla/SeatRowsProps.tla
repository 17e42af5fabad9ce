--------------------------- MODULE SeatRowsProps ---------------------------
(***************************************************************************)
(* What SeatRows is checked for.                                           *)
(***************************************************************************)
EXTENDS SeatRows

TxOK(x) ==
  /\ x.kind \in Kinds /\ x.at \in Points
  /\ x.user \in Users \union {NoUser} /\ x.order \in Orders \union {NoOrder}
  /\ x.want \subseteq Seats /\ x.lag \in 0..MaxLag /\ x.fits \in BOOLEAN
  /\ x.todo \subseteq x.want /\ x.got \subseteq x.locked /\ x.locked \subseteq x.want
  /\ x.items \subseteq x.want
  /\ x.kind = "none" <=> x = Idle

\* Values and rows have the shape the schema gives them, and a transaction locks
\* and writes only rows it was asked for.
TypeOK ==
  /\ seat \in [Seats -> {"AVAILABLE", "HELD", "BOOKED"}]
  /\ heldBy \in [Seats -> Users \union {NoUser}]
  /\ left \in [Seats -> -(MaxLag + 1)..HoldTTL]
  /\ item \in [Seats -> Orders \union {NoOrder}]
  /\ status \in [Orders -> {"NONE", "PENDING", "PAID", "FAILED", "CANCELED"}]
  /\ buyer \in [Orders -> Users \union {NoUser}]
  /\ seatIds \in [Orders -> SUBSET Seats]
  /\ \A s \in Seats : /\ seat[s] = "HELD" <=> heldBy[s] # NoUser
                      /\ seat[s] # "HELD" => left[s] = 0
  /\ unheld \subseteq Seats
  /\ DOMAIN tx = Txs /\ \A t \in Txs : TxOK(tx[t])

\* The purchase limit under write skew: requests of one user for different rows
\* share no row lock, and still never get more than MaxSeats together, paid
\* seats included (lock_user_quota, queries.py:208).  Not counted are the seats
\* that were booked when the buyer no longer had them.
QuotaRespected ==
  \A u \in Users :
    Cardinality({s \in Seats : ValidHold(s, u)} \union (Bought(u) \ unheld)) <= MaxSeats

\* Transactions that hold seats never wait for each other in a circle
\* (ORDER BY seat_id FOR UPDATE, queries.py:269): among any of them one waits for
\* no other.  The statements without an order are the ones that can be part of a
\* deadlock, and PostgreSQL ends it.
NoHoldDeadlock ==
  \A T \in SUBSET {t \in Txs : tx[t].kind = "acquire"} :
    T # {} => \E t \in T : \A q \in T : ~WaitsFor(t, q)

\* A seat is BOOKED exactly while its order is PAID, and a PAID order has all its
\* seats, whatever happens to the rows between the statements of confirm_paid() and
\* of the last transaction of cancel().
SeatsFollowOrders ==
  /\ \A s \in Seats :
       seat[s] = "BOOKED" <=> item[s] # NoOrder /\ status[item[s]] = "PAID"
  /\ \A o \in Orders : status[o] = "PAID" => \A s \in seatIds[o] : item[s] = o

Lost(s, u) == ValidHold(s, u) /\ (seat'[s] # "HELD" \/ heldBy'[s] # u)

\* The holder of a valid hold loses it only to a transaction of their own, or to
\* the confirmation of an order (release_hold, queries.py:338; the clocks of the
\* sweep and of the next customer).
HoldOutlivesOthers ==
  [][\A s \in Seats, u \in Users : Lost(s, u) =>
       \E t \in Txs : /\ tx[t] # Idle /\ tx'[t] = Idle
                      /\ tx[t].user = u \/ tx[t].kind = "confirm"]_vars

\* ... and the order that is confirmed is their own.
LiveHoldKept ==
  [][\A s \in Seats, u \in Users : Lost(s, u) =>
       \E t \in Txs : tx[t] # Idle /\ tx'[t] = Idle /\ tx[t].user = u]_vars

\* The book has the rows and the orders, and no transactions.
Book == INSTANCE SeatBook

\* However the statements interleave, what is committed is what the transactions
\* would have done one at a time, each in one step judged on the rows of that
\* moment (the second look at a locked row, the advisory lock, the conditional
\* transitions of the order; queries.py:207-225, 271-281, 562-567).
ImplementsSeatBook == Book!Spec
=============================================================================
