--------------------------- MODULE OrderSagaProps ---------------------------
(***************************************************************************)
(* What OrderSaga is checked for.                                          *)
(***************************************************************************)
EXTENDS OrderSaga

SeatsTyped ==
  /\ seat \in [Seats -> SeatStatus]
  /\ heldBy \in [Seats -> Users \union {NoUser}]
  /\ left \in [Seats -> -1..HoldTTL]
  /\ \A s \in Seats : /\ seat[s] = "HELD" <=> heldBy[s] # NoUser
                      /\ seat[s] # "HELD" => left[s] = 0

OrdersTyped ==
  /\ item \in [Seats -> Orders \union {NoOrder}] /\ unheld \subseteq Seats
  /\ status \in [Orders -> OrderStatus \union {"NONE"}]
  /\ buyer \in [Orders -> Users \union {NoUser}]
  /\ seatIds \in [Orders -> SUBSET Seats]
  /\ snapshot \in [Orders -> SUBSET Seats]
  /\ age \in [Orders -> 0..PendingLimit + 1]
  /\ pays \in [Orders -> [PayStatus -> Nat]]
  /\ outbox \in [Orders -> Seq(Topics)]
  /\ charged \in [Orders -> BOOLEAN]
  /\ refunds \in [Orders -> Nat]

ProcsTyped ==
  /\ pc \in [Procs -> PCs]
  /\ job \in [Procs -> Orders \union {NoOrder}]
  /\ todo \in [Procs -> SUBSET Orders]
  /\ \A p \in Procs :
       /\ pc[p] \in {"idle", "inquire"} <=> job[p] = NoOrder
       /\ pc[p] = "inquire" => todo[p] # {}
       /\ pc[p] = "idle" => todo[p] = {}
       /\ p \notin Reconcilers => todo[p] = {}
       /\ p \in Webhooks => pc[p] \in {"idle", "book"}
  /\ faults \in 0..MaxFaults

\* Every column and variable holds a value of its domain; held_by and
\* hold_expires_at are set exactly on HELD rows (ck_schedule_seats_hold_shape,
\* models.py:187); a process has an order to work on in every step of place(),
\* cancel() and reconcile() that needs one.
TypeOK == SeatsTyped /\ OrdersTyped /\ ProcsTyped

-----------------------------------------------------------------------------
(* Seats and orders.                                                       *)

\* A seat is BOOKED exactly while the order of its order_items row is PAID, and
\* a PAID order has all the seats it asked for.  Nobody keeps a seat without a
\* paid order or pays for a seat that another order has, however placing,
\* reconciling, webhooks, cancellation and the sweep interleave
\* (confirm_paid, cancel, restore_order_seats, sweep_expired_holds).
SeatsFollowOrders ==
  /\ \A s \in Seats :
       seat[s] = "BOOKED" <=> item[s] # NoOrder /\ status[item[s]] = "PAID"
  /\ \A k \in Orders : status[k] = "PAID" =>
       seatIds[k] # {} /\ \A s \in seatIds[k] : item[s] = k

\* No two PAID orders share a seat (order_items.schedule_seat_id UNIQUE as the
\* last of the three layers of idempotency, order_service.py:140-144).
NoDoubleSale ==
  \A j, k \in Orders :
    j # k /\ status[j] = "PAID" /\ status[k] = "PAID"
      => seatIds[j] \intersect seatIds[k] = {}

\* An order that was ever confirmed.
EverPaid(k) ==
  status[k] = "PAID" \/ (status[k] = "CANCELED" /\ snapshot[k] # {})

RecordsMatch(k) ==
  /\ pays[k]["APPROVED"] = IF EverPaid(k) THEN 1 ELSE 0
  /\ outbox[k] = IF ~EverPaid(k) THEN <<>>
                 ELSE IF status[k] = "PAID" THEN <<"order.paid">>
                 ELSE <<"order.paid", "order.canceled">>
  /\ snapshot[k] = IF EverPaid(k) THEN seatIds[k] ELSE {}
  /\ EverPaid(k) <=> seatIds[k] # {} /\ \A s \in seatIds[k] : item[s] = k
  /\ status[k] \in Resolved => pays[k]["REQUESTED"] = 0

\* What confirm_paid() writes in one transaction is seen together or not at
\* all: the order's items, exactly one APPROVED payment, the stored answer that
\* names all its seats, and the order.paid message; the order.canceled message
\* exists exactly when a paid order was canceled.  No order that ended keeps an
\* open payment attempt (fail_pending_payments, queries.py:739).
RecordsFollowStatus == \A k \in Orders : RecordsMatch(k)

\* The user gives the seat up: a change of seats, or the end of an order of theirs.
GivesUp(u, s) ==
  /\ seat'[s] = "AVAILABLE"
  /\ \/ \E S \in SUBSET Seats : s \in S /\ Release(u, S)
     \/ \E p \in Procs :
          pc[p] \in {"close", "record_refunded"} /\ buyer[job[p]] = u /\ s \in seatIds[job[p]]

\* While a hold is valid the seat stays with its holder, unless the holder gives it up
\* or a confirmation that is past its check books it; and no confirmation for another
\* user passes its check meanwhile.  Neither a hold of another user, nor the sweep, nor
\* an order that comes to confirm_paid() takes it (hold_seats, queries.py:90;
\* sweep_expired_holds; claim_order_items, 624).  What the code leaves open is the
\* confirmation that had read the hold of its own buyer before this hold was taken:
\* book_order_seats does not look at the holder again (651; see find_stolen).
HoldProtectsSeat ==
  [][\A s \in Seats, u \in Users :
       ValidHold(s, u) =>
         /\ \/ heldBy'[s] = u
            \/ GivesUp(u, s)
            \/ /\ seat'[s] = "BOOKED"
               /\ \E p \in Procs : pc[p] = "book" /\ job[p] = item'[s]
         /\ \A p \in Procs :
              pc[p] # "book" /\ pc'[p] = "book" /\ s \in seatIds[job'[p]]
                => buyer[job'[p]] = u]_vars

\* A sold seat comes back only by the cancellation of its order, after the PG
\* carried out a refund of that order (cancel(), "refund before restore").
RestoreAfterRefund ==
  [][\A s \in Seats :
       seat[s] = "BOOKED" /\ seat'[s] # "BOOKED" =>
         LET k == item[s] IN
           /\ status[k] = "PAID" /\ status'[k] = "CANCELED"
           /\ refunds[k] > 0
           /\ seat'[s] = "AVAILABLE"]_vars

-----------------------------------------------------------------------------
(* Money.                                                                  *)

\* A customer has seats only if the PG took the money, and loses neither seat
\* nor money: an order that was charged and ended without its seats was
\* refunded at least once (HoldExpired, order_service.py:55-60).
MoneyFollowsSeats ==
  \A k \in Orders :
    /\ status[k] = "PAID" => charged[k]
    /\ status[k] \in {"FAILED", "CANCELED"} /\ charged[k] => refunds[k] > 0

-----------------------------------------------------------------------------
(* Liveness.                                                               *)

\* order_reconciler: an order without a conclusion gets one, if the PG ever knows
\* one, whatever orders it is silent about are asked about beside it (reconcile(),
\* "continue"; unresolved_orders, the oldest first and a batch at a time).
PendingResolved ==
  \A k \in Orders \ Silent : status[k] = "PENDING" ~> status[k] \in Resolved

\* hold_sweeper: a seat does not stay behind an expired hold.
ExpiredHoldReclaimed ==
  \A s \in Seats :
    seat[s] = "HELD" /\ left[s] < 0 ~> ~(seat[s] = "HELD" /\ left[s] < 0)

-----------------------------------------------------------------------------
(* The ticket office the saga implements.                                  *)

Outcome(k) ==
  IF status[k] \in {"NONE", "PENDING"} THEN "open"
  ELSE IF status[k] = "PAID" THEN "sold"
  ELSE IF EverPaid(k) THEN "returned"
  ELSE "refused"

Office == INSTANCE TicketOffice WITH
  owner <- [s \in Seats |-> IF seat[s] = "BOOKED" THEN item[s] ELSE NoOrder],
  outcome <- [k \in Orders |-> Outcome(k)],
  told <- outbox

\* Every step of the saga is a sale, a return or a refusal of the ticket
\* office, or leaves what customers can see unchanged.
ImplementsTicketOffice == Office!Spec

Book == INSTANCE SeatBook WITH MaxLag <- 0

\* A transaction of the saga is a step of the seat book, the same that SeatRows
\* implements statement by statement.  Here a hold lasts HoldTTL from its commit.
ImplementsSeatBook == Book!Spec

-----------------------------------------------------------------------------
(* What the repository says and the code does not keep.                    *)

\* confirm_paid() refuses with HoldExpired only when a hold is missing or over
\* (order_service.py:56: "the hold was gone or had expired at confirmation").
HoldExpiredMeansNoHold ==
  [][\A p \in Procs :
       pc[p] \in {"confirm", "book"} /\ pc'[p] = "refund" =>
         \E s \in seatIds[job[p]] : ~ValidHold(s, buyer[job[p]])]_vars

\* Refunds the PG has carried out and a process has yet to record.
Unrecorded(k) ==
  {p \in Procs : job[p] = k /\ pc[p] \in {"record_refunded", "cancel_commit"}}

\* Without crashes and lost answers, every refund is on record (order_service.py
\* line 401: the loser of a cancellation race only leaves the record).
RefundsRecorded ==
  \A k \in Orders : refunds[k] = pays[k]["REFUNDED"] + Cardinality(Unrecorded(k))
=============================================================================
