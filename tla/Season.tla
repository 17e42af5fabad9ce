------------------------------- MODULE Season -------------------------------
(***************************************************************************)
(* Money over the life of a schedule: what is on sale (Stock), the total   *)
(* of an order (open_order), what its items cost (claim_order_items), and  *)
(* cancel() of app/service/order_service.py with the fee of the day it is  *)
(* asked for (CancelFee), while days pass between its steps.               *)
(*                                                                         *)
(* Who holds which seat, and how confirm_paid() gets there, is left to     *)
(* OrderSaga: a step of an order here is a whole transaction.              *)
(***************************************************************************)
EXTENDS Stock, CancelFee

CONSTANTS
  Orders, NoOrder,
  Handlers,   \* processes that run cancel()
  Times,      \* bound: the times at which something happens
  StartsAt,   \* of the schedule
  MaxRefusals \* bound: refunds that fail

ASSUME SeasonNobody == NoOrder \notin Orders
ASSUME TimesOK == Times \subseteq Nat /\ StartsAt \in Nat /\ MaxRefusals \in Nat

VARIABLES
  now,
  status, total, seatIds, \* orders
  item, itemPrice,        \* order_items: by seat, its order and its price
  approved,               \* orders that have an APPROVED row in payments
  cancel,                 \* a cancellation under way: its order, when, the fee
  payments,               \* rows of payments with a fee_snapshot: those cancel() writes.
                          \* What _refund_and_fail() gives back whole has none, and no fee
  returned,               \* the PG: amounts it gave back, by order
  refusals

orderVars == <<status, total, seatIds, item, itemPrice, approved>>
moneyVars == <<payments, returned, refusals>>
vars == <<stockVars, now, orderVars, cancel, moneyVars>>

NoCancel == [order |-> NoOrder, at |-> 0, fee |-> 0, refunded |-> FALSE]

Init ==
  /\ StockInit
  /\ now \in Times /\ \A t \in Times : now <= t
  /\ status = [o \in Orders |-> "NONE"]
  /\ total = [o \in Orders |-> 0]
  /\ seatIds = [o \in Orders |-> {}]
  /\ item = [s \in Seats |-> NoOrder]
  /\ itemPrice = [s \in Seats |-> 0]
  /\ approved = {}
  /\ cancel = [h \in Handlers |-> NoCancel]
  /\ payments = {}
  /\ returned = [o \in Orders |-> {}]
  /\ refusals = 0

-----------------------------------------------------------------------------
(* Orders.                                                                 *)

Taken == UNION {seatIds[o] : o \in {x \in Orders : status[x] \in {"PENDING", "PAID"}}}

\* The sum of f: in won, one after another.
Amount(f) == Cardinality({x \in (DOMAIN f) \X (1..MaxPrice) : x[2] <= f[x[1]]})

\* The database adds up the prices, as they are in the rows.
OpenOrder(o, S) ==
  /\ status[o] = "NONE"
  /\ S # {} /\ S \subseteq OnSale \ Taken
  /\ status' = [status EXCEPT ![o] = "PENDING"]
  /\ seatIds' = [seatIds EXCEPT ![o] = S]
  /\ total' = [total EXCEPT ![o] = Amount([s \in S |-> price[s]])]
  /\ UNCHANGED <<stockVars, now, item, itemPrice, approved, cancel, moneyVars>>

\* The charge is the total; the items take the prices of the rows again, and the
\* payment is put on record as APPROVED in the same transaction.
ConfirmPaid(o) ==
  /\ status[o] = "PENDING"
  /\ \A s \in seatIds[o] : item[s] = NoOrder
  /\ status' = [status EXCEPT ![o] = "PAID"]
  /\ item' = [s \in Seats |-> IF s \in seatIds[o] THEN o ELSE item[s]]
  /\ itemPrice' = [s \in Seats |-> IF s \in seatIds[o] THEN price[s] ELSE itemPrice[s]]
  /\ approved' = approved \union {o}
  /\ UNCHANGED <<stockVars, now, total, seatIds, cancel, moneyVars>>

\* place() closes as FAILED what was declined, _refund_and_fail() what it gave back, and
\* reconcile() as CANCELED what turns out never to have been approved.
CloseUnpaid(o, st) ==
  /\ status[o] = "PENDING"
  /\ status' = [status EXCEPT ![o] = st]
  /\ UNCHANGED <<stockVars, now, total, seatIds, item, itemPrice, approved, cancel,
                 moneyVars>>

-----------------------------------------------------------------------------
(* cancel().                                                               *)

\* It reads the order, its approved payment and the clock, once.
Ask(h, o) ==
  /\ cancel[h] = NoCancel
  /\ status[o] = "PAID" /\ o \in approved
  /\ ~CancelClosed(now, StartsAt)
  /\ cancel' = [cancel EXCEPT ![h] = [order |-> o, at |-> now, refunded |-> FALSE,
                                      fee |-> CancelFee(total[o], now, StartsAt)]]
  /\ UNCHANGED <<stockVars, now, orderVars, moneyVars>>

\* A row with the snapshot of the fee, and the amount the PG was asked to return.
Row(c, result) ==
  [id |-> Cardinality(payments) + 1, order |-> c.order, result |-> result,
   at |-> c.at, fee |-> c.fee, amount |-> total[c.order] - c.fee]

\* The PG carries out the refund and says so.
Refund(h) ==
  LET c == cancel[h] IN
  /\ c # NoCancel /\ ~c.refunded
  /\ returned' = [returned EXCEPT ![c.order] = @ \union {total[c.order] - c.fee}]
  /\ cancel' = [cancel EXCEPT ![h].refunded = TRUE]
  /\ UNCHANGED <<stockVars, now, orderVars, payments, refusals>>

\* The PG declines, or its answer is lost, whatever it did; the try is on record and
\* the order stays PAID.
RefundFailed(h) ==
  LET c == cancel[h] IN
  /\ c # NoCancel /\ ~c.refunded
  /\ refusals < MaxRefusals /\ refusals' = refusals + 1
  /\ payments' = payments \union {Row(c, "FAILED")}
  /\ \/ UNCHANGED returned
     \/ returned' = [returned EXCEPT ![c.order] = @ \union {total[c.order] - c.fee}]
  /\ cancel' = [cancel EXCEPT ![h] = NoCancel]
  /\ UNCHANGED <<stockVars, now, orderVars>>

\* Mutation: the fee is worked out again when it is put on record.
RecordCanceledFeeOfNow(h) ==
  LET c == cancel[h] IN
  /\ c.refunded
  /\ status[c.order] = "PAID"
  /\ status' = [status EXCEPT ![c.order] = "CANCELED"]
  /\ payments' = payments \union
       {Row([c EXCEPT !.fee = CancelFee(total[c.order], now, StartsAt)], "REFUNDED")}
  /\ cancel' = [cancel EXCEPT ![h] = NoCancel]
  /\ UNCHANGED <<stockVars, now, total, seatIds, item, itemPrice, approved, returned,
                 refusals>>
\* One transaction: the order, the payment, the seats and the message.
RecordCanceled(h) ==
  LET c == cancel[h] IN
  /\ c.refunded
  /\ status[c.order] = "PAID"
  /\ status' = [status EXCEPT ![c.order] = "CANCELED"]
  /\ payments' = payments \union {Row(c, "REFUNDED")}
  /\ cancel' = [cancel EXCEPT ![h] = NoCancel]
  /\ UNCHANGED <<stockVars, now, total, seatIds, item, itemPrice, approved, returned,
                 refusals>>

\* Somebody else canceled it in between, and this refund goes unrecorded.
CanceledBefore(h) ==
  LET c == cancel[h] IN
  /\ c.refunded
  /\ status[c.order] # "PAID"
  /\ cancel' = [cancel EXCEPT ![h] = NoCancel]
  /\ UNCHANGED <<stockVars, now, orderVars, moneyVars>>

-----------------------------------------------------------------------------
Tick ==
  /\ now' \in {t \in Times : t > now}
  /\ UNCHANGED <<stockVars, orderVars, cancel, moneyVars>>

Next ==
  \/ StockNext /\ UNCHANGED <<now, orderVars, cancel, moneyVars>>
  \/ \E o \in Orders, S \in SUBSET Seats : OpenOrder(o, S)
  \/ \E o \in Orders : ConfirmPaid(o) \/ CloseUnpaid(o, "FAILED") \/ CloseUnpaid(o, "CANCELED")
  \/ \E h \in Handlers, o \in Orders : Ask(h, o)
  \/ \E h \in Handlers :
       Refund(h) \/ RefundFailed(h) \/ RecordCanceled(h) \/ CanceledBefore(h)
  \/ Tick

Spec == Init /\ [][Next]_vars
=============================================================================
