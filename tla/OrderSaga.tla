----------------------------- MODULE OrderSaga -----------------------------
(***************************************************************************)
(* The seat hold, the order saga and the cancellation of the ticket store: *)
(* app/service/order_service.py and hold_service.py over the statements of *)
(* app/infra/db/queries.py and the gateway of app/infra/pg.                *)
(*                                                                         *)
(* A database transaction is one action, but for that of confirm_paid():   *)
(* it locks its order, reads the holds of the buyer without a lock, and    *)
(* books the seats in a later statement, so it is two.  Every call to the  *)
(* payment company is a step of its own, because the code makes it outside *)
(* any transaction: between the call and the transaction that records its  *)
(* answer anything may happen, a crash of the caller included.             *)
(*                                                                         *)
(* There is no clock.  left[s] is the time the hold of s still has, and    *)
(* age[k] the time since order k was created; Tick moves both.             *)
(***************************************************************************)
EXTENDS Integers, Sequences, FiniteSets

CONSTANTS
  Seats,          \* the seats of one schedule
  Users,
  Orders,         \* order ids; one idempotency key stands behind each
  Handlers,       \* API request handlers: each runs one place() or cancel()
  Reconcilers,    \* order_reconciler workers: each runs reconcile()
  Webhooks,       \* deliveries of POST /webhooks/pg: each confirms one order
  NoUser, NoOrder,
  HoldTTL,        \* policy.HOLD_TTL, in ticks
  MinRemaining,   \* policy.MIN_HOLD_REMAINING_FOR_PAYMENT
  PendingLimit,   \* policy.PAYMENT_PENDING_LIMIT
  MaxSeats,       \* policy.MAX_SEATS_PER_ORDER
  SweepBatch, ReconcileBatch,
  PromptPG,       \* TRUE: the PG never charges an order older than PendingLimit
  Silent,         \* orders about which the PG may leave every call unanswered, and
                  \* inquire() never gives a conclusive answer
  MaxFaults       \* bound: crashes, lost or inconclusive answers, failed refunds

Procs == Handlers \union Reconcilers \union Webhooks
SeatStatus == {"AVAILABLE", "HELD", "BOOKED"}
Resolved == {"PAID", "FAILED", "CANCELED"}
OrderStatus == Resolved \union {"PENDING"}
PayStatus == {"REQUESTED", "APPROVED", "FAILED", "REFUNDED"}
Topics == {"order.paid", "order.canceled"}
PCs == {"idle", "approve", "inquire", "confirm", "book", "close", "refund",
        "record_refunded", "record_failed",
        "cancel_refund", "cancel_commit", "cancel_failed"}

ASSUME SetsFinite == IsFiniteSet(Seats) /\ IsFiniteSet(Orders)
ASSUME SentinelsOK == NoUser \notin Users /\ NoOrder \notin Orders
ASSUME RolesOK ==
  /\ Handlers \intersect Reconcilers = {}
  /\ Webhooks \intersect (Handlers \union Reconcilers) = {}
ASSUME SilentOK == Silent \subseteq Orders
ASSUME TimesOK ==
  /\ HoldTTL \in Nat \ {0} /\ MinRemaining \in Nat /\ PendingLimit \in Nat
  /\ MinRemaining < HoldTTL
ASSUME BoundsOK ==
  /\ MaxSeats \in Nat \ {0} /\ MaxFaults \in Nat
  /\ PromptPG \in BOOLEAN
  /\ SweepBatch \in Nat \ {0} /\ ReconcileBatch \in Nat \ {0}

VARIABLES
  seat,      \* schedule_seats.status
  heldBy,    \* schedule_seats.held_by
  left,      \* hold_expires_at - now(), not below -1; 0 when hold_expires_at is NULL
  item,      \* order_items: the order a seat's one row belongs to (UNIQUE)
  unheld,    \* history: seats booked when their buyer had no valid hold any more
  status,    \* orders.status, "NONE" before the row exists
  buyer,     \* orders.user_id
  seatIds,   \* orders.seat_ids
  snapshot,  \* the seats in orders.response_snapshot, {} while NULL
  age,       \* now() - orders.created_at, not above PendingLimit + 1
  pays,      \* payments: how many rows of each status an order has
  outbox,    \* outbox: the topics committed for an order, in id order
  charged,   \* the PG's ledger: it took the money of the order
  refunds,   \* the PG's books: how many refunds of the order it carried out
  pc, job,   \* where each process stands, and the order it works on
  todo,      \* candidates a reconciler scanned and has not asked about yet
  faults

seatVars == <<seat, heldBy, left>>
orderVars == <<status, buyer, seatIds, snapshot, age>>
pgVars == <<charged, refunds>>
procVars == <<pc, job, todo, faults>>
vars == <<seat, heldBy, left, item, unheld, status, buyer, seatIds, snapshot,
          age, pays, outbox, charged, refunds, pc, job, todo, faults>>

Init ==
  /\ seat = [s \in Seats |-> "AVAILABLE"]
  /\ heldBy = [s \in Seats |-> NoUser]
  /\ left = [s \in Seats |-> 0]
  /\ item = [s \in Seats |-> NoOrder]
  /\ unheld = {}
  /\ status = [k \in Orders |-> "NONE"]
  /\ buyer = [k \in Orders |-> NoUser]
  /\ seatIds = [k \in Orders |-> {}]
  /\ snapshot = [k \in Orders |-> {}]
  /\ age = [k \in Orders |-> 0]
  /\ pays = [k \in Orders |-> [st \in PayStatus |-> 0]]
  /\ outbox = [k \in Orders |-> <<>>]
  /\ charged = [k \in Orders |-> FALSE]
  /\ refunds = [k \in Orders |-> 0]
  /\ pc = [p \in Procs |-> "idle"]
  /\ job = [p \in Procs |-> NoOrder]
  /\ todo = [p \in Procs |-> {}]
  /\ faults = 0

-----------------------------------------------------------------------------
(* Seats and holds.                                                        *)

SetOn(f, S, v) == [x \in DOMAIN f |-> IF x \in S THEN v ELSE f[x]]

\* hold_expires_at > now() and hold_expires_at < now() are both false at the
\* boundary left[s] = 0: such a hold is neither valid nor up for grabs.
ValidHold(s, u) == seat[s] = "HELD" /\ heldBy[s] = u /\ left[s] > 0
ExpiredSeats == {s \in Seats : seat[s] = "HELD" /\ left[s] < 0}

\* Mutation: a hold can be taken whether it expired or not.
ClaimableAnyHold(s) == seat[s] \in {"AVAILABLE", "HELD"}
Claimable(s) == seat[s] = "AVAILABLE" \/ s \in ExpiredSeats

\* What counts against the purchase limit: valid holds, and booked seats whose
\* order_items row leads to a PAID order of the user.
Owned(u) ==
  {s \in Seats :
     \/ ValidHold(s, u)
     \/ /\ seat[s] = "BOOKED" /\ item[s] # NoOrder
        /\ status[item[s]] = "PAID" /\ buyer[item[s]] = u}

SetHold(S, u) ==
  /\ seat' = SetOn(seat, S, "HELD")
  /\ heldBy' = SetOn(heldBy, S, u)
  /\ left' = SetOn(left, S, HoldTTL)

\* Every statement that ends a hold clears held_by and hold_expires_at too.
\* Mutation: the hold columns are left behind.
EndHoldKeepsOwner(S, st) ==
  /\ seat' = SetOn(seat, S, st)
  /\ left' = SetOn(left, S, 0)
  /\ UNCHANGED heldBy
EndHold(S, st) ==
  /\ seat' = SetOn(seat, S, st)
  /\ heldBy' = SetOn(heldBy, S, NoUser)
  /\ left' = SetOn(left, S, 0)

\* release_hold: the caller's own holds, valid or not, among S.
Releasable(u, S) == {s \in S : seat[s] = "HELD" /\ heldBy[s] = u}

\* hold_service.acquire: all the seats or none, within the limit.
Hold(u, S) ==
  /\ S # {} /\ Cardinality(S) <= MaxSeats
  /\ \A s \in S : Claimable(s)
  /\ Cardinality(Owned(u)) + Cardinality(S) <= MaxSeats
  /\ SetHold(S, u)
  /\ UNCHANGED <<item, unheld, orderVars, pays, outbox, pgVars, procVars>>

\* hold_service.release, from the user's change of seats.
Release(u, S) ==
  /\ S # {} /\ Releasable(u, S) = S
  /\ EndHold(S, "AVAILABLE")
  /\ UNCHANGED <<item, unheld, orderVars, pays, outbox, pgVars, procVars>>

\* The n oldest of the elements of S, by a measure where lower is older.
Oldest(S, n, measure) ==
  {T \in SUBSET S :
     /\ Cardinality(T) = IF Cardinality(S) < n THEN Cardinality(S) ELSE n
     /\ \A x \in T, y \in S \ T : measure[x] <= measure[y]}

SweepFrom(Expired) ==
  /\ Expired # {}
  /\ \E S \in Oldest(Expired, SweepBatch, left) : EndHold(S, "AVAILABLE")
  /\ UNCHANGED <<item, unheld, orderVars, pays, outbox, pgVars, procVars>>
\* Mutation: seats that have an order_items row are left out.
SweepUnsoldOnly == SweepFrom({s \in ExpiredSeats : item[s] = NoOrder})
\* hold_sweeper: one tick takes back at most a batch of expired holds.
Sweep == SweepFrom(ExpiredSeats)

Tick ==
  /\ left' = [s \in Seats |->
                IF seat[s] = "HELD" /\ left[s] > -1 THEN left[s] - 1 ELSE left[s]]
  /\ age' = [k \in Orders |->
               IF status[k] # "NONE" /\ age[k] <= PendingLimit
               THEN age[k] + 1 ELSE age[k]]
  /\ UNCHANGED <<seat, heldBy, item, unheld, status, buyer, seatIds, snapshot,
                 pays, outbox, pgVars, procVars>>

-----------------------------------------------------------------------------
(* Processes.                                                              *)

Goto(p, l) == pc' = [pc EXCEPT ![p] = l] /\ UNCHANGED <<job, todo>>

\* The call on this order is over: a handler answers its client, a reconciler
\* goes to its next candidate.
Finish(p) ==
  /\ pc' = [pc EXCEPT ![p] = IF todo[p] = {} THEN "idle" ELSE "inquire"]
  /\ job' = [job EXCEPT ![p] = NoOrder]
  /\ UNCHANGED todo

Fault == faults < MaxFaults /\ faults' = faults + 1
NoFault == UNCHANGED faults
\* UNKNOWN: a fault, but for the orders the PG is silent about.
Unknown(k) == IF k \in Silent THEN NoFault ELSE Fault

\* A row of the given status is added to the payments of an order.
AddRow(rows, st) == [rows EXCEPT ![st] = @ + 1]

\* fail_pending_payments.
\* Mutation: the REQUESTED attempts stay open.
FailRequestedNot(rows) == rows
FailRequested(rows) ==
  [rows EXCEPT !["FAILED"] = @ + rows["REQUESTED"], !["REQUESTED"] = 0]

-----------------------------------------------------------------------------
(* place(), confirm_paid() and the endings of an unpaid order.             *)

\* First transaction of place(): the order and its REQUESTED attempt.  A key
\* that exists already changes nothing and only replays the stored answer.
PlaceOpen(p, k, u, S) ==
  /\ pc[p] = "idle" /\ p \in Handlers
  /\ status[k] = "NONE"
  /\ S # {}
  /\ \A s \in S : ValidHold(s, u) /\ left[s] > MinRemaining
  /\ status' = [status EXCEPT ![k] = "PENDING"]
  /\ buyer' = [buyer EXCEPT ![k] = u]
  /\ seatIds' = [seatIds EXCEPT ![k] = S]
  /\ age' = [age EXCEPT ![k] = 0]
  /\ pays' = [pays EXCEPT ![k] = AddRow(@, "REQUESTED")]
  /\ pc' = [pc EXCEPT ![p] = "approve"]
  /\ job' = [job EXCEPT ![p] = k]
  /\ UNCHANGED <<seatVars, item, unheld, snapshot, outbox, pgVars, todo, faults>>

MayCharge(k) == PromptPG => age[k] <= PendingLimit

\* gateway.approve().  A charge whose answer is lost and an attempt that never
\* reached the PG look the same to the caller: UNKNOWN, and place() stops,
\* leaving the order PENDING.
Approve(p) ==
  LET k == job[p] IN
  /\ pc[p] = "approve"
  /\ \/ /\ MayCharge(k)                                     \* APPROVED
        /\ charged' = [charged EXCEPT ![k] = TRUE]
        /\ Goto(p, "confirm") /\ NoFault
     \/ /\ MayCharge(k)                                     \* charged, UNKNOWN
        /\ charged' = [charged EXCEPT ![k] = TRUE]
        /\ Finish(p) /\ Unknown(k)
     \/ UNCHANGED charged /\ Finish(p) /\ Unknown(k)        \* UNKNOWN
     \/ UNCHANGED charged /\ Goto(p, "close") /\ NoFault    \* DECLINED
  /\ UNCHANGED <<seatVars, item, unheld, orderVars, pays, outbox, refunds>>

\* The transaction of confirm_paid() holds the lock of its order's row from
\* mark_order_paid on; who wants to change that row waits.
\* Mutation: mark_order_paid locks nothing.
RowNotLocked(k) == TRUE
RowFree(k) == \A q \in Procs : ~(pc[q] = "book" /\ job[q] = k)

\* The SELECT of claim_order_items: the buyer has valid holds on all the seats.  It
\* locks none of them.
Claimed(k) == seatIds[k] # {} /\ \A s \in seatIds[k] : ValidHold(s, buyer[k])

\* Its INSERT and book_order_seats: no seat of the order has an order_items row yet
\* (schedule_seat_id is UNIQUE), and each is HELD, by whomever that may be.
\* Mutation: the seats are booked as they are.
BookableAny(k) == seatIds[k] # {}
Bookable(k) == \A s \in seatIds[k] : seat[s] = "HELD" /\ item[s] = NoOrder

\* promote_payment_to_approved, or insert_payment when no attempt is open.
ApproveRows(rows) ==
  IF rows["REQUESTED"] > 0
  THEN [rows EXCEPT !["APPROVED"] = @ + rows["REQUESTED"], !["REQUESTED"] = 0]
  ELSE AddRow(rows, "APPROVED")

\* What confirm_paid() tests when it books the seats, and everything it writes.
ConfirmCommit(k) ==
  /\ Bookable(k)
  /\ status' = [status EXCEPT ![k] = "PAID"]
  /\ item' = SetOn(item, seatIds[k], k)
  /\ unheld' = unheld \union {s \in seatIds[k] : ~ValidHold(s, buyer[k])}
  /\ EndHold(seatIds[k], "BOOKED")
  /\ pays' = [pays EXCEPT ![k] = ApproveRows(@)]
  /\ outbox' = [outbox EXCEPT ![k] = Append(@, "order.paid")]
  /\ snapshot' = [snapshot EXCEPT ![k] = seatIds[k]]
  /\ UNCHANGED <<buyer, seatIds, age>>

\* HoldExpired: place() and reconcile() go on to refund, a webhook has nothing to do.
HoldExpired(p) ==
  \/ p \notin Webhooks /\ Goto(p, "refund")
  \/ p \in Webhooks /\ Finish(p)

\* confirm_paid() up to what it reads of the holds.  mark_order_paid finds the order
\* PENDING, or the call ends with a FALSE that is ignored.
Confirm(p) ==
  LET k == job[p] IN
  /\ pc[p] = "confirm" /\ RowFree(k)
  /\ \/ status[k] = "PENDING" /\ Claimed(k) /\ Goto(p, "book")
     \/ status[k] = "PENDING" /\ ~Claimed(k) /\ Goto(p, "refund")
     \/ status[k] # "PENDING" /\ Finish(p)
  /\ UNCHANGED <<seatVars, item, unheld, orderVars, pays, outbox, pgVars, faults>>

\* The rest of it, after anybody may have moved the seats: nobody locked those.  A
\* seat that cannot be booked rolls everything back.
BookSeats(p) ==
  LET k == job[p] IN
  /\ pc[p] = "book"
  /\ \/ ConfirmCommit(k) /\ Finish(p)
     \/ /\ ~Bookable(k) /\ HoldExpired(p)
        /\ UNCHANGED <<seatVars, item, unheld, orderVars, pays, outbox>>
  /\ UNCHANGED <<pgVars, faults>>

\* POST /webhooks/pg calls the same confirm_paid() for an order the PG charged, as
\* often as the PG sends it.  Where confirm_paid() ends before it books, nothing comes
\* of the call.
Webhook(p, k) ==
  /\ pc[p] = "idle" /\ p \in Webhooks
  /\ charged[k] /\ RowFree(k)
  /\ status[k] = "PENDING" /\ Claimed(k)
  /\ pc' = [pc EXCEPT ![p] = "book"]
  /\ job' = [job EXCEPT ![p] = k]
  /\ UNCHANGED <<seatVars, item, unheld, orderVars, pays, outbox, pgVars, todo, faults>>

\* mark_order(expect=PENDING) followed by the release of the buyer's holds on
\* the order's seats, whichever order or re-hold they now serve.
CloseUnpaid(k, st) ==
  IF status[k] = "PENDING"
  THEN /\ status' = [status EXCEPT ![k] = st]
       /\ pays' = [pays EXCEPT ![k] = FailRequested(@)]
       /\ EndHold(Releasable(buyer[k], seatIds[k]), "AVAILABLE")
       /\ UNCHANGED <<item, unheld, buyer, seatIds, snapshot, age, outbox>>
  ELSE UNCHANGED <<seatVars, item, unheld, orderVars, pays, outbox>>

\* place() closes a declined order as FAILED, reconcile() an unpaid one as
\* CANCELED.
Close(p) ==
  /\ pc[p] = "close" /\ RowFree(job[p])
  /\ CloseUnpaid(job[p], IF p \in Handlers THEN "FAILED" ELSE "CANCELED")
  /\ Finish(p)
  /\ UNCHANGED <<pgVars, faults>>

\* gateway.refund().  After UNKNOWN the money may or may not have moved.
PgRefund(p, k, approved, otherwise) ==
  \/ /\ refunds' = [refunds EXCEPT ![k] = @ + 1]
     /\ Goto(p, approved) /\ NoFault
  \/ /\ refunds' = [refunds EXCEPT ![k] = @ + 1]
     /\ Goto(p, otherwise) /\ Fault
  \/ /\ UNCHANGED refunds
     /\ Goto(p, otherwise) /\ Fault

\* The external half of _refund_and_fail().
Refund(p) ==
  /\ pc[p] = "refund"
  /\ PgRefund(p, job[p], "record_refunded", "record_failed")
  /\ UNCHANGED <<seatVars, item, unheld, orderVars, pays, outbox, charged>>

\* Mutation: the order is closed before the refund is known to have succeeded.
RecordFailedCloses(p) ==
  LET k == job[p] IN
  /\ pc[p] = "record_failed" /\ RowFree(k)
  /\ pays' = [pays EXCEPT ![k] = FailRequested(AddRow(@, "FAILED"))]
  /\ status' = [status EXCEPT ![k] = IF @ = "PENDING" THEN "FAILED" ELSE @]
  /\ Finish(p)
  /\ UNCHANGED <<seatVars, item, unheld, buyer, seatIds, snapshot, age, outbox, pgVars, faults>>
\* The transaction of _refund_and_fail() when the refund failed: the attempt is
\* recorded and the order stays PENDING for the next reconcile().
RecordFailed(p) ==
  LET k == job[p] IN
  /\ pc[p] = "record_failed"
  /\ pays' = [pays EXCEPT ![k] = FailRequested(AddRow(@, "FAILED"))]
  /\ Finish(p)
  /\ UNCHANGED <<seatVars, item, unheld, orderVars, outbox, pgVars, faults>>

\* The transaction of _refund_and_fail() after a refund.  The release is not
\* conditional on the transition to FAILED having found the order PENDING.
PutOnRecord(p, st) ==
  LET k == job[p] IN
  /\ pc[p] = "record_refunded" /\ RowFree(k)
  /\ pays' = [pays EXCEPT ![k] = FailRequested(AddRow(@, "REFUNDED"))]
  /\ status' = [status EXCEPT ![k] = st]
  /\ EndHold(Releasable(buyer[k], seatIds[k]), "AVAILABLE")
  /\ Finish(p)
  /\ UNCHANGED <<item, unheld, buyer, seatIds, snapshot, age, outbox, pgVars, faults>>
\* Mutation: the transition to FAILED does not expect the order PENDING.
RecordRefundedAnyStatus(p) == PutOnRecord(p, "FAILED")
RecordRefunded(p) ==
  PutOnRecord(p, IF status[job[p]] = "PENDING" THEN "FAILED" ELSE status[job[p]])

-----------------------------------------------------------------------------
(* reconcile().                                                            *)

\* Mutation: an order is picked up by its open payment attempt.
UnresolvedByAttempt ==
  {k \in Orders : status[k] = "PENDING" /\ age[k] > PendingLimit
                  /\ pays[k]["REQUESTED"] > 0}
\* unresolved_orders, which skips locked rows.
Unresolved ==
  {k \in Orders : status[k] = "PENDING" /\ age[k] > PendingLimit /\ RowFree(k)}

\* Oldest order first, at most a batch; the set is a snapshot and goes stale.
Scan(p) ==
  /\ pc[p] = "idle" /\ p \in Reconcilers
  /\ Unresolved # {}
  /\ \E T \in Oldest(Unresolved, ReconcileBatch, [k \in Orders |-> -age[k]]) :
       todo' = [todo EXCEPT ![p] = T]
  /\ pc' = [pc EXCEPT ![p] = "inquire"]
  /\ UNCHANGED <<seatVars, item, unheld, orderVars, pays, outbox, pgVars, job, faults>>

\* What inquire() says about order k: the PG's ledger decides, and an UNKNOWN
\* answer leaves the order to the next tick.
Conclusive(p, k) ==
  /\ k \notin Silent /\ NoFault
  /\ pc' = [pc EXCEPT ![p] = IF charged[k] THEN "confirm" ELSE "close"]
  /\ job' = [job EXCEPT ![p] = k]
  /\ todo' = [todo EXCEPT ![p] = @ \ {k}]
Inconclusive(p, k, rest) ==
  /\ Unknown(k)
  /\ pc' = [pc EXCEPT ![p] = IF rest = {} THEN "idle" ELSE "inquire"]
  /\ todo' = [todo EXCEPT ![p] = rest]
  /\ UNCHANGED job

\* Mutation: the loop ends at an UNKNOWN answer.
InquireStops(p) ==
  /\ pc[p] = "inquire"
  /\ \E k \in todo[p] : Conclusive(p, k) \/ Inconclusive(p, k, {})
  /\ UNCHANGED <<seatVars, item, unheld, orderVars, pays, outbox, pgVars>>
\* One turn of the loop over the candidates.
Inquire(p) ==
  /\ pc[p] = "inquire"
  /\ \E k \in todo[p] : Conclusive(p, k) \/ Inconclusive(p, k, todo[p] \ {k})
  /\ UNCHANGED <<seatVars, item, unheld, orderVars, pays, outbox, pgVars>>

-----------------------------------------------------------------------------
(* cancel().                                                               *)

\* The read: only a PAID order with an approved payment goes on.
CancelStart(p, k) ==
  /\ pc[p] = "idle" /\ p \in Handlers
  /\ status[k] = "PAID" /\ pays[k]["APPROVED"] > 0
  /\ pc' = [pc EXCEPT ![p] = "cancel_refund"]
  /\ job' = [job EXCEPT ![p] = k]
  /\ UNCHANGED <<seatVars, item, unheld, orderVars, pays, outbox, pgVars, todo, faults>>

\* Mutation: the seats are restored first, the money is returned afterwards.
CancelRefundSkipped(p) ==
  /\ pc[p] = "cancel_refund"
  /\ Goto(p, "cancel_commit") /\ NoFault
  /\ UNCHANGED <<seatVars, item, unheld, orderVars, pays, outbox, charged, refunds>>
CancelRefund(p) ==
  /\ pc[p] = "cancel_refund"
  /\ PgRefund(p, job[p], "cancel_commit", "cancel_failed")
  /\ UNCHANGED <<seatVars, item, unheld, orderVars, pays, outbox, charged>>

\* The refund failed: one FAILED row, and the order stays PAID.
CancelFailed(p) ==
  /\ pc[p] = "cancel_failed"
  /\ pays' = [pays EXCEPT ![job[p]] = AddRow(@, "FAILED")]
  /\ Finish(p)
  /\ UNCHANGED <<seatVars, item, unheld, orderVars, outbox, pgVars, faults>>

\* restore_order_seats: the order_items rows stay.
Restore(k) ==
  /\ seat' = SetOn(seat, {s \in Seats : item[s] = k /\ seat[s] = "BOOKED"}, "AVAILABLE")
  /\ UNCHANGED <<heldBy, left, item, unheld>>

\* The last transaction of cancel().  Whoever loses the transition to CANCELED
\* returns without writing anything.
CancelCommit(p) ==
  LET k == job[p] IN
  /\ pc[p] = "cancel_commit"
  /\ \/ /\ status[k] = "PAID"
        /\ status' = [status EXCEPT ![k] = "CANCELED"]
        /\ pays' = [pays EXCEPT ![k] = AddRow(@, "REFUNDED")]
        /\ Restore(k)
        /\ outbox' = [outbox EXCEPT ![k] = Append(@, "order.canceled")]
        /\ UNCHANGED <<buyer, seatIds, snapshot, age>>
     \/ /\ status[k] # "PAID"
        /\ UNCHANGED <<seatVars, item, unheld, orderVars, pays, outbox>>
  /\ Finish(p)
  /\ UNCHANGED <<pgVars, faults>>

-----------------------------------------------------------------------------
\* The process dies between two steps: what it committed stays, what it knew
\* is gone.
Crash(p) ==
  /\ pc[p] # "idle"
  /\ pc' = [pc EXCEPT ![p] = "idle"]
  /\ job' = [job EXCEPT ![p] = NoOrder]
  /\ todo' = [todo EXCEPT ![p] = {}]
  /\ Fault
  /\ UNCHANGED <<seatVars, item, unheld, orderVars, pays, outbox, pgVars>>

\* What a process does on its own once a request or a tick has started it.
Work(p) ==
  \/ Approve(p) \/ Confirm(p) \/ BookSeats(p) \/ Close(p)
  \/ Refund(p) \/ RecordRefunded(p) \/ RecordFailed(p)
  \/ Scan(p) \/ Inquire(p)
  \/ CancelRefund(p) \/ CancelFailed(p) \/ CancelCommit(p)

Next ==
  \/ \E u \in Users, S \in SUBSET Seats : Hold(u, S) \/ Release(u, S)
  \/ Sweep
  \/ Tick
  \/ \E p \in Procs, k \in Orders, u \in Users, S \in SUBSET Seats :
       PlaceOpen(p, k, u, S)
  \/ \E p \in Procs, k \in Orders : CancelStart(p, k) \/ Webhook(p, k)
  \/ \E p \in Procs : Work(p) \/ Crash(p)

Spec == Init /\ [][Next]_vars

\* The workers keep ticking, a started process keeps running (or crashes, at
\* most MaxFaults times) and time passes.  Clients owe nothing.
Fairness ==
  /\ WF_vars(Tick)
  /\ WF_vars(Sweep)
  /\ \A p \in Procs : WF_vars(Work(p))

FairSpec == Spec /\ Fairness
=============================================================================
