------------------------------ MODULE SeatRows ------------------------------
(***************************************************************************)
(* The transactions on schedule_seats, statement by statement: acquire(),  *)
(* release() and the sweep of app/service/hold_service.py, confirm_paid(), *)
(* _close_unpaid() and the last transaction of cancel() of                 *)
(* app/service/order_service.py, over the statements of                    *)
(* app/infra/db/queries.py.                                                *)
(*                                                                         *)
(* PostgreSQL runs them at READ COMMITTED: now() is the start of the       *)
(* transaction; a statement chooses its rows from what is committed when   *)
(* it starts, locks them one after another, and looks again at a row it    *)
(* locked; writes are seen and locks are given back at the commit.         *)
(***************************************************************************)
EXTENDS Integers, FiniteSets

CONSTANTS
  Seats,          \* of one schedule, in the order of seat_id
  Wishes,         \* bound: the sets of seats a request may name
  Users, NoUser, Orders, NoOrder,
  Canceled,       \* the orders that were paid and canceled before
  Txs,            \* connections, each with one transaction at a time
  HoldTTL, MinRemaining, MaxSeats, SweepBatch,
  MaxLag          \* bound: ticks between now() and the last use of it

ASSUME SeatsAreNumbers == Seats \subseteq Nat /\ IsFiniteSet(Seats)
ASSUME WishesOK == Wishes \subseteq SUBSET Seats /\ {} \notin Wishes
ASSUME NobodyOK == NoUser \notin Users /\ NoOrder \notin Orders
ASSUME CanceledOK == Canceled \subseteq Orders
ASSUME LimitsOK ==
  /\ HoldTTL \in Nat \ {0} /\ MinRemaining \in Nat /\ MaxSeats \in Nat
  /\ SweepBatch \in Nat \ {0} /\ MaxLag \in Nat

VARIABLES
  seat, heldBy, left, \* schedule_seats; left is hold_expires_at - now
  item,               \* order_items: the order of a seat
  status, buyer, seatIds, \* orders
  tx,                 \* the transactions
  unheld              \* history: seats booked without a valid hold of the buyer

rows == <<seat, heldBy, left, item, unheld>>
orders == <<status, buyer, seatIds>>
vars == <<rows, orders, tx>>

Kinds == {"none", "acquire", "release", "confirm", "close", "cancel"}
Points == {"idle", "quota", "mark", "insert", "share", "rows"}

\* A connection without a transaction.
Idle == [kind |-> "none", at |-> "idle", user |-> NoUser, order |-> NoOrder,
         want |-> {}, lag |-> 0,   \* its seats; now - now()
         fits |-> FALSE,           \* the purchase limit, from the snapshot
         todo |-> {}, got |-> {},  \* rows of the statement: ahead, and written
         locked |-> {}, items |-> {}]

\* Seats nobody has; the order_items rows of canceled orders are still there.
Init ==
  /\ seat = [s \in Seats |-> "AVAILABLE"]
  /\ heldBy = [s \in Seats |-> NoUser]
  /\ left = [s \in Seats |-> 0]
  /\ item \in [Seats -> Canceled \union {NoOrder}]
  /\ status = [o \in Orders |-> IF o \in Canceled THEN "CANCELED" ELSE "NONE"]
  /\ buyer \in [Orders -> Users \union {NoUser}]
  /\ seatIds = [o \in Orders |-> {s \in Seats : item[s] = o}]
  /\ \A o \in Orders : IF o \in Canceled
                       THEN buyer[o] # NoUser /\ seatIds[o] \in Wishes
                       ELSE buyer[o] = NoUser
  /\ tx = [t \in Txs |-> Idle]
  /\ unheld = {}

SetOn(f, S, v) == [x \in DOMAIN f |-> IF x \in S THEN v ELSE f[x]]

-----------------------------------------------------------------------------
(* What a transaction sees, at its own now().                              *)

ValidFor(t, s, u) ==
  seat[s] = "HELD" /\ heldBy[s] = u /\ left[s] + tx[t].lag > 0

Claimable(t, s) ==
  seat[s] = "AVAILABLE" \/ (seat[s] = "HELD" /\ left[s] + tx[t].lag < 0)

ValidHold(s, u) == seat[s] = "HELD" /\ heldBy[s] = u /\ left[s] > 0

Expired(s) == seat[s] = "HELD" /\ left[s] < 0

Bought(u) ==
  {s \in Seats : /\ seat[s] = "BOOKED" /\ item[s] # NoOrder
                 /\ status[item[s]] = "PAID" /\ buyer[item[s]] = u}

Owned(t, u) == {s \in Seats : ValidFor(t, s, u)} \union Bought(u)

\* The WHERE of the statement that writes the seats.
\* Mutation: release_hold without held_by.
QualifiesAnyHolder(t, s) ==
  \/ tx[t].kind = "acquire" /\ Claimable(t, s)
  \/ tx[t].kind \in {"release", "close", "confirm"} /\ seat[s] = "HELD"
Qualifies(t, s) ==
  \/ tx[t].kind = "acquire" /\ Claimable(t, s)
  \/ tx[t].kind \in {"release", "close"} /\ seat[s] = "HELD" /\ heldBy[s] = tx[t].user
  \/ tx[t].kind = "confirm" /\ seat[s] = "HELD"
  \/ tx[t].kind = "cancel" /\ seat[s] = "BOOKED" /\ item[s] = tx[t].order

-----------------------------------------------------------------------------
(* Locks.                                                                  *)

\* FOR UPDATE; the statements without it lock the rows they update less
\* strongly, and let foreign keys be checked against them.
ForUpdate(t) == tx[t].kind = "acquire"

\* The rows order_items refers to, locked FOR KEY SHARE by the foreign key.
KeyShared(t) == IF tx[t].at = "share" THEN tx[t].items \ tx[t].todo ELSE tx[t].items

Blocks(q, t, s) ==
  /\ q # t
  /\ s \in tx[q].locked \/ (ForUpdate(t) /\ s \in KeyShared(q))

BlocksKeyShare(q, t, s) == q # t /\ ForUpdate(q) /\ s \in tx[q].locked

\* The advisory lock of (schedule, user), and the row of the order.
HasQuota(q, u) == tx[q].kind = "acquire" /\ tx[q].user = u /\ tx[q].at # "quota"
HasOrder(q, o) == tx[q].order = o /\ tx[q].at \notin {"idle", "mark"}

\* Mutation: rows in the order of the request, or of the plan.
NextRowsAny(t) == tx[t].todo
\* The target of hold_seats is locked, and order_items are inserted, in the order
\* of seat_id; the updates name no order.
NextRows(t) ==
  IF tx[t].kind = "acquire" \/ tx[t].at = "share"
  THEN {s \in tx[t].todo : \A x \in tx[t].todo : s <= x}
  ELSE tx[t].todo

WaitsFor(t, q) ==
  /\ q # t
  /\ \/ tx[t].at = "quota" /\ HasQuota(q, tx[t].user)
     \/ tx[t].at = "mark" /\ HasOrder(q, tx[t].order)
     \/ tx[t].at = "insert" /\ tx[q].items \intersect tx[t].todo # {}
     \/ tx[t].at = "share" /\ \E s \in NextRows(t) : BlocksKeyShare(q, t, s)
     \/ tx[t].at = "rows" /\ \E s \in NextRows(t) : Blocks(q, t, s)

Waiting(t) == \E q \in Txs : WaitsFor(t, q)

-----------------------------------------------------------------------------
(* Steps of any transaction.                                               *)

Begin(t, k, at, u, o, S) ==
  /\ tx[t] = Idle
  /\ tx' = [tx EXCEPT ![t] = [Idle EXCEPT !.kind = k, !.at = at, !.user = u,
                                          !.order = o, !.want = S]]
  /\ UNCHANGED <<rows, orders>>

\* The snapshot of the statement that writes seats among S.
Snapshot(t, S) ==
  tx' = [tx EXCEPT ![t].at = "rows", ![t].todo = {s \in S : Qualifies(t, s)}]

\* The statement comes to row s, locks it, and takes it when it is fine.
LockRow(t, s, fine) ==
  /\ tx[t].at = "rows"
  /\ s \in NextRows(t)
  /\ \A q \in Txs : ~Blocks(q, t, s)
  /\ tx' = [tx EXCEPT ![t].todo = @ \ {s}, ![t].locked = @ \union {s},
                      ![t].got = IF fine THEN @ \union {s} ELSE @]
  /\ UNCHANGED <<rows, orders>>

\* Mutation: a row is written as the snapshot saw it.
VisitRowTrusting(t, s) == LockRow(t, s, TRUE)
\* It looks again: a row that by now no longer qualifies is left alone.
VisitRow(t, s) == LockRow(t, s, Qualifies(t, s))

Done(t) == tx[t].at = "rows" /\ tx[t].todo = {}

Close(t) == tx' = [tx EXCEPT ![t] = Idle]

\* An exception, a lost connection, statement_timeout, the victim of a deadlock.
Rollback(t) ==
  /\ tx[t] # Idle
  /\ Close(t)
  /\ UNCHANGED <<rows, orders>>

\* Mutation: hold_expires_at is left as it was.
WriteKeepsExpiry(S, st, u, l) ==
  /\ seat' = SetOn(seat, S, st)
  /\ heldBy' = SetOn(heldBy, S, u)
  /\ left' = IF u = NoUser THEN left ELSE SetOn(left, S, l)
Write(S, st, u, l) ==
  /\ seat' = SetOn(seat, S, st)
  /\ heldBy' = SetOn(heldBy, S, u)
  /\ left' = SetOn(left, S, l)

-----------------------------------------------------------------------------
(* acquire().                                                              *)

BeginAcquire(t, u, S) ==
  /\ Cardinality(S) <= MaxSeats
  /\ Begin(t, "acquire", "quota", u, NoOrder, S)

Fits(t) ==
  Cardinality(Owned(t, tx[t].user)) + Cardinality(tx[t].want) <= MaxSeats

\* The snapshot of hold_seats: what the user has, and the rows.
SnapshotHold(t) ==
  /\ tx[t].at = "quota"
  /\ tx' = [tx EXCEPT ![t].at = "rows", ![t].fits = Fits(t),
                      ![t].todo = {s \in tx[t].want : Qualifies(t, s)}]
  /\ UNCHANGED <<rows, orders>>

\* It is taken when lock_user_quota has returned.
HoldSeats(t) == ~Waiting(t) /\ SnapshotHold(t)

CommitHold(t) ==
  /\ tx[t].kind = "acquire" /\ Done(t)
  /\ tx[t].fits /\ tx[t].got = tx[t].want
  /\ Write(tx[t].want, "HELD", tx[t].user, HoldTTL - tx[t].lag)
  /\ Close(t)
  /\ UNCHANGED <<item, unheld, orders>>

\* guard: no row is updated, and HoldRejected or QuotaExceeded rolls back.
RejectHold(t) ==
  /\ tx[t].kind = "acquire" /\ Done(t)
  /\ ~(tx[t].fits /\ tx[t].got = tx[t].want)
  /\ Rollback(t)

-----------------------------------------------------------------------------
(* release() and the sweep.                                                *)

BeginRelease(t, u, S) ==
  /\ tx[t] = Idle
  /\ \A s \in S : seat[s] = "HELD" /\ heldBy[s] = u
  /\ tx' = [tx EXCEPT ![t] = [Idle EXCEPT !.kind = "release", !.at = "rows", !.user = u,
                                          !.want = S, !.todo = S]]
  /\ UNCHANGED <<rows, orders>>

CommitRelease(t) ==
  /\ tx[t].kind = "release" /\ Done(t)
  /\ Write(tx[t].got, "AVAILABLE", NoUser, 0)
  /\ Close(t)
  /\ UNCHANGED <<item, unheld, orders>>

FreeForSweep(s) ==
  Expired(s) /\ \A t \in Txs : s \notin tx[t].locked \union KeyShared(t)

\* One batch, the holds that ended first before the others: a transaction of one
\* statement that skips locked rows, and so never waits.
SweepExpiredHolds(S) ==
  /\ S # {} /\ Cardinality(S) <= SweepBatch
  /\ \A s \in S : FreeForSweep(s)
  /\ \A x \in Seats \ S : FreeForSweep(x) =>
       Cardinality(S) = SweepBatch /\ \A s \in S : left[s] <= left[x]
  /\ Write(S, "AVAILABLE", NoUser, 0)
  /\ UNCHANGED <<item, unheld, orders, tx>>

-----------------------------------------------------------------------------
(* Orders.                                                                 *)

\* open_order, a transaction of its own that locks no seat.
OpenOrder(o, u, S) ==
  /\ status[o] = "NONE"
  /\ \A s \in S : seat[s] = "HELD" /\ heldBy[s] = u /\ left[s] > MinRemaining
  /\ status' = [status EXCEPT ![o] = "PENDING"]
  /\ buyer' = [buyer EXCEPT ![o] = u]
  /\ seatIds' = [seatIds EXCEPT ![o] = S]
  /\ UNCHANGED <<rows, tx>>

\* The status that the conditional transition of the order expects.
Expected(k) == IF k = "cancel" THEN "PAID" ELSE "PENDING"

\* confirm_paid, _close_unpaid and the end of cancel know their order, and are
\* called for one that had the status they expect when the caller looked.
BeginOrder(t, k, o) ==
  /\ status[o] = Expected(k)
  /\ Begin(t, k, "mark", buyer[o], o, seatIds[o])

Claimed(t) == {s \in tx[t].want : ValidFor(t, s, tx[t].user)}

\* mark_order_paid, a conditional transition behind whoever has the row of the
\* order; then claim_order_items starts, and its SELECT locks nothing.
MarkPaid(t) ==
  /\ tx[t].kind = "confirm" /\ tx[t].at = "mark"
  /\ ~Waiting(t)
  /\ status[tx[t].order] = "PENDING"
  /\ tx' = [tx EXCEPT ![t].at = "insert", ![t].todo = Claimed(t), ![t].lag = 0]
  /\ UNCHANGED <<rows, orders>>

\* mark_order, likewise; then release_hold starts.
MarkClosed(t) ==
  /\ tx[t].kind = "close" /\ tx[t].at = "mark"
  /\ ~Waiting(t)
  /\ status[tx[t].order] = "PENDING"
  /\ Snapshot(t, tx[t].want)
  /\ UNCHANGED <<rows, orders>>

\* mark_order, likewise; then restore_order_seats starts, whose rows are those that
\* the items of the order name.
MarkCanceled(t) ==
  /\ tx[t].kind = "cancel" /\ tx[t].at = "mark"
  /\ ~Waiting(t)
  /\ status[tx[t].order] = "PAID"
  /\ Snapshot(t, Seats)
  /\ UNCHANGED <<rows, orders>>

\* Somebody else was first: nothing is changed.
MarkNothing(t) ==
  /\ tx[t].at = "mark"
  /\ ~Waiting(t)
  /\ status[tx[t].order] # Expected(tx[t].kind)
  /\ Rollback(t)

\* The items are inserted, behind whoever is inserting one of them.
InsertItems(t) ==
  /\ tx[t].at = "insert"
  /\ ~Waiting(t)
  /\ \A s \in tx[t].todo : item[s] = NoOrder
  /\ tx' = [tx EXCEPT ![t].at = "share", ![t].items = tx[t].todo]
  /\ UNCHANGED <<rows, orders>>

\* IntegrityError of UNIQUE(schedule_seat_id) turns into HoldExpired.
ItemTaken(t) ==
  /\ tx[t].at = "insert"
  /\ ~Waiting(t)
  /\ \E s \in tx[t].todo : item[s] # NoOrder
  /\ Rollback(t)

\* The foreign key of an item locks the row of its seat FOR KEY SHARE.
CheckForeignKey(t, s) ==
  /\ tx[t].at = "share" /\ s \in NextRows(t)
  /\ \A q \in Txs : ~BlocksKeyShare(q, t, s)
  /\ tx' = [tx EXCEPT ![t].todo = @ \ {s}]
  /\ UNCHANGED <<rows, orders>>

\* Too few items: HoldExpired.  Else book_order_seats starts.
BookOrderSeats(t) ==
  /\ tx[t].at = "share" /\ tx[t].todo = {}
  /\ IF tx[t].items = tx[t].want THEN Snapshot(t, tx[t].items) ELSE Close(t)
  /\ UNCHANGED <<rows, orders>>

\* The order is PAID, its items and its rows are written.
CommitPaid(t) ==
  /\ tx[t].kind = "confirm" /\ Done(t)
  /\ Write(tx[t].got, "BOOKED", NoUser, 0)
  /\ item' = SetOn(item, tx[t].items, tx[t].order)
  /\ status' = [status EXCEPT ![tx[t].order] = "PAID"]
  /\ unheld' = unheld \union {s \in tx[t].got : ~ValidHold(s, tx[t].user)}
  /\ Close(t)
  /\ UNCHANGED <<buyer, seatIds>>

\* ... if as many rows were booked as the order has seats.
CommitConfirm(t) == tx[t].got = tx[t].want /\ CommitPaid(t)

\* Too few rows: HoldExpired.
ConfirmTooFew(t) ==
  /\ tx[t].kind = "confirm" /\ Done(t)
  /\ tx[t].got # tx[t].want
  /\ Rollback(t)

CommitClose(t) ==
  /\ tx[t].kind = "close" /\ Done(t)
  /\ Write(tx[t].got, "AVAILABLE", NoUser, 0)
  /\ \E st \in {"FAILED", "CANCELED"} : status' = [status EXCEPT ![tx[t].order] = st]
  /\ Close(t)
  /\ UNCHANGED <<item, unheld, buyer, seatIds>>

\* The order is CANCELED and its rows are on sale again; its items stay.
CommitCancel(t) ==
  /\ tx[t].kind = "cancel" /\ Done(t)
  /\ seat' = SetOn(seat, tx[t].got, "AVAILABLE")
  /\ status' = [status EXCEPT ![tx[t].order] = "CANCELED"]
  /\ Close(t)
  /\ UNCHANGED <<heldBy, left, item, unheld, buyer, seatIds>>

-----------------------------------------------------------------------------
\* A transaction that has now() still to use: the holds that confirm_paid will
\* claim, the time that acquire will write.
UsesNow(x) == x.kind = "acquire" \/ (x.kind = "confirm" /\ x.at = "mark")

Tick ==
  /\ \A t \in Txs : UsesNow(tx[t]) => tx[t].lag < MaxLag
  /\ left' = [s \in Seats |-> IF seat[s] = "HELD" /\ left[s] >= -MaxLag
                              THEN left[s] - 1 ELSE left[s]]
  /\ tx' = [t \in Txs |-> IF UsesNow(tx[t]) THEN [tx[t] EXCEPT !.lag = @ + 1] ELSE tx[t]]
  /\ UNCHANGED <<seat, heldBy, item, unheld, orders>>

\* What a transaction does once it has begun.
Work(t) ==
  \/ HoldSeats(t) \/ CommitHold(t) \/ RejectHold(t)
  \/ CommitRelease(t)
  \/ MarkPaid(t) \/ MarkClosed(t) \/ MarkCanceled(t) \/ MarkNothing(t)
  \/ InsertItems(t) \/ ItemTaken(t)
  \/ BookOrderSeats(t) \/ CommitConfirm(t) \/ ConfirmTooFew(t)
  \/ CommitClose(t) \/ CommitCancel(t)
  \/ \E s \in Seats : VisitRow(t, s) \/ CheckForeignKey(t, s)

Next ==
  \/ \E t \in Txs, u \in Users, S \in Wishes :
       BeginAcquire(t, u, S) \/ BeginRelease(t, u, S)
  \/ \E S \in SUBSET Seats : SweepExpiredHolds(S)
  \/ \E o \in Orders, u \in Users, S \in Wishes : OpenOrder(o, u, S)
  \/ \E t \in Txs, o \in Orders, k \in {"confirm", "close", "cancel"} :
       BeginOrder(t, k, o)
  \/ \E t \in Txs : Work(t) \/ Rollback(t)
  \/ Tick

Spec == Init /\ [][Next]_vars
=============================================================================
