# curtain: a TLA+ verification of the ticket store

curtain sells reserved seats: a user holds seats for a few minutes, places an
order, pays through a payment company (PG), and may cancel. PostgreSQL is the
only source of truth; Redis stands in front of it to shed load; background
workers clean up. These modules model how the code under `src/app` does that,
model-check the small instances where the interesting interleavings happen, and
prove the safety properties for instances of any size.

## The system

| Component | State it keeps | Operations | Modelled in |
|---|---|---|---|
| Seat holds (`service/hold_service.py`, `infra/db/queries.py`) | `schedule_seats`: status, held_by, hold_expires_at | `acquire`, `release`, `sweep_expired` | `OrderSaga`; with the gate in front `SeatGate`; statement by statement `SeatRows` |
| Order saga (`service/order_service.py`) | `orders`, `order_items`, `payments`, `outbox` | `place`, `confirm_paid`, `reconcile`, `_close_unpaid`, `_refund_and_fail` | `OrderSaga`; its transactions on the seats `SeatRows` |
| Cancellation (`order_service.cancel`) | the same tables | read, refund, restore | `OrderSaga`; with amounts, fees and days `Season`; its last transaction `SeatRows` |
| Payment gateway (`infra/pg`) | the PG's ledger | `approve`, `inquire`, `refund` | `OrderSaga` (as the environment) |
| Seat gate (`infra/redis/client.py`, `lua/*.lua`) | one Redis key per seat with a TTL | acquire script, release script, `keep` | `SeatGate` |
| Seat map cache (`service/seatmap_service.py`) | a cached document with a TTL, one lock per schedule | `get` | `SeatmapCache` |
| Schedule expansion (`service/schedule_service.py`) | `seats`, `schedule_seats.price` | `create_venue`, `expand` | `Stock` |
| Cancel fee (`domain/policy.py`) | none | `days_until_show`, `cancel_fee` | `CancelFee` |
| API, workers, waiting room, webhook | none yet | docstrings and TODOs | not modelled; what they say they will call is |

How they interact.  A request handler calls `acquire` (the gate, then one
transaction), later `place`, which runs a transaction, calls the PG outside any
transaction, and runs another.  `reconcile` runs in a worker: a transaction that
scans old PENDING orders, then for each a call to the PG and one or two
transactions.  `cancel` reads, calls the PG, and runs a transaction.  An operator
opens a schedule by expanding the venue into rows with prices, and may do so
again.  All of them meet in the database only; none of them holds a lock across
a call to the PG.  Beside the database stand two things in Redis that nobody may
rely on: the gate, which turns requests away before they open a transaction, and
the seat map, which is read by many more clients than ever hold a seat.

What is hard here: a hold expires while its payment is under way; the PG's
answer is lost, late, or never comes; a process dies between the PG's answer and
the transaction that records it; two callers (handler, reconciler, webhook)
finish the same order; a refund fails; a seat is sold again after a
cancellation; a statement chooses rows from a snapshot that is old when it gets
their locks; two requests of one user each count before the other writes; a
schedule is opened twice at once; midnight passes between the fee and its
record; a gate key outlives or falls short of what it stands for; readers of a
seat map pile up behind one that fails.  `PROJECT.json` lists these as hazards,
each at its line and with the property that covers it, or with the reason why
none does.

## Modules

- `OrderSaga` is the detailed specification of one schedule on sale: holds,
  orders, payments, reconciliation and cancellation, a transaction a step (that of
  `confirm_paid` two).
  `OrderSagaProps` states what it is checked for. `TicketOffice` is its abstract
  specification: whole sales, whole returns and refusals, each announced once. No
  holds, no processes, no PG.
- `SeatRows` takes the transactions on the seat rows apart: statements, row
  locks, snapshots, the advisory lock. `SeatRowsProps` states what it is checked
  for.
- `SeatBook` is what the transactions on seats and orders amount to, each of them
  one step: hold, give up, sweep, open, confirm, close, cancel. Both `OrderSaga`
  and `SeatRows` implement it, and that is what ties the two to each other.
- `SeatGate` is the Redis gate with the seat rows behind it, as `acquire` and
  `release` go through both. `SeatGateProps` states what it is checked for, and
  `SeatStore` is its abstract specification: seats that people get, lose and buy,
  and no gate.
- `SeatmapCache` is the cached seat map of one schedule, read by several
  processes; `SeatmapCacheProps` states what it is checked for.
- `Stock` is the expansion of a schedule, `CancelFee` the fee policy, and `Season`
  composes them with the life of an order: what is charged, what it costs to
  cancel, and what is given back. `SeasonProps` states what the three are checked
  for.
- `MCOrderSaga`, `MCSeatRows`, `MCSeatGate`, `MCSeatmapCache`, `MCSeason` and the
  `.cfg` files instantiate them for TLC.
- `OrderSagaProofs`, `OrderSagaMoneyProofs` and `OrderSagaRefinement` hold the
  proofs about the saga (seats and records; money and holds; the ticket office and
  the seat book); `SeatRowsProofs` and `SeatRowsRefinement` those about the
  transactions (invariants; the seat book); `SeatGateProofs`, `SeatmapCacheProofs`
  and `SeasonProofs` those about the other modules.

### OrderSaga: state and code

| Variable | In the code |
|---|---|
| `seat`, `heldBy`, `left` | `schedule_seats.status`, `held_by`, and `hold_expires_at - now()` |
| `item` | the `order_items` row of a seat (`schedule_seat_id` is UNIQUE) |
| `unheld` | history: seats that were booked when the buyer had no valid hold any more |
| `status`, `buyer`, `seatIds`, `snapshot`, `age` | columns of `orders`; `age` is `now() - created_at` |
| `pays` | how many `payments` rows of each status an order has |
| `outbox` | the topics of its `outbox` rows, in order |
| `charged`, `refunds` | what the PG did, whether or not anybody knows |
| `pc`, `job`, `todo` | where a handler, worker or webhook delivery stands, on which order, and the candidates it has still to ask about |
| `faults` | bound on crashes, lost or inconclusive answers and failed refunds |

| Action | In the code |
|---|---|
| `Hold`, `Release`, `Sweep` | `acquire` / `hold_seats`, `release` / `release_hold`, `sweep_expired_holds` |
| `PlaceOpen`, `Approve` | the first transaction of `place()`, and its call to the PG |
| `Confirm` | `confirm_paid()` up to the holds that `claim_order_items` reads, with the lock of the order's row (`RowFree`) |
| `BookSeats` | the rest of that transaction (the items, `book_order_seats`, the records, the commit or the rollback), and what its caller does with the outcome |
| `Webhook` | a delivery that comes to the same point of `confirm_paid()` |
| `Close` | `_close_unpaid()` from `place()` (FAILED) or `reconcile()` (CANCELED) |
| `Refund`, `RecordRefunded`, `RecordFailed` | the PG call of `_refund_and_fail()`, and its transaction |
| `Scan`, `Inquire` | the scan of `reconcile()`, and one turn of its loop |
| `CancelStart`, `CancelRefund`, `CancelFailed`, `CancelCommit` | the steps of `cancel()` |
| `Crash` | the process dies between two steps |
| `Tick` | time passes |

Abstractions.

- A transaction is one action, but for that of `confirm_paid()`. It reads the
  buyer's holds and locks none of them, and books the seats in a later statement:
  these are two actions, and anything may happen to the seats in between. The row
  of the order is locked from the first of them to the commit; who writes that row
  waits (`Close`, `RecordRefunded`, another `Confirm`), and the scan of
  `reconcile()` skips it. `SeatRows` takes all transactions apart; SKIP LOCKED and
  lock waits on seats are seen there.
- There is no clock: `left` and `age` saturate just past the point where the
  code stops telling values apart, so ties among the oldest are broken either
  way.
- Amounts, fees and the contents of messages are left out (`Season` has the
  amounts and the fees). Why a request was turned away is left out, too, except
  where the caller acts on it.
- A key of `Orders` is an order id and its idempotency key at once. Placing with
  a key that exists changes nothing in the code, so there is no action for it.
- The gate is left out here: it only turns requests away before the transaction,
  which is what `SeatGate` is checked for (`GateNeverDecides`).
- `POST /webhooks/pg` is a stub that says it will call `confirm_paid`. Its
  deliveries (`Webhooks`) are an outside caller, on in `saga_seats` and in the
  theorems, and off in every run that reports a disagreement. A delivery that ends
  before it books anything changes nothing and is no step.
- `PromptPG` says that the PG never charges an order that is already older than
  `PAYMENT_PENDING_LIMIT`. The code depends on it without saying so:
  `find_late_charge` shows what happens without it.
- `Silent` is the set of orders about which the PG may leave every call unanswered
  and `inquire()` never gives a conclusive answer. It is empty in all runs but
  `saga_live`, and any set of orders in the theorems.

### SeatRows: state and code

| Variable | In the code |
|---|---|
| `seat`, `heldBy`, `left`, `item` | the committed rows of `schedule_seats` and `order_items` |
| `status`, `buyer`, `seatIds` | the committed rows of `orders` |
| `tx` | one transaction per connection: its `kind`, the statement it is `at`, its `user`, `order` and the seats it may touch (`want`); `lag`, the time since its `now()`; `fits`, what `acquire` counted; `todo` and `got`, the rows of the running statement; `locked` and `items`, its row locks and the `order_items` it inserted |
| `unheld` | history: seats that were booked when the buyer had no valid hold any more |

| Action | In the code |
|---|---|
| `BeginAcquire`, `HoldSeats` | `acquire` up to `lock_user_quota`, and the start of `hold_seats` with its snapshot (`SnapshotHold`) |
| `VisitRow` | the running statement comes to a row: FOR UPDATE or an UPDATE (`LockRow`), and the second look at a row that was changed while it waited |
| `CommitHold`, `RejectHold` | the `guard` of `hold_seats` and the commit, or the exception |
| `BeginRelease`, `CommitRelease`, `SweepExpiredHolds` | `release_hold` and `sweep_expired_holds` |
| `OpenOrder`, `BeginOrder` | `open_order`, and the start of `confirm_paid`, of `_close_unpaid` or of the last transaction of `cancel` |
| `MarkPaid`, `MarkClosed`, `MarkCanceled`, `MarkNothing` | `mark_order_paid` and `mark_order` behind whoever has the row of the order |
| `InsertItems`, `ItemTaken`, `CheckForeignKey` | the INSERT of `claim_order_items`, its unique constraint and its foreign key |
| `BookOrderSeats`, `CommitConfirm`, `ConfirmTooFew` | `book_order_seats`, and the end of `confirm_paid` |
| `CommitClose`, `CommitCancel`, `Rollback`, `Tick` | the end of `_close_unpaid`; the end of `cancel` with the rows of `restore_order_seats`; any rollback; time |

Abstractions.

- What PostgreSQL does at READ COMMITTED is modelled from its use: `now()` is the
  start of the transaction, a statement chooses its rows from what is committed
  when it starts, locks them one by one, and looks again at each. A foreign key
  locks the row it refers to FOR KEY SHARE, which keeps only FOR UPDATE out.
- Writes are kept in `tx` until the commit, as nobody else sees them.
- The sweep is one step: it is a transaction of one statement that never waits.
- `Rollback` stands for an exception, a `statement_timeout`, a lost connection and
  the victim of a deadlock. How PostgreSQL finds deadlocks is left out, and so is
  how long a transaction may wait: nothing is said about liveness here.
- The refund that comes before the last transaction of `cancel` is left out
  (`OrderSaga` has it): here a cancellation may begin whenever its order is PAID.
- Orders that were paid and canceled before are part of `Init`, with the
  `order_items` rows they leave behind, so that a run need not sell a seat first to
  meet them.

### SeatGate: state and code

| Variable | In the code |
|---|---|
| `key`, `keyLeft` | the value (the user's token) and the PTTL of `seat:{schedule}:{seat}` |
| `seat`, `heldBy`, `left` | the row of `schedule_seats`, as in `OrderSaga` |
| `pc`, `user`, `want` | a request under way: where it stands, its user, its seats |
| `faults` | bound on crashes, timeouts and an unreachable or flushed Redis |

| Action | In the code |
|---|---|
| `Acquire`, `Gate` | the start of `acquire`; one run of `seat_gate.lua`, its retry after a timeout, and the way without a gate after the last one |
| `Hold`, `Refused` | the transaction of `acquire` with `keep()`, or its end without the seats |
| `Return` | `_release` on the way out of `hold_gate` |
| `Release`, `ClearGate`, `CommitRelease` | the statement of `release`, `release_gate`, and the commit |
| `Sweep`, `Book`, `CloseUnpaid`, `Restore` | the sweeper and the endings of an order: they change the rows and never the gate |
| `Tick`, `Crash`, `Flush` | time, the death of a process, a Redis that lost its data |

Abstractions.

- The statements of `hold_seats` and their commit are one step. A release keeps
  its rows locked between its statement and its commit (`Locked`), because the
  script runs in between.
- The purchase limit is not counted here (`SeatRows` does): a transaction may be
  `Refused` at any time. All a refusal does to this state is the way out.
- A token stands for a user, as in the code; two requests of a user share it.
- Orders come from outside: `Book`, `CloseUnpaid` and `Restore` happen whenever
  the rows allow. `Orders` switches them off.
- The connection pools, the breaker's counters and cluster slots are left out.

### SeatmapCache: state and code

| Variable | In the code |
|---|---|
| `version`, `old` | the seats of the schedule as a number, and since when a number is out of date |
| `cache`, `cacheLeft` | the cached document and its PTTL |
| `queue` | the `asyncio.Lock` of the schedule in each process: its holder, then its waiters |
| `pc`, `got`, `slow` | a reader in `get`: its step, what it read, and how long ago |
| `reads` | history: how often a process read the database |

`Peek`, `Enter`, `Recheck`, `Read` and `Write` are the awaits of `get`; `Cancel`
is a client that hangs up at any of them. A cached document that cannot be read,
or an unreachable Redis, is a miss. A SET that Redis applies after its client gave
up is left out.

### Stock, CancelFee and Season: state and code

| Variable | In the code |
|---|---|
| `physical` | the `seats` of the venue, by row and number |
| `price` | `schedule_seats.price`; 0 for a seat without a row |
| `opening` | a transaction in `expand`: its layout, the seats it has still to come to, the rows it wrote |
| `created`, `expanded` | history: the rows the committed expansions say they made, and their layouts |
| `now` | the clock, in parts of a day (`Day`) |
| `status`, `total`, `seatIds`, `item`, `itemPrice` | columns of `orders` and `order_items` |
| `approved` | the orders with an APPROVED row in `payments` |
| `cancel` | a call of `cancel()`: its order, the time it read, the fee of that time, whether the PG has refunded |
| `payments` | the `payments` rows with a fee snapshot, refunded or failed: those `cancel()` writes. The rows of `_refund_and_fail` carry no fee and are left out |
| `returned`, `refusals` | what the PG gave back; bound on refunds that fail |

| Action | In the code |
|---|---|
| `CreateVenue` | `create_venue` / `create_venue_seats` |
| `BeginExpand`, `InsertRow`, `SkipRow`, `CommitExpand`, `RollbackExpand` | `expand` / `expand_schedule_seats`: the join, one row of the INSERT with its wait at `uq_schedule_seat`, ON CONFLICT DO NOTHING, and the end |
| `OpenOrder`, `ConfirmPaid` | the sum in `open_order`; the prices in `claim_order_items` and the approved payment |
| `CloseUnpaid` | an order that is not paid: FAILED from `place()` and `_refund_and_fail`, CANCELED from `reconcile()` |
| `Ask`, `Refund`, `RefundFailed`, `RecordCanceled`, `CanceledBefore` | the steps of `cancel()`: read and fee, the PG, its failure on record, the last transaction, and the transition that came too late |
| `Tick` | time passes |

`DaysUntilShow`, `CancelClosed` and `CancelFee` are `days_until_show` and
`cancel_fee` with the tiers of `CANCEL_FEE_TIERS`.

Abstractions.

- Here a step of an order is a whole transaction, and who holds which seat is left
  to the other modules: an order takes any seats on sale that no order has.
- Grades are left out: they go the way of the prices. `Amount`, the sum of prices,
  counts the pairs of a seat and a won up to its price (`MaxPrice` bounds prices).
- Time moves along `Times`, a set of instants: those on either side of the dates
  that matter. `Offset` is how far the clock of the hall is ahead of the clock that
  the code reads. The code has none, so the model of it has none, and only the
  property of `find_show_day` speaks of it.

## Runs

| Run | What it asks | Instance |
|---|---|---|
| `saga_seats` | `TypeOK`, `SeatsFollowOrders`, `NoDoubleSale`, `MoneyFollowsSeats`, `RecordsFollowStatus`, `HoldProtectsSeat`, `RestoreAfterRefund`, `ImplementsTicketOffice`, `ImplementsSeatBook` | 2 seats, 2 users, 2 orders, 2 handlers, a webhook delivery, no reconciler, no faults |
| `saga_live` | `MoneyFollowsSeats`, `RecordsFollowStatus`, and under `FairSpec` `PendingResolved`, `ExpiredHoldReclaimed` | 1 seat, 1 user, 2 orders of which the PG is silent about one, a handler, 2 reconcilers with batches of 2, 1 fault, no webhook |
| `rows` | `TypeOK`, `QuotaRespected`, `NoHoldDeadlock`, `SeatsFollowOrders`, `HoldOutlivesOthers`, `ImplementsSeatBook` | 3 seats asked for as {1,2} and {3}, 2 users with a limit of 2, 2 orders of which one was canceled before, 2 transactions |
| `gate` | `TypeOK`, `KeyEndsFirst`, `GateNeverDecides`, `ForeignKeySurvives`, `NoGhostLeft`, and `GhostEnds` under `FairSpec` | 2 seats asked for as {1,2} and {2}, 2 users, 2 requests, orders, 1 fault |
| `seat_map` | `TypeOK`, `StaleBounded`, `OneReadPerProcess`, and `EveryReaderAnswered` under `FairSpec` | 3 readers in 2 processes, 2 changes, 1 fault |
| `season` | `TypeOK`, `StockComplete`, `CreatedOnce`, `ItemsAddUp`, `FeesByDate`, `RefundOnRecord` | 2 seats in a row, 2 layouts that disagree, 2 expansions, 1 order that is paid or closed unpaid, 2 cancellations, 1 failed refund, 4 instants |
| `find_*` | one statement each that the code does not keep | the smallest instance that shows it, without the webhook and without faults |

Bounds.

- The instances are small so that each run ends within minutes on two cores. What
  they leave apart (say, two handlers, a reconciler and a fault at once) is covered
  for the safety properties by the theorems, which hold for all sizes; for liveness
  there is nothing but the run.
- Saga: each race in the code is between two callers. `saga_seats` is about
  customers against each other: two orders that compete for seats under two
  handlers, with a webhook delivery as a third caller that finishes an order. With
  a `HoldTTL` of 1 a single tick takes a hold to its boundary and a second one ends
  it, also between the two halves of a confirmation. `saga_live`
  is about an order and the workers: a handler and two reconcilers that find the
  same orders. Faults are capped by `MaxFaults`: one is enough to lose an answer or
  a process at every point. Calls about the silent order go unanswered without
  counting as a fault, so a second order can be left behind beside it.
  `SweepBatch` of 1 makes a batch a partial one where there is more than one seat.
- Rows: three seats with a limit of two are the least at which two requests of a
  user that share no row go over the limit together; two seats in one request are
  the least at which the order of locks matters. The canceled order has left its
  items at any set of seats that was asked for. `MaxLag` is 0 in `rows`; that a
  transaction waits until a hold it has seen is over (`MaxLag` of 1) is in
  `find_stolen`, and any lag is in the theorems.
- Gate: two seats are the least at which a script can give back one key because
  of another, and two requests are the least of which one finds what the other
  left.
- Seat map: two readers of one process contend for its lock, and the third
  overwrites what they wrote.
- Season: the layouts disagree about width and price, and one of them lists a row
  twice. Two instants are on the last date of the second tier (a count of hours would
  put a tier's end between them), one on the last date of the third, and one on the
  day of the show; the first tier costs nothing. The prices
  are large enough for the percentages to be cut off.
- Symmetry is used only in runs without liveness.

Fairness.  `FairSpec` of `OrderSaga` assumes that time passes, that the sweeper
ticks (every second, `worker/hold_sweeper.py`), that the reconciler ticks (30
seconds, `reconcile()`'s docstring), and that a started handler keeps running.
The workers are stubs at this commit, so this is what they say they will do.
Faults are finitely many: refunds succeed in the end, and so do inquiries, but for
those about `Silent` orders. `PendingResolved` promises nothing about those, and to
the orders behind them it promises a conclusion as long as a batch has room beside
the silent ones, as in `saga_live`.  For the gate and the seat map it assumes that
a started request goes on, as the event loop and the timeouts on every Redis call
make sure, and for the gate that time passes.  Nothing is assumed of clients:
nobody has to hold, place, release or cancel.

What the properties assume.  `KeyEndsFirst` and `NoGhostLeft` speak of the time
before the first fault: a crash or a lost answer leaves a key behind, and that it
goes away again is `GhostEnds`.  `NoGhostLeft` is what a request answers for when
it ends; that no ghost arises at all does not hold, because orders free seats and
leave the keys (`find_ghost`).  `StaleBounded` allows, on top of the TTL that
`policy.py` names, the time from a database read to its cache write (`MaxSlow`):
nothing in the code bounds it, and nothing in the code compares what it
overwrites.  `QuotaRespected` does not count seats that were booked when their
buyer no longer had them (`unheld`): that this happens is `find_stolen`.
`HoldProtectsSeat` leaves the same case open: the confirmation of somebody else
that has read its buyer's holds before the hold in question was taken may book the
seat over it. What the property promises is that nothing else does: no confirmation
of another buyer passes its check while the hold is valid, and no hold, sweep or
closing of another user takes the seat.  `FeesByDate` speaks of the dates the code
takes, which are those of UTC; on one date of the hall two cancellations may pay
different fees, and `find_show_day` shows the worst of it.  CANCELED has two
meanings in `orders`: a paid order that was canceled, and one that `reconcile()`
closed unpaid. `ItemsAddUp` and `RefundOnRecord` tell them apart by the approved
payment.

## What does not hold

1. `find_resale`: `restore_order_seats` gives canceled seats back but their
   `order_items` rows stay, and `schedule_seat_id` is UNIQUE. The next buyer
   holds the seat, is charged, and `confirm_paid` answers HoldExpired. The seat
   can be held and paid for again and again and never be sold.
2. `find_late_charge`: if the PG takes longer than `PAYMENT_PENDING_LIMIT`, the
   reconciler cancels, the charge arrives, `confirm_paid` returns False, and
   `place()` ignores it. A CANCELED order is never looked at again.
3. `find_unrecorded`: two concurrent cancellations both refund; the loser
   returns without leaving the record its comment promises.
4. `find_ghost`: `_close_unpaid`, `_refund_and_fail` and `cancel` free seats in
   the database and leave their gate keys: the seats look sold out to everybody
   but their last holder until the key expires.
5. `find_stolen`: `claim_order_items` reads the holds of the buyer and locks none
   of them, and `book_order_seats` books every HELD row the items name, whoever
   holds it by then. A hold that ends between the two statements may be released,
   swept or taken over, and the confirmation books the seat over the live hold of
   somebody else. No order of the other customer can sell the seat a second
   time: the items are already there.
6. `find_show_day`: dates are taken in UTC while the hall is nine hours ahead. On
   the day of an evening show a customer who cancels before nine in the morning
   counts as one day early and is refunded, where `docs/design.md` says there is
   no cancellation on that day. The run is `season`'s question with `Offset` set.

Met on the way and in no run.  An order may be refunded by one caller while another
confirms it, if the buyer took the expired hold again in between, as
`_refund_and_fail` does not look at whether its transition found the order
PENDING.  For the same reason two reconcilers that ask about one charged order whose
hold is over both refund it: `confirm_paid` rolls its transition back for each, and
nothing between there and the call to the PG tells them apart.  `unresolved_orders`
takes the oldest orders each time: when the PG gives no answer about a whole batch
of them, it is asked about these at every tick and about nothing behind them
(`PendingResolved` is refuted with `ReconcileBatch` of 1 in `saga_live`).  A second `acquire` of a user for seats the user holds passes the gate
(same token), is refused by the database, and removes the key the first request
kept; the seats are safe, and later requests for them reach the database.

## What is proved

Every invariant and every action property of the passing runs is a theorem, for
all values of the constants that satisfy the ASSUMEs of the module, and so is each
of the refinements.

**OrderSaga** (any seats, users, handlers and workers, finitely many orders):
`TypeCorrect`, `SeatsFollow`, `RecordsFollow`, `NoSeatSoldTwice`,
`NobodyLosesMoney`, `SeatsComeBackPaidBack`, `HoldsProtect`,
`SagaImplementsOffice` (`Spec => ImplementsTicketOffice`) and `SagaImplementsBook`
(`Spec => ImplementsSeatBook`).

- `SaleInv` is the inductive invariant about seats and records. It has two parts,
  the rows (`SalesOK`) and the lock (`RowLocked`): whoever is between the two halves
  of `confirm_paid()` is there alone with its order, which is still PENDING. That is
  why the second half need not look at the order again.
  `SeatsFollowOrders` is not inductive by itself: that cancelling an order
  restores no seat of another one needs that a seat's `order_items` row leads to
  an order confirmed for that seat (`ItemsFollowOrders`), and that
  `confirm_paid()` leaves exactly one approval needs that an order has at most one
  open attempt (`AttemptsFollowOrders`). `SaleStep` goes through the actions; most
  of them change no booking and no record (`SaleUnchanged`), and
  `ConfirmCommitSale`, `EndUnpaidSale` and `CancelSale` treat the three
  transactions that do; `LockStep` does the same for the lock. The refinement maps those three to the office's `Sell`,
  `Refuse` and `TakeBack` and all other steps to stuttering.
- `NobodyLosesMoney` assumes `PromptPG` and rests on `MoneyInv`: the PG's ledger
  and the status of an order fit (`LedgerFollowsStatus`), what a process is about
  to do about an order is backed by the ledger (`Informed`), and only one process
  is ever about to have an order charged (`OnePlacer`). `PromptPG` is used where
  the reconciler gives an order up: the order is older than the limit, so the
  handler that still waits for the PG about it cannot have it charged any more.
  The books only move on (`MovesOn`), and so what the other processes know stays
  true (`BystanderInformed`): a lemma looks at the acting process alone.
- `SagaImplementsBook`: the transactions of the saga look at the rows they write,
  so each is a step of the book by what it tests, and the work is in the cases
  (which steps of handlers, reconcilers and webhooks write rows, and which seats
  each of them writes). The one thing the second half of a confirmation does not
  test is that its order is PENDING, and that is `RowLocked`. The book is
  instantiated with `MaxLag <- 0`, as a hold lasts `HoldTTL` here. It counts no more
  against the limit than `acquire` does (`OwnedCounted`), which counts booked seats
  whoever had held them.
- `HoldsProtect` needs type correctness alone. `PassesWithHolds` finds the two steps
  that pass the check of `confirm_paid()`; `CloseKeeps` and `BookKeeps` say what the
  transactions at the end of an order do to the holds of others. The exception for a
  confirmation past its check is part of the statement, as the code has it
  (`find_stolen`).
- `SeatsComeBackPaidBack` needs that a process about to commit a cancellation has
  the refund behind it (`RefundDone`), and no `PromptPG`.

**SeatRows** (any finite set of numbered seats, any orders and transactions):
`RowsTyped`, `LimitHolds`, `RowsFollowOrders`, `HoldsDoNotDeadlock`,
`HoldOutlives`, and `RowsImplementBook` (`Spec => ImplementsSeatBook`).

- `RowsInv` says of each transaction what its locks are good for (`TxInv`: a row
  it has locked and found in order stays so; a request that fitted when `acquire`
  counted still fits; an order that was marked is nobody else's) and of any two that locks
  which exclude each other are not both held (`Apart`). The quota is part of the
  induction: under the advisory lock nothing adds to what the user has, and a
  confirmation turns a hold of the user into a sale.
- `HoldsDoNotDeadlock`: in a set of `acquire` transactions that all wait for each
  other, one at the quota lock waits for one past it, and the one that waits for the
  last row in the order of `seat_id` waits for somebody who needs a row behind it.
- `RowsImplementBook` maps each commit to the step of the book and every other
  statement to stuttering. A commit writes what earlier statements found, so here
  the invariant does the work: `RowsInv` says that the seats a hold found free and
  the count it made under the advisory lock are still right when it commits
  (`AcquireInv`, `Good`), that the rows a release or a closing found are still its
  user's, and that the order a confirmation marked is still PENDING and its items
  still nobody's (`OrderInv`), and that the rows a cancellation has locked when its
  statement ends are all the seats of its order: they are BOOKED by items of a PAID
  order, and no other statement writes BOOKED rows (`SoldTo`). One thing is weaker here than in
  the saga: a hold may be up to `MaxLag` shorter than `HoldTTL`, as `now()` is the
  start of a transaction that may have waited. That a confirmation may book a held
  seat that its buyer has lost (`find_stolen`) both allow; `unheld` remembers which. The limit is a guard of the book, so the theorem also
  says that write skew cannot carry two requests past it.

**SeatGate** (any finite set of numbered seats, all users, requests and numbers of
faults, from `0 < GateTTL < HoldTTL` alone): `GateTypes`, `DatabaseDecides`,
`ForeignKeysSurvive`, `KeysEndFirst`, `NobodyLeavesGhosts`.

- The seat store knows who has a seat by a valid hold or a sale. Taking, selling
  and taking back map to the steps of the same name; ending a hold gives up those
  seats of it that were still valid; and a tick gives up the holds it ends. Only
  the commit of a release needs an invariant: `LocksHeld`, that its rows are still
  HELD by its user, because everything in between found them locked. The keys
  need no invariant but their types: no step of the store asks for them, which is
  the point.
- The keys' own properties need two more: `ShortKeys`, that no key ever has longer
  to live than `GateTTL`, and `KeysAttended`, that until the first fault a key that
  would outlive its hold has a request of its user on the way that will either
  renew the hold or remove the key.

**SeatmapCache** (any readers and processes): `LineKept` (`[]TypeOK`),
`NoStampede`, `NothingOlder`.

- `AgeInv` adds to `StaleBounded` what a reader carries between its read and its
  write: its number is at most the current one, and out of date for no longer than
  it has been slow.
- `LineInv` is about the line in front of the lock of each process (`LineOK`): who
  stands in it has missed the cache and runs in that process, nobody stands in it
  twice, and whoever is past the lock stands first. `RemoveAtIs` says what becomes
  of a line that somebody leaves from anywhere, which a hang-up makes possible.
- `ReadsInv` adds that a process that has read has its result in the cache or in
  the hands of the one reader that is about to write it, and that a reader about to
  read belongs to a process that has not. That is what the second look under the
  lock is for: it is the step that establishes it.

**Season** (any venue, layouts, expansions, orders, handlers and instants):
`Types`, `WholeLayoutOnSale`, `RowsMadeOnce`, `ChargeIsItems`,
`OneRefundOnRecord`, `FeeFollowsDate`. Nothing is assumed about the hour at the
hall: the theorems are about the dates the code takes.

- `SeasonInv` joins an invariant of the expansions (each has come to a seat and
  found it on sale or wrote it, and no two wrote the same: `OpeningInv`,
  `Exclusive`) with one of the orders: the price of a seat on sale never changes,
  so the total that was summed up earlier is still the sum of the rows (`Priced`);
  a cancellation under way carries the fee of the time it read (`CancelInv`), and
  so does every row it wrote (`PaymentInv`). An order has its items and its approved
  payment from the same transaction, so those are the orders that were paid, whatever
  they are now.

Model-checked only: liveness (`PendingResolved`, `ExpiredHoldReclaimed`,
`GhostEnds`, `EveryReaderAnswered`), which is out of the prover's reach.

## Not modelled

- The stubs: API routers, waiting room, queue admitter, outbox publisher, and the
  bodies of the workers. Each is a docstring and a TODO; there is nothing to
  translate. What the sweeper, the reconciler and the webhook say they will call is
  modelled.
- Configuration, migrations and the load script keep no state of the system; the
  constraints the schema declares are in the modules whose statements meet them.
- How PostgreSQL chooses the victim of a deadlock, and waiting without end:
  `statement_timeout` and deadlock detection end it, and `Rollback` is what is left
  of them. `release_hold`, `book_order_seats` and `restore_order_seats` lock rows in
  no stated order and can be part of a deadlock.
- Reads that only explain a refusal or describe the seat map's contents
  (`find_unavailable_seats`, `held_seats_for_order`, `seat_status_counts`).

## What could come next

The workers, the webhook and the API once they have bodies, and the waiting room.
