-------------------------- MODULE OrderSagaProofs --------------------------
(***************************************************************************)
(* Type correctness of the saga, and the invariant that ties seats, orders *)
(* and their records together, for every value of the constants.           *)
(***************************************************************************)
EXTENDS OrderSagaProps, FiniteSetTheorems, SequenceTheorems, TLAPS

\* insert_payment adds one row of its status and leaves the counts of the other
\* statuses alone.
LEMMA AddRowType ==
  ASSUME NEW rows \in [PayStatus -> Nat], NEW st \in PayStatus
  PROVE  /\ AddRow(rows, st) \in [PayStatus -> Nat]
         /\ AddRow(rows, st)[st] = rows[st] + 1
         /\ \A x \in PayStatus \ {st} :
              AddRow(rows, st)[x] = rows[x]
BY DEF AddRow, PayStatus

\* The same, spelled out for the two counts the invariants speak of: open
\* attempts and approvals.
LEMMA AddRowAttempts ==
  ASSUME NEW rows \in [PayStatus -> Nat]
  PROVE  /\ AddRow(rows, "REQUESTED")["REQUESTED"] = rows["REQUESTED"] + 1
         /\ AddRow(rows, "REQUESTED")["APPROVED"] = rows["APPROVED"]
         /\ \A st \in {"FAILED", "REFUNDED"} :
              /\ AddRow(rows, st)["REQUESTED"] = rows["REQUESTED"]
              /\ AddRow(rows, st)["APPROVED"] = rows["APPROVED"]
BY DEF AddRow, PayStatus

\* fail_pending_payments leaves no open attempt and touches no approval.
LEMMA FailRequestedType ==
  ASSUME NEW rows \in [PayStatus -> Nat]
  PROVE  /\ FailRequested(rows) \in [PayStatus -> Nat]
         /\ FailRequested(rows)["REQUESTED"] = 0
         /\ FailRequested(rows)["APPROVED"] = rows["APPROVED"]
BY DEF FailRequested, PayStatus

\* After confirm_paid() an order has no open attempt; one that had at most one
\* gains exactly one approval, promoted or inserted.
LEMMA ApproveRowsType ==
  ASSUME NEW rows \in [PayStatus -> Nat]
  PROVE  /\ ApproveRows(rows) \in [PayStatus -> Nat]
         /\ ApproveRows(rows)["REQUESTED"] = 0
         /\ ApproveRows(rows)["APPROVED"] =
              rows["APPROVED"] + IF rows["REQUESTED"] > 0 THEN rows["REQUESTED"] ELSE 1
<1>1. CASE rows["REQUESTED"] > 0
  BY <1>1 DEF ApproveRows, PayStatus
<1>2. CASE ~(rows["REQUESTED"] > 0)
  <2>1. "REQUESTED" \in PayStatus /\ "APPROVED" \in PayStatus
    BY DEF PayStatus
  <2>2. rows["REQUESTED"] = 0
    BY <1>2, <2>1
  <2>3. ApproveRows(rows) = AddRow(rows, "APPROVED")
    BY <1>2 DEF ApproveRows
  <2>4. /\ AddRow(rows, "APPROVED") \in [PayStatus -> Nat]
        /\ AddRow(rows, "APPROVED")["APPROVED"] = rows["APPROVED"] + 1
        /\ AddRow(rows, "APPROVED")["REQUESTED"] = rows["REQUESTED"]
    BY <2>1, AddRowType
  <2>. QED BY <1>2, <2>2, <2>3, <2>4
<1>. QED BY <1>1, <1>2

-----------------------------------------------------------------------------
(* Type correctness.                                                       *)

\* Ending a hold clears held_by and hold_expires_at with the status, as
\* ck_schedule_seats_hold_shape demands.
LEMMA EndHoldTyped ==
  ASSUME SeatsTyped, NEW S \in SUBSET Seats, NEW st \in {"AVAILABLE", "BOOKED"},
         EndHold(S, st)
  PROVE  SeatsTyped'
BY SentinelsOK, TimesOK DEF SeatsTyped, SeatStatus, EndHold, SetOn

\* After a finished call a process is idle or has a candidate to ask about.
LEMMA FinishTyped ==
  ASSUME ProcsTyped, NEW p \in Procs, Finish(p), faults' \in 0..MaxFaults
  PROVE  ProcsTyped'
BY SentinelsOK, RolesOK DEF ProcsTyped, PCs, Finish

\* A process that moves on to a step that needs an order still has its order.
LEMMA GotoTyped ==
  ASSUME ProcsTyped, NEW p \in Procs, pc[p] \notin {"idle", "inquire"},
         NEW l \in PCs \ {"idle", "inquire"}, Goto(p, l), p \notin Webhooks,
         faults' \in 0..MaxFaults
  PROVE  ProcsTyped'
BY DEF ProcsTyped, PCs, Goto

\* The count of faults stays within its bound.
LEMMA FaultTyped ==
  ASSUME faults \in 0..MaxFaults, Fault \/ UNCHANGED faults
  PROVE  faults' \in 0..MaxFaults
BY BoundsOK DEF Fault

\* A batch is taken from its candidates (sweep_expired_holds, unresolved_orders).
LEMMA OldestSubset ==
  ASSUME NEW S, NEW n, NEW measure, NEW T \in Oldest(S, n, measure)
  PROVE  T \subseteq S
BY DEF Oldest

\* A batch of a finite, nonempty set of candidates is not empty: a reconcile()
\* that found orders has one to ask about.
LEMMA OldestNonempty ==
  ASSUME NEW S, IsFiniteSet(S), S # {}, NEW n \in Nat \ {0}, NEW measure,
         NEW T \in Oldest(S, n, measure)
  PROVE  T # {}
<1>1. Cardinality(S) \in Nat /\ Cardinality(S) # 0
  BY FS_CardinalityType, FS_EmptySet
<1>2. Cardinality(T) # 0
  BY <1>1 DEF Oldest
<1>3. Cardinality({}) = 0
  BY FS_EmptySet
<1>. QED BY <1>2, <1>3

\* unresolved_orders finds finitely many orders.
LEMMA UnresolvedFinite == IsFiniteSet(Unresolved)
BY SetsFinite, FS_Subset DEF Unresolved

\* The transaction of confirm_paid() writes values of the columns' domains.
LEMMA ConfirmCommitTyped ==
  ASSUME TypeOK, NEW k \in Orders, ConfirmCommit(k)
  PROVE  /\ SeatsTyped'
         /\ charged' \in [Orders -> BOOLEAN] /\ refunds' \in [Orders -> Nat]
              => OrdersTyped'
<1>. USE DEF TypeOK
<1>1. seatIds[k] \in SUBSET Seats
  BY DEF OrdersTyped
<1>2. SeatsTyped'
  BY <1>1, EndHoldTyped DEF ConfirmCommit
<1>3. pays' \in [Orders -> [PayStatus -> Nat]]
  BY ApproveRowsType DEF OrdersTyped, ConfirmCommit
<1>4. outbox' \in [Orders -> Seq(Topics)]
  BY DEF OrdersTyped, ConfirmCommit, Topics
<1>5. /\ item' \in [Seats -> Orders \union {NoOrder}]
      /\ unheld' \in SUBSET Seats
      /\ status' \in [Orders -> OrderStatus \union {"NONE"}]
      /\ snapshot' \in [Orders -> SUBSET Seats]
      /\ UNCHANGED <<buyer, seatIds, age>>
  BY DEF OrdersTyped, ConfirmCommit, SetOn, OrderStatus, Resolved
<1>. QED BY <1>2, <1>3, <1>4, <1>5 DEF OrdersTyped

\* Every step keeps the types: one case for each action of the saga.
LEMMA TypeStep == TypeOK /\ [Next]_vars => TypeOK'
<1> SUFFICES ASSUME TypeOK, [Next]_vars
             PROVE  TypeOK'
  OBVIOUS
<1>. USE DEF TypeOK
<1>a. faults \in 0..MaxFaults
  BY DEF ProcsTyped
<1>1. ASSUME NEW u \in Users, NEW S \in SUBSET Seats, Hold(u, S)
      PROVE  TypeOK'
  <2>1. SeatsTyped'
    BY <1>1, SentinelsOK, TimesOK DEF SeatsTyped, SeatStatus, Hold, SetHold, SetOn
  <2>2. OrdersTyped' /\ ProcsTyped'
    BY <1>1 DEF Hold, OrdersTyped, ProcsTyped, orderVars, pgVars, procVars
  <2>. QED BY <2>1, <2>2
<1>2. ASSUME NEW u \in Users, NEW S \in SUBSET Seats, Release(u, S)
      PROVE  TypeOK'
  <2>1. SeatsTyped'
    BY <1>2, EndHoldTyped DEF Release
  <2>2. OrdersTyped' /\ ProcsTyped'
    BY <1>2 DEF Release, OrdersTyped, ProcsTyped, orderVars, pgVars, procVars
  <2>. QED BY <2>1, <2>2
<1>3. CASE Sweep
  <2>1. PICK S \in Oldest(ExpiredSeats, SweepBatch, left) : EndHold(S, "AVAILABLE")
    BY <1>3 DEF Sweep, SweepFrom
  <2>2. S \in SUBSET Seats
    BY <2>1, OldestSubset DEF ExpiredSeats
  <2>3. SeatsTyped'
    BY <2>1, <2>2, EndHoldTyped
  <2>4. OrdersTyped' /\ ProcsTyped'
    BY <1>3 DEF Sweep, SweepFrom, OrdersTyped, ProcsTyped, orderVars, pgVars, procVars
  <2>. QED BY <2>3, <2>4
<1>4. CASE Tick
  <2>1. SeatsTyped'
    BY <1>4, TimesOK DEF SeatsTyped, Tick
  <2>2. OrdersTyped'
    BY <1>4, TimesOK DEF OrdersTyped, Tick, pgVars
  <2>3. ProcsTyped'
    BY <1>4 DEF ProcsTyped, Tick, procVars
  <2>. QED BY <2>1, <2>2, <2>3
<1>5. ASSUME NEW p \in Procs, NEW k \in Orders, NEW u \in Users,
             NEW S \in SUBSET Seats, PlaceOpen(p, k, u, S)
      PROVE  TypeOK'
  <2>1. SeatsTyped'
    BY <1>5 DEF SeatsTyped, PlaceOpen, seatVars
  <2>2. pays' \in [Orders -> [PayStatus -> Nat]]
    BY <1>5, AddRowType DEF OrdersTyped, PlaceOpen, PayStatus
  <2>3. OrdersTyped'
    BY <1>5, <2>2, TimesOK
    DEF OrdersTyped, OrderStatus, PlaceOpen, pgVars
  <2>4. ProcsTyped'
    BY <1>5, SentinelsOK, RolesOK DEF ProcsTyped, PCs, PlaceOpen
  <2>. QED BY <2>1, <2>3, <2>4
<1>6. ASSUME NEW p \in Procs, NEW k \in Orders, Webhook(p, k)
      PROVE  TypeOK'
  <2>1. SeatsTyped' /\ OrdersTyped'
    BY <1>6 DEF Webhook, SeatsTyped, OrdersTyped, seatVars, orderVars, pgVars
  <2>2. ProcsTyped'
    BY <1>6, SentinelsOK DEF ProcsTyped, PCs, Webhook
  <2>. QED BY <2>1, <2>2
<1>7. ASSUME NEW p \in Procs, NEW k \in Orders, CancelStart(p, k)
      PROVE  TypeOK'
  <2>1. SeatsTyped' /\ OrdersTyped'
    BY <1>7 DEF CancelStart, SeatsTyped, OrdersTyped, seatVars, orderVars, pgVars
  <2>2. ProcsTyped'
    BY <1>7, SentinelsOK, RolesOK DEF ProcsTyped, PCs, CancelStart
  <2>. QED BY <2>1, <2>2
<1>8. ASSUME NEW p \in Procs, Approve(p)
      PROVE  TypeOK'
  <2>1. SeatsTyped'
    BY <1>8 DEF Approve, SeatsTyped, seatVars
  <2>2. OrdersTyped'
    BY <1>8 DEF Approve, OrdersTyped, orderVars
  <2>3. faults' \in 0..MaxFaults
    BY <1>8, <1>a, FaultTyped DEF Approve, NoFault, Unknown
  <2>4. CASE Finish(p)
    BY <2>1, <2>2, <2>3, <2>4, FinishTyped
  <2>5. CASE Goto(p, "confirm") \/ Goto(p, "close")
    BY <1>8, <2>1, <2>2, <2>3, <2>5, GotoTyped DEF Approve, ProcsTyped, PCs
  <2>. QED BY <1>8, <2>4, <2>5 DEF Approve
<1>9. ASSUME NEW p \in Procs, Confirm(p)
      PROVE  TypeOK'
  <2>1. SeatsTyped' /\ OrdersTyped'
    BY <1>9 DEF Confirm, SeatsTyped, OrdersTyped, seatVars, orderVars, pgVars
  <2>2. faults' \in 0..MaxFaults /\ p \notin Webhooks
    BY <1>9, <1>a DEF Confirm, ProcsTyped
  <2>3. Finish(p) \/ Goto(p, "book") \/ Goto(p, "refund")
    BY <1>9 DEF Confirm
  <2>. QED BY <1>9, <2>1, <2>2, <2>3, FinishTyped, GotoTyped DEF Confirm, PCs
<1>20. ASSUME NEW p \in Procs, BookSeats(p)
       PROVE  TypeOK'
  <2>. DEFINE k == job[p]
  <2>1. k \in Orders
    BY <1>20 DEF BookSeats, ProcsTyped
  <2>2. faults' \in 0..MaxFaults
    BY <1>20, <1>a DEF BookSeats
  <2>3. CASE ConfirmCommit(k) /\ Finish(p)
    <3>1. SeatsTyped' /\ OrdersTyped'
      BY <1>20, <2>1, <2>3, ConfirmCommitTyped DEF BookSeats, pgVars, OrdersTyped
    <3>. QED BY <3>1, <2>2, <2>3, FinishTyped
  <2>4. CASE HoldExpired(p) /\ UNCHANGED <<seatVars, item, unheld, orderVars, pays, outbox>>
    <3>1. SeatsTyped' /\ OrdersTyped'
      BY <1>20, <2>4 DEF BookSeats, SeatsTyped, OrdersTyped, seatVars, orderVars, pgVars
    <3>2. Finish(p) \/ (Goto(p, "refund") /\ p \notin Webhooks)
      BY <2>4 DEF HoldExpired
    <3>. QED BY <1>20, <3>1, <3>2, <2>2, FinishTyped, GotoTyped DEF BookSeats, PCs
  <2>. QED BY <1>20, <2>3, <2>4 DEF BookSeats
<1>10. ASSUME NEW p \in Procs, Close(p)
       PROVE  TypeOK'
  <2>. DEFINE k == job[p]
              st == IF p \in Handlers THEN "FAILED" ELSE "CANCELED"
  <2>1. k \in Orders
    BY <1>10 DEF Close, ProcsTyped
  <2>2. ProcsTyped'
    BY <1>10, <1>a, FinishTyped DEF Close
  <2>3. CASE status[k] = "PENDING"
    <3>1. Releasable(buyer[k], seatIds[k]) \in SUBSET Seats
      BY <2>1 DEF OrdersTyped, Releasable
    <3>2. SeatsTyped'
      BY <1>10, <2>3, <3>1, EndHoldTyped DEF Close, CloseUnpaid
    <3>3. pays' \in [Orders -> [PayStatus -> Nat]]
      <4>1. pays[k] \in [PayStatus -> Nat]
        BY <2>1 DEF OrdersTyped
      <4>2. FailRequested(pays[k]) \in [PayStatus -> Nat]
        BY <4>1, FailRequestedType
      <4>. QED BY <1>10, <2>3, <4>2 DEF Close, CloseUnpaid, OrdersTyped
    <3>4. OrdersTyped'
      BY <1>10, <2>3, <3>3
      DEF Close, CloseUnpaid, OrdersTyped, OrderStatus, Resolved, pgVars
    <3>. QED BY <2>2, <3>2, <3>4
  <2>4. CASE status[k] # "PENDING"
    <3>1. SeatsTyped' /\ OrdersTyped'
      BY <1>10, <2>4
      DEF Close, CloseUnpaid, SeatsTyped, OrdersTyped, seatVars, orderVars, pgVars
    <3>. QED BY <2>2, <3>1
  <2>. QED BY <2>3, <2>4
<1>11. ASSUME NEW p \in Procs, Refund(p) \/ CancelRefund(p)
       PROVE  TypeOK'
  <2>1. SeatsTyped'
    BY <1>11 DEF Refund, CancelRefund, SeatsTyped, seatVars
  <2>6. refunds' \in [Orders -> Nat]
    BY <1>11 DEF Refund, CancelRefund, PgRefund, OrdersTyped
  <2>2. OrdersTyped'
    BY <1>11, <2>6 DEF Refund, CancelRefund, OrdersTyped, orderVars
  <2>3. faults' \in 0..MaxFaults
    BY <1>11, <1>a, FaultTyped DEF Refund, CancelRefund, PgRefund, NoFault
  <2>4. pc[p] \notin {"idle", "inquire"} /\ p \notin Webhooks
    BY <1>11 DEF Refund, CancelRefund, ProcsTyped
  <2>5. \E l \in PCs \ {"idle", "inquire"} : Goto(p, l)
    BY <1>11 DEF Refund, CancelRefund, PgRefund, PCs
  <2>. QED BY <2>1, <2>2, <2>3, <2>4, <2>5, GotoTyped
<1>12. ASSUME NEW p \in Procs, RecordRefunded(p)
       PROVE  TypeOK'
  <2>. DEFINE k == job[p]
  <2>1. k \in Orders
    BY <1>12 DEF RecordRefunded, PutOnRecord, ProcsTyped
  <2>2. ProcsTyped'
    BY <1>12, <1>a, FinishTyped DEF RecordRefunded, PutOnRecord
  <2>3. SeatsTyped'
    <3>1. Releasable(buyer[k], seatIds[k]) \in SUBSET Seats
      BY <2>1 DEF OrdersTyped, Releasable
    <3>. QED BY <1>12, <3>1, EndHoldTyped DEF RecordRefunded, PutOnRecord
  <2>4. pays' \in [Orders -> [PayStatus -> Nat]]
    <3>1. "REFUNDED" \in PayStatus /\ pays[k] \in [PayStatus -> Nat]
      BY <2>1 DEF PayStatus, OrdersTyped
    <3>2. FailRequested(AddRow(pays[k], "REFUNDED")) \in [PayStatus -> Nat]
      BY <3>1, AddRowType, FailRequestedType
    <3>. QED BY <1>12, <3>2 DEF RecordRefunded, PutOnRecord, OrdersTyped
  <2>5. OrdersTyped'
    BY <1>12, <2>4 DEF RecordRefunded, PutOnRecord, OrdersTyped, OrderStatus, Resolved, pgVars
  <2>. QED BY <2>2, <2>3, <2>5
<1>13. ASSUME NEW p \in Procs, RecordFailed(p)
       PROVE  TypeOK'
  <2>. DEFINE k == job[p]
  <2>1. k \in Orders
    BY <1>13 DEF RecordFailed, ProcsTyped
  <2>2. ProcsTyped'
    BY <1>13, <1>a, FinishTyped DEF RecordFailed
  <2>3. "FAILED" \in PayStatus /\ pays[k] \in [PayStatus -> Nat]
    BY <2>1 DEF PayStatus, OrdersTyped
  <2>4. FailRequested(AddRow(pays[k], "FAILED")) \in [PayStatus -> Nat]
    BY <2>3, AddRowType, FailRequestedType
  <2>5. SeatsTyped' /\ OrdersTyped'
    BY <1>13, <2>4 DEF RecordFailed, SeatsTyped, OrdersTyped, seatVars, orderVars, pgVars
  <2>. QED BY <2>2, <2>5
<1>14. ASSUME NEW p \in Procs, Scan(p)
       PROVE  TypeOK'
  <2>1. SeatsTyped' /\ OrdersTyped'
    BY <1>14 DEF Scan, SeatsTyped, OrdersTyped, seatVars, orderVars, pgVars
  <2>2. PICK T \in Oldest(Unresolved, ReconcileBatch, [k \in Orders |-> -age[k]]) :
          todo' = [todo EXCEPT ![p] = T]
    BY <1>14 DEF Scan
  <2>3. T \subseteq Orders
    BY <2>2, OldestSubset DEF Unresolved
  <2>4. T # {}
    BY <1>14, <2>2, OldestNonempty, UnresolvedFinite, BoundsOK DEF Scan
  <2>5. ProcsTyped'
    BY <1>14, <2>2, <2>3, <2>4, RolesOK DEF Scan, ProcsTyped, PCs
  <2>. QED BY <2>1, <2>5
<1>15. ASSUME NEW p \in Procs, Inquire(p)
       PROVE  TypeOK'
  <2>1. SeatsTyped' /\ OrdersTyped'
    BY <1>15 DEF Inquire, Conclusive, Inconclusive, SeatsTyped, OrdersTyped, seatVars, orderVars, pgVars
  <2>2. faults' \in 0..MaxFaults
    BY <1>15, <1>a, FaultTyped DEF Inquire, Conclusive, Inconclusive, NoFault, Unknown
  <2>3. ProcsTyped'
    BY <1>15, <2>2, SentinelsOK DEF Inquire, Conclusive, Inconclusive, ProcsTyped, PCs
  <2>. QED BY <2>1, <2>3
<1>16. ASSUME NEW p \in Procs, CancelFailed(p)
       PROVE  TypeOK'
  <2>1. job[p] \in Orders
    BY <1>16 DEF CancelFailed, ProcsTyped
  <2>2. AddRow(pays[job[p]], "FAILED") \in [PayStatus -> Nat]
    BY <2>1, AddRowType DEF PayStatus, OrdersTyped
  <2>3. SeatsTyped' /\ OrdersTyped'
    BY <1>16, <2>2 DEF CancelFailed, SeatsTyped, OrdersTyped, seatVars, orderVars, pgVars
  <2>4. ProcsTyped'
    BY <1>16, <1>a, FinishTyped DEF CancelFailed
  <2>. QED BY <2>3, <2>4
<1>17. ASSUME NEW p \in Procs, CancelCommit(p)
       PROVE  TypeOK'
  <2>. DEFINE k == job[p]
  <2>1. ProcsTyped'
    BY <1>17, <1>a, FinishTyped DEF CancelCommit
  <2>2. k \in Orders
    BY <1>17 DEF CancelCommit, ProcsTyped
  <2>3. CASE status[k] = "PAID"
    <3>1. SeatsTyped'
      BY <1>17, <2>3 DEF CancelCommit, Restore, SetOn, SeatsTyped, SeatStatus
    <3>2. AddRow(pays[k], "REFUNDED") \in [PayStatus -> Nat]
      BY <2>2, AddRowType DEF PayStatus, OrdersTyped
    <3>3. outbox' \in [Orders -> Seq(Topics)]
      <4>1. outbox[k] \in Seq(Topics) /\ "order.canceled" \in Topics
        BY <2>2 DEF OrdersTyped, Topics
      <4>2. Append(outbox[k], "order.canceled") \in Seq(Topics)
        BY <4>1
      <4>. QED BY <1>17, <2>3, <4>2 DEF CancelCommit, OrdersTyped
    <3>4. pays' \in [Orders -> [PayStatus -> Nat]]
      BY <1>17, <2>3, <3>2 DEF CancelCommit, OrdersTyped
    <3>5. OrdersTyped'
      BY <1>17, <2>3, <3>3, <3>4
      DEF CancelCommit, Restore, OrdersTyped, OrderStatus, Resolved, pgVars
    <3>. QED BY <2>1, <3>1, <3>5
  <2>4. CASE status[k] # "PAID"
    <3>1. SeatsTyped' /\ OrdersTyped'
      BY <1>17, <2>4
      DEF CancelCommit, SeatsTyped, OrdersTyped, seatVars, orderVars, pgVars
    <3>. QED BY <2>1, <3>1
  <2>. QED BY <2>3, <2>4
<1>18. ASSUME NEW p \in Procs, Crash(p)
       PROVE  TypeOK'
  <2>1. SeatsTyped' /\ OrdersTyped'
    BY <1>18 DEF Crash, SeatsTyped, OrdersTyped, seatVars, orderVars, pgVars
  <2>2. faults' \in 0..MaxFaults
    BY <1>18, <1>a, FaultTyped DEF Crash
  <2>3. ProcsTyped'
    BY <1>18, <2>2, SentinelsOK DEF Crash, ProcsTyped, PCs
  <2>. QED BY <2>1, <2>3
<1>19. CASE UNCHANGED vars
  BY <1>19 DEF vars, SeatsTyped, OrdersTyped, ProcsTyped
<1>. QED
  BY <1>1, <1>2, <1>3, <1>4, <1>5, <1>6, <1>7, <1>8, <1>9, <1>10, <1>11, <1>12,
     <1>13, <1>14, <1>15, <1>16, <1>17, <1>18, <1>19, <1>20 DEF Next, Work

\* A schedule nobody has bought from is well typed.
LEMMA TypeInit == Init => TypeOK
BY SentinelsOK, TimesOK, BoundsOK
DEF Init, TypeOK, SeatsTyped, OrdersTyped, ProcsTyped, SeatStatus, PayStatus, PCs

\* Whatever the clients, the workers and the PG do, every column holds a value
\* of its domain, the hold columns match the status, and a process in the middle
\* of place(), cancel() or reconcile() has the order it works on.
THEOREM TypeCorrect == Spec => []TypeOK
<1>1. Init => TypeOK
  BY TypeInit
<1>2. TypeOK /\ [Next]_vars => TypeOK'
  BY TypeStep
<1>. QED BY <1>1, <1>2, PTL DEF Spec

-----------------------------------------------------------------------------
(* Seats and records follow the status of the orders.                      *)

\* An order_items row leads to an order that was confirmed for its seat.
ItemsFollowOrders ==
  \A s \in Seats :
    item[s] # NoOrder => EverPaid(item[s]) /\ s \in seatIds[item[s]]

\* An order has at most the one REQUESTED attempt place() opened with it, and
\* its seats from its first transaction on.
AttemptsFollowOrders ==
  \A k \in Orders :
    /\ pays[k]["REQUESTED"] <= 1
    /\ status[k] = "NONE" => seatIds[k] = {} /\ pays[k]["REQUESTED"] = 0
    /\ status[k] # "NONE" => seatIds[k] # {}

\* The lock of an order's row: the transaction of confirm_paid() that has it found
\* the order PENDING, and it is the only one.
RowLocked ==
  \A p \in Procs : pc[p] = "book" =>
    /\ status[job[p]] = "PENDING"
    /\ \A q \in Procs : pc[q] = "book" /\ job[q] = job[p] => q = p

\* What the inductive invariant says of the rows.  SeatsFollowOrders alone is not inductive: that a
\* canceled order's cancellation restores no seat of another order needs
\* ItemsFollowOrders, and that confirm_paid() leaves exactly one approval needs
\* AttemptsFollowOrders.
SalesOK ==
  /\ SeatsFollowOrders
  /\ RecordsFollowStatus
  /\ ItemsFollowOrders
  /\ AttemptsFollowOrders

\* The inductive invariant: an order is confirmed at most once because whoever
\* books its seats has its row.
SaleInv == SalesOK /\ RowLocked

\* A step that sells no seat and takes no sold seat back.
SameBookings == \A s \in Seats : seat'[s] = "BOOKED" <=> seat[s] = "BOOKED"

\* Holding, releasing, sweeping and the calls to the PG do not disturb SalesOK.
LEMMA SaleUnchanged ==
  ASSUME SalesOK, SameBookings,
         UNCHANGED <<item, status, seatIds, snapshot, pays, outbox>>
  PROVE  SalesOK'
BY DEF SalesOK, SameBookings, SeatsFollowOrders, RecordsFollowStatus, RecordsMatch,
       ItemsFollowOrders, AttemptsFollowOrders, EverPaid

\* release_hold touches HELD seats only, never a sold one.
LEMMA ReleaseSameBookings ==
  ASSUME SeatsTyped, NEW u, NEW S, EndHold(Releasable(u, S), "AVAILABLE")
  PROVE  SameBookings
BY DEF SeatsTyped, EndHold, Releasable, SetOn, SameBookings

\* confirm_paid() keeps them: the seats it books were held, had no
\* order_items row, and so belonged to no paid order.
LEMMA ConfirmCommitSale ==
  ASSUME TypeOK, SalesOK, NEW k \in Orders, status[k] = "PENDING", ConfirmCommit(k)
  PROVE  SalesOK'
<1>. USE DEF TypeOK
<1>0. /\ ~EverPaid(k)
      /\ seatIds[k] \subseteq Seats /\ seatIds[k] # {}
      /\ \A s \in seatIds[k] : seat[s] = "HELD" /\ item[s] = NoOrder
      /\ \A s \in Seats : item[s] # k
      /\ EverPaid(k)'
      /\ \A j \in Orders \ {k} : EverPaid(j)' <=> EverPaid(j)
  <2>1. ~EverPaid(k) /\ seatIds[k] \subseteq Seats /\ seatIds[k] # {}
    BY DEF EverPaid, OrdersTyped, SalesOK, AttemptsFollowOrders
  <2>2. \A s \in seatIds[k] : seat[s] = "HELD" /\ item[s] = NoOrder
    BY DEF ConfirmCommit, Bookable
  <2>3. \A s \in Seats : item[s] # k
    BY <2>1, SentinelsOK DEF SalesOK, ItemsFollowOrders
  <2>4. EverPaid(k)' /\ \A j \in Orders \ {k} : EverPaid(j)' <=> EverPaid(j)
    BY DEF ConfirmCommit, EverPaid, OrdersTyped
  <2>. QED BY <2>1, <2>2, <2>3, <2>4
<1>1. SeatsFollowOrders'
  BY <1>0, SentinelsOK
  DEF SalesOK, SeatsFollowOrders, ConfirmCommit, EndHold, SetOn,
      SeatsTyped, OrdersTyped
<1>2. ItemsFollowOrders'
  BY <1>0, SentinelsOK
  DEF SalesOK, ItemsFollowOrders, ConfirmCommit, SetOn, OrdersTyped
<1>3. /\ pays'[k]["REQUESTED"] = 0 /\ pays'[k]["APPROVED"] = 1
      /\ \A j \in Orders \ {k} : pays'[j] = pays[j]
  <2>1. /\ pays[k] \in [PayStatus -> Nat] /\ pays[k]["REQUESTED"] \in Nat
        /\ pays[k]["REQUESTED"] <= 1 /\ pays[k]["APPROVED"] = 0
    BY <1>0 DEF OrdersTyped, PayStatus, SalesOK, AttemptsFollowOrders, RecordsFollowStatus, RecordsMatch
  <2>2. /\ ApproveRows(pays[k])["REQUESTED"] = 0
        /\ ApproveRows(pays[k])["APPROVED"] = 1
    BY <2>1, ApproveRowsType
  <2>. QED BY <2>2 DEF ConfirmCommit, OrdersTyped
<1>4. /\ status' = [status EXCEPT ![k] = "PAID"]
      /\ outbox'[k] = <<"order.paid">>
      /\ \A j \in Orders \ {k} : outbox'[j] = outbox[j]
      /\ snapshot'[k] = seatIds[k]
      /\ \A j \in Orders \ {k} : snapshot'[j] = snapshot[j]
      /\ UNCHANGED seatIds
  <2>1. outbox[k] = <<>>
    BY <1>0 DEF SalesOK, RecordsFollowStatus, RecordsMatch
  <2>2. outbox'[k] = <<"order.paid">>
    BY <2>1 DEF ConfirmCommit, OrdersTyped
  <2>. QED BY <2>2 DEF ConfirmCommit, OrdersTyped
<1>5. AttemptsFollowOrders'
  BY <1>0, <1>3, <1>4 DEF SalesOK, AttemptsFollowOrders, OrdersTyped
<1>6. \A j \in Orders :
        EverPaid(j)' <=> seatIds'[j] # {} /\ \A s \in seatIds'[j] : item'[s] = j
  <2>. SUFFICES ASSUME NEW j \in Orders
                PROVE  EverPaid(j)' <=>
                         seatIds'[j] # {} /\ \A s \in seatIds'[j] : item'[s] = j
    OBVIOUS
  <2>1. \A s \in Seats : item'[s] = IF s \in seatIds[k] THEN k ELSE item[s]
    BY DEF ConfirmCommit, SetOn, OrdersTyped
  <2>2. EverPaid(j) <=> seatIds[j] # {} /\ \A s \in seatIds[j] : item[s] = j
    BY DEF SalesOK, RecordsFollowStatus, RecordsMatch
  <2>3. seatIds[j] \subseteq Seats
    BY DEF OrdersTyped
  <2>4. CASE j = k
    BY <2>1, <2>4, <1>0, <1>4
  <2>5. CASE j # k
    BY <2>1, <2>2, <2>3, <2>5, <1>0, <1>4, SentinelsOK
  <2>. QED BY <2>4, <2>5
<1>7. RecordsFollowStatus'
  <2>. SUFFICES ASSUME NEW j \in Orders
                PROVE  RecordsMatch(j)'
    BY DEF RecordsFollowStatus
  <2>1. CASE j = k
    BY <2>1, <1>0, <1>3, <1>4, <1>6 DEF OrdersTyped, RecordsMatch, Resolved
  <2>2. CASE j # k
    <3>1. status'[j] = status[j]
      BY <1>4, <2>2 DEF OrdersTyped
    <3>. QED BY <2>2, <3>1, <1>0, <1>3, <1>4, <1>6 DEF SalesOK, RecordsFollowStatus, RecordsMatch
  <2>. QED BY <2>1, <2>2
<1>. QED BY <1>1, <1>2, <1>5, <1>7 DEF SalesOK

\* Closing an unpaid order, or only recording a failed or refunded attempt,
\* keeps SalesOK: an order that is not PENDING keeps its status.
LEMMA EndUnpaidSale ==
  ASSUME TypeOK, SalesOK, NEW k \in Orders, SameBookings,
         UNCHANGED <<item, seatIds, snapshot, outbox>>,
         pays'[k]["APPROVED"] = pays[k]["APPROVED"],
         \A j \in Orders \ {k} : pays'[j] = pays[j],
         \/ /\ status[k] = "PENDING" /\ pays'[k]["REQUESTED"] = 0
            /\ \E x \in {"FAILED", "CANCELED"} : status' = [status EXCEPT ![k] = x]
         \/ /\ pays'[k]["REQUESTED"] \in {0, pays[k]["REQUESTED"]}
            /\ UNCHANGED status
  PROVE  SalesOK'
<1>. USE DEF TypeOK
<1>0. \A j \in Orders : EverPaid(j)' <=> EverPaid(j)
  <2>. SUFFICES ASSUME NEW j \in Orders PROVE EverPaid(j)' <=> EverPaid(j)
    OBVIOUS
  <2>1. RecordsMatch(j)
    BY DEF SalesOK, RecordsFollowStatus
  <2>2. status[k] = "PENDING" => snapshot[k] = {}
    BY DEF SalesOK, RecordsFollowStatus, RecordsMatch, EverPaid
  <2>. QED BY <2>1, <2>2 DEF EverPaid, OrdersTyped
<1>1. \A j \in Orders : status'[j] = "PAID" <=> status[j] = "PAID"
  BY DEF OrdersTyped
<1>2. SeatsFollowOrders'
  BY <1>1 DEF SalesOK, SeatsFollowOrders, SameBookings, OrdersTyped
<1>3. ItemsFollowOrders'
  BY <1>0 DEF SalesOK, ItemsFollowOrders, OrdersTyped
<1>4. AttemptsFollowOrders'
  <2>. SUFFICES ASSUME NEW j \in Orders
                PROVE  /\ pays'[j]["REQUESTED"] <= 1
                       /\ status'[j] = "NONE" =>
                            seatIds'[j] = {} /\ pays'[j]["REQUESTED"] = 0
                       /\ status'[j] # "NONE" => seatIds'[j] # {}
    BY DEF AttemptsFollowOrders
  <2>1. /\ pays[j]["REQUESTED"] <= 1
        /\ status[j] = "NONE" => seatIds[j] = {} /\ pays[j]["REQUESTED"] = 0
        /\ status[j] # "NONE" => seatIds[j] # {}
    BY DEF SalesOK, AttemptsFollowOrders
  <2>2. pays'[j]["REQUESTED"] \in {0, pays[j]["REQUESTED"]}
    OBVIOUS
  <2>3. status'[j] = "NONE" <=> status[j] = "NONE"
    BY DEF OrdersTyped
  <2>. QED BY <2>1, <2>2, <2>3
<1>5. RecordsFollowStatus'
  <2>. SUFFICES ASSUME NEW j \in Orders PROVE RecordsMatch(j)'
    BY DEF RecordsFollowStatus
  <2>1. RecordsMatch(j)
    BY DEF SalesOK, RecordsFollowStatus
  <2>2. EverPaid(j)' <=> EverPaid(j)
    BY <1>0
  <2>3. pays'[j]["APPROVED"] = pays[j]["APPROVED"]
    OBVIOUS
  <2>4. status'[j] \in Resolved => pays'[j]["REQUESTED"] = 0
    BY <2>1 DEF RecordsMatch, OrdersTyped, Resolved
  <2>. QED BY <2>1, <2>2, <2>3, <2>4, <1>1 DEF RecordsMatch
<1>. QED BY <1>2, <1>3, <1>4, <1>5 DEF SalesOK

\* The outbox of a canceled order: order.paid, then order.canceled.
LEMMA CanceledAfterPaid ==
  Append(<<"order.paid">>, "order.canceled") = <<"order.paid", "order.canceled">>
<1>. DEFINE a == Append(<<"order.paid">>, "order.canceled")
            b == <<"order.paid", "order.canceled">>
<1>1. <<"order.paid">> \in Seq(Topics) /\ "order.canceled" \in Topics /\ b \in Seq(Topics)
  BY DEF Topics
<1>2. /\ a \in Seq(Topics) /\ Len(a) = 2
      /\ a[1] = "order.paid" /\ a[2] = "order.canceled"
  BY <1>1, AppendProperties
<1>3. Len(b) = 2 /\ b[1] = "order.paid" /\ b[2] = "order.canceled"
  OBVIOUS
<1>4. \A i \in 1..Len(a) : a[i] = b[i]
  BY <1>2, <1>3
<1>. HIDE DEF a, b
<1>5. a = b
  BY <1>1, <1>2, <1>3, <1>4, SeqEqual
<1>. QED BY <1>5 DEF a, b

\* The last transaction of cancel() keeps SalesOK: the seats restored are
\* exactly those of the order that stops being PAID.
LEMMA CancelSale ==
  ASSUME TypeOK, SalesOK, NEW k \in Orders, status[k] = "PAID",
         status' = [status EXCEPT ![k] = "CANCELED"],
         pays' = [pays EXCEPT ![k] = AddRow(@, "REFUNDED")],
         Restore(k),
         outbox' = [outbox EXCEPT ![k] = Append(@, "order.canceled")],
         UNCHANGED <<seatIds, snapshot>>
  PROVE  SalesOK'
<1>. USE DEF TypeOK
<1>0. /\ EverPaid(k) /\ EverPaid(k)'
      /\ \A j \in Orders : EverPaid(j)' <=> EverPaid(j)
      /\ UNCHANGED item
  BY DEF SalesOK, RecordsFollowStatus, RecordsMatch, EverPaid, OrdersTyped,
         AttemptsFollowOrders, Restore
<1>1. /\ pays'[k]["REQUESTED"] = pays[k]["REQUESTED"]
      /\ pays'[k]["APPROVED"] = pays[k]["APPROVED"]
      /\ \A j \in Orders \ {k} : pays'[j] = pays[j]
  <2>1. pays[k] \in [PayStatus -> Nat]
    BY DEF OrdersTyped
  <2>2. /\ AddRow(pays[k], "REFUNDED")["REQUESTED"] = pays[k]["REQUESTED"]
        /\ AddRow(pays[k], "REFUNDED")["APPROVED"] = pays[k]["APPROVED"]
    BY <2>1, AddRowType DEF PayStatus
  <2>. QED BY <2>2 DEF OrdersTyped
<1>2. outbox'[k] = <<"order.paid", "order.canceled">>
  <2>1. outbox[k] = <<"order.paid">>
    BY <1>0 DEF SalesOK, RecordsFollowStatus, RecordsMatch
  <2>2. Append(outbox[k], "order.canceled") = <<"order.paid", "order.canceled">>
    BY <2>1, CanceledAfterPaid
  <2>. QED BY <2>2 DEF OrdersTyped
<1>3. SeatsFollowOrders'
  BY <1>0, SentinelsOK
  DEF SalesOK, SeatsFollowOrders, Restore, SetOn, SeatsTyped, OrdersTyped
<1>4. ItemsFollowOrders'
  BY <1>0 DEF SalesOK, ItemsFollowOrders, OrdersTyped
<1>5. AttemptsFollowOrders'
  BY <1>1 DEF SalesOK, AttemptsFollowOrders, OrdersTyped
<1>6. RecordsFollowStatus'
  <2>. SUFFICES ASSUME NEW j \in Orders PROVE RecordsMatch(j)'
    BY DEF RecordsFollowStatus
  <2>1. RecordsMatch(j) /\ RecordsMatch(k)
    BY DEF SalesOK, RecordsFollowStatus
  <2>2. CASE j = k
    <3>1. status'[k] = "CANCELED" /\ pays[k]["REQUESTED"] = 0
      BY <2>1 DEF OrdersTyped, RecordsMatch, Resolved
    <3>. QED BY <2>1, <2>2, <3>1, <1>0, <1>1, <1>2 DEF RecordsMatch
  <2>3. CASE j # k
    <3>1. status'[j] = status[j] /\ outbox'[j] = outbox[j]
      BY <2>3 DEF OrdersTyped
    <3>. QED BY <2>1, <2>3, <3>1, <1>0, <1>1 DEF RecordsMatch
  <2>. QED BY <2>2, <2>3
<1>. QED BY <1>3, <1>4, <1>5, <1>6 DEF SalesOK

\* Every step keeps SalesOK.
LEMMA SaleStep == TypeOK /\ SaleInv /\ [Next]_vars => SalesOK'
<1> SUFFICES ASSUME TypeOK, SalesOK, RowLocked, [Next]_vars
             PROVE  SalesOK'
  BY DEF SaleInv
<1>. USE DEF TypeOK
<1>1. ASSUME NEW u \in Users, NEW S \in SUBSET Seats, Hold(u, S)
      PROVE  SalesOK'
  <2>1. SameBookings
    BY <1>1 DEF Hold, SetHold, SetOn, Claimable, ExpiredSeats, SeatsTyped, SameBookings
  <2>. QED BY <1>1, <2>1, SaleUnchanged DEF Hold, orderVars
<1>2. ASSUME NEW u \in Users, NEW S \in SUBSET Seats, Release(u, S)
      PROVE  SalesOK'
  <2>1. SameBookings
    BY <1>2, ReleaseSameBookings DEF Release
  <2>. QED BY <1>2, <2>1, SaleUnchanged DEF Release, orderVars
<1>3. CASE Sweep
  <2>1. PICK S \in Oldest(ExpiredSeats, SweepBatch, left) : EndHold(S, "AVAILABLE")
    BY <1>3 DEF Sweep, SweepFrom
  <2>2. S \subseteq ExpiredSeats
    BY <2>1, OldestSubset
  <2>3. SameBookings
    BY <2>1, <2>2 DEF ExpiredSeats, EndHold, SetOn, SeatsTyped, SameBookings
  <2>. QED BY <1>3, <2>3, SaleUnchanged DEF Sweep, SweepFrom, orderVars
<1>4. CASE Tick
  BY <1>4, SaleUnchanged DEF Tick, SameBookings
<1>5. ASSUME NEW p \in Procs, NEW k \in Orders, NEW u \in Users,
             NEW S \in SUBSET Seats, PlaceOpen(p, k, u, S)
      PROVE  SalesOK'
  <2>1. /\ ~EverPaid(k) /\ \A s \in Seats : item[s] # k
        /\ \A j \in Orders : EverPaid(j)' <=> EverPaid(j)
        /\ \A j \in Orders : status'[j] = "PAID" <=> status[j] = "PAID"
        /\ UNCHANGED <<seat, item, snapshot, outbox>>
    BY <1>5, SentinelsOK
    DEF PlaceOpen, EverPaid, SalesOK, ItemsFollowOrders, OrdersTyped, seatVars
  <2>2. /\ pays'[k]["REQUESTED"] = 1 /\ pays'[k]["APPROVED"] = pays[k]["APPROVED"]
        /\ \A j \in Orders \ {k} : pays'[j] = pays[j]
    <3>1. pays[k] \in [PayStatus -> Nat] /\ pays[k]["REQUESTED"] = 0
      BY <1>5 DEF PlaceOpen, OrdersTyped, SalesOK, AttemptsFollowOrders
    <3>2. /\ AddRow(pays[k], "REQUESTED")["REQUESTED"] = 1
          /\ AddRow(pays[k], "REQUESTED")["APPROVED"] = pays[k]["APPROVED"]
      <4>1. AddRow(pays[k], "REQUESTED")["REQUESTED"] = pays[k]["REQUESTED"] + 1
        BY <3>1, AddRowAttempts
      <4>. QED BY <3>1, <4>1, AddRowAttempts
    <3>. QED BY <1>5, <3>2 DEF PlaceOpen, OrdersTyped
  <2>3. SeatsFollowOrders'
    BY <1>5, <2>1 DEF SalesOK, SeatsFollowOrders, PlaceOpen, OrdersTyped
  <2>4. ItemsFollowOrders'
    BY <1>5, <2>1 DEF SalesOK, ItemsFollowOrders, PlaceOpen, OrdersTyped
  <2>5. AttemptsFollowOrders'
    BY <1>5, <2>2 DEF SalesOK, AttemptsFollowOrders, PlaceOpen, OrdersTyped
  <2>6. RecordsFollowStatus'
    <3>. SUFFICES ASSUME NEW j \in Orders PROVE RecordsMatch(j)'
      BY DEF RecordsFollowStatus
    <3>1. RecordsMatch(j) /\ RecordsMatch(k)
      BY DEF SalesOK, RecordsFollowStatus
    <3>2. CASE j = k
      BY <1>5, <2>1, <2>2, <3>1, <3>2 DEF PlaceOpen, RecordsMatch, OrdersTyped, Resolved
    <3>3. CASE j # k
      <4>1. status'[j] = status[j] /\ seatIds'[j] = seatIds[j]
        BY <1>5, <3>3 DEF PlaceOpen, OrdersTyped
      <4>. QED BY <2>1, <2>2, <3>1, <3>3, <4>1 DEF RecordsMatch
    <3>. QED BY <3>2, <3>3
  <2>. QED BY <2>3, <2>4, <2>5, <2>6 DEF SalesOK
<1>6. ASSUME NEW p \in Procs, NEW k \in Orders, CancelStart(p, k) \/ Webhook(p, k)
      PROVE  SalesOK'
  <2>1. UNCHANGED <<seatVars, item, unheld, orderVars, pays, outbox>>
    BY <1>6 DEF CancelStart, Webhook
  <2>. QED BY <2>1, SaleUnchanged DEF SameBookings, seatVars, orderVars
<1>7. ASSUME NEW p \in Procs, BookSeats(p)
      PROVE  SalesOK'
  <2>1. job[p] \in Orders /\ status[job[p]] = "PENDING"
    BY <1>7 DEF BookSeats, ProcsTyped, RowLocked
  <2>2. CASE ConfirmCommit(job[p])
    BY <2>1, <2>2, ConfirmCommitSale
  <2>3. CASE UNCHANGED <<seatVars, item, unheld, orderVars, pays, outbox>>
    BY <2>3, SaleUnchanged DEF SameBookings, seatVars, orderVars
  <2>. QED BY <1>7, <2>2, <2>3 DEF BookSeats
<1>8. ASSUME NEW p \in Procs, Close(p)
      PROVE  SalesOK'
  <2>. DEFINE k == job[p]
  <2>1. k \in Orders
    BY <1>8 DEF Close, ProcsTyped
  <2>2. CASE status[k] = "PENDING"
    <3>1. SameBookings
      BY <1>8, <2>2, ReleaseSameBookings DEF Close, CloseUnpaid
    <3>2. pays[k] \in [PayStatus -> Nat]
      BY <2>1 DEF OrdersTyped
    <3>3. /\ pays'[k]["REQUESTED"] = 0 /\ pays'[k]["APPROVED"] = pays[k]["APPROVED"]
          /\ \A j \in Orders \ {k} : pays'[j] = pays[j]
      <4>1. pays' = [pays EXCEPT ![k] = FailRequested(pays[k])]
        BY <1>8, <2>2 DEF Close, CloseUnpaid
      <4>. QED BY <2>1, <3>2, <4>1, FailRequestedType DEF OrdersTyped
    <3>4. /\ \E x \in {"FAILED", "CANCELED"} : status' = [status EXCEPT ![k] = x]
          /\ UNCHANGED <<item, seatIds, snapshot, outbox>>
      BY <1>8, <2>2 DEF Close, CloseUnpaid
    <3>. QED BY <2>1, <2>2, <3>1, <3>3, <3>4, EndUnpaidSale
  <2>3. CASE status[k] # "PENDING"
    BY <1>8, <2>3, SaleUnchanged
    DEF Close, CloseUnpaid, SameBookings, seatVars, orderVars
  <2>. QED BY <2>2, <2>3
<1>9. ASSUME NEW p \in Procs, RecordRefunded(p)
      PROVE  SalesOK'
  <2>. DEFINE k == job[p]
  <2>1. k \in Orders
    BY <1>9 DEF RecordRefunded, PutOnRecord, ProcsTyped
  <2>2. SameBookings
    BY <1>9, ReleaseSameBookings DEF RecordRefunded, PutOnRecord
  <2>3. /\ pays'[k]["REQUESTED"] = 0 /\ pays'[k]["APPROVED"] = pays[k]["APPROVED"]
        /\ \A j \in Orders \ {k} : pays'[j] = pays[j]
    <3>. DEFINE r == AddRow(pays[k], "REFUNDED")
    <3>1. pays[k] \in [PayStatus -> Nat]
      BY <2>1 DEF OrdersTyped
    <3>2. r \in [PayStatus -> Nat] /\ r["APPROVED"] = pays[k]["APPROVED"]
      BY <3>1, AddRowType, AddRowAttempts DEF PayStatus
    <3>3. pays' = [pays EXCEPT ![k] = FailRequested(r)]
      BY <1>9 DEF RecordRefunded, PutOnRecord
    <3>. HIDE DEF r
    <3>4. FailRequested(r)["REQUESTED"] = 0 /\ FailRequested(r)["APPROVED"] = r["APPROVED"]
      BY <3>2, FailRequestedType
    <3>. QED BY <2>1, <3>2, <3>3, <3>4 DEF OrdersTyped
  <2>4. UNCHANGED <<item, seatIds, snapshot, outbox>>
    BY <1>9 DEF RecordRefunded, PutOnRecord
  <2>5. CASE status[k] = "PENDING"
    <3>1. status' = [status EXCEPT ![k] = "FAILED"]
      BY <1>9, <2>5 DEF RecordRefunded, PutOnRecord
    <3>. QED BY <2>1, <2>2, <2>3, <2>4, <2>5, <3>1, EndUnpaidSale
  <2>6. CASE status[k] # "PENDING"
    <3>1. status' = status
      BY <1>9, <2>6 DEF RecordRefunded, PutOnRecord, OrdersTyped
    <3>. QED BY <2>1, <2>2, <2>3, <2>4, <3>1, EndUnpaidSale
  <2>. QED BY <2>5, <2>6
<1>10. ASSUME NEW p \in Procs, RecordFailed(p) \/ CancelFailed(p)
       PROVE  SalesOK'
  <2>. DEFINE k == job[p]
              r == AddRow(pays[k], "FAILED")
  <2>1. k \in Orders
    BY <1>10 DEF RecordFailed, CancelFailed, ProcsTyped
  <2>2. /\ r \in [PayStatus -> Nat] /\ r["APPROVED"] = pays[k]["APPROVED"]
        /\ r["REQUESTED"] = pays[k]["REQUESTED"]
    BY <2>1, AddRowType, AddRowAttempts DEF PayStatus, OrdersTyped
  <2>3. \/ pays' = [pays EXCEPT ![k] = FailRequested(r)]
        \/ pays' = [pays EXCEPT ![k] = r]
    BY <1>10 DEF RecordFailed, CancelFailed
  <2>4. UNCHANGED <<seat, item, status, seatIds, snapshot, outbox>>
    BY <1>10 DEF RecordFailed, CancelFailed, seatVars, orderVars
  <2>. HIDE DEF r
  <2>5. FailRequested(r)["REQUESTED"] = 0 /\ FailRequested(r)["APPROVED"] = r["APPROVED"]
    BY <2>2, FailRequestedType
  <2>6. /\ pays'[k]["APPROVED"] = pays[k]["APPROVED"]
        /\ pays'[k]["REQUESTED"] \in {0, pays[k]["REQUESTED"]}
        /\ \A j \in Orders \ {k} : pays'[j] = pays[j]
    BY <2>1, <2>2, <2>3, <2>5 DEF OrdersTyped
  <2>7. SameBookings
    BY <2>4 DEF SameBookings
  <2>. QED BY <2>1, <2>4, <2>6, <2>7, EndUnpaidSale
<1>11. ASSUME NEW p \in Procs, CancelCommit(p)
       PROVE  SalesOK'
  <2>1. job[p] \in Orders
    BY <1>11 DEF CancelCommit, ProcsTyped
  <2>2. CASE status[job[p]] = "PAID"
    BY <1>11, <2>1, <2>2, CancelSale DEF CancelCommit
  <2>3. CASE status[job[p]] # "PAID"
    BY <1>11, <2>3, SaleUnchanged DEF CancelCommit, SameBookings, seatVars, orderVars
  <2>. QED BY <2>2, <2>3
<1>12. CASE UNCHANGED vars
  BY <1>12, SaleUnchanged DEF vars, SameBookings
<1>13. ASSUME NEW p \in Procs,
              \/ Approve(p) \/ Confirm(p) \/ Refund(p) \/ CancelRefund(p)
              \/ Scan(p) \/ Inquire(p) \/ Crash(p)
       PROVE  SalesOK'
  <2>1. UNCHANGED <<seatVars, item, unheld, orderVars, pays, outbox>>
    BY <1>13 DEF Approve, Confirm, Refund, CancelRefund, Scan, Inquire, Conclusive, Inconclusive, Crash
  <2>. QED BY <2>1, SaleUnchanged DEF SameBookings, seatVars, orderVars
<1>. QED
  BY <1>1, <1>2, <1>3, <1>4, <1>5, <1>6, <1>7, <1>8, <1>9, <1>10, <1>11, <1>12,
     <1>13 DEF Next, Work

\* The locks stay right when nobody takes one, and no order that is locked on changes
\* its status.
LEMMA LockKept ==
  ASSUME RowLocked,
         \A q \in Procs : pc'[q] = "book" =>
           pc[q] = "book" /\ job'[q] = job[q] /\ status'[job[q]] = status[job[q]]
  PROVE  RowLocked'
BY DEF RowLocked

\* They stay right when confirm_paid() takes a free one of a PENDING order.
LEMMA LockTaken ==
  ASSUME TypeOK, RowLocked, NEW p \in Procs, NEW k \in Orders,
         RowFree(k), status[k] = "PENDING", UNCHANGED status,
         pc' = [pc EXCEPT ![p] = "book"], job' = [job EXCEPT ![p] = k]
  PROVE  RowLocked'
BY DEF RowLocked, RowFree, TypeOK, ProcsTyped

\* A call that ends holds no lock any more.
LEMMA FinishUnlocks ==
  ASSUME TypeOK, NEW p \in Procs, Finish(p)
  PROVE  /\ pc'[p] # "book"
         /\ \A q \in Procs \ {p} : pc'[q] = pc[q] /\ job'[q] = job[q]
BY DEF Finish, TypeOK, ProcsTyped

\* Every step keeps the locks right: whatever changes an order waits for its row.
LEMMA LockStep == TypeOK /\ SaleInv /\ [Next]_vars => RowLocked'
<1> SUFFICES ASSUME TypeOK, RowLocked, [Next]_vars
             PROVE  RowLocked'
  BY DEF SaleInv
<1>1. ASSUME UNCHANGED <<status, procVars>> \/ UNCHANGED vars
      PROVE  RowLocked'
  BY <1>1, LockKept DEF procVars, vars
<1>2. ASSUME NEW p \in Procs, NEW k \in Orders, NEW u \in Users,
             NEW S \in SUBSET Seats, PlaceOpen(p, k, u, S)
      PROVE  RowLocked'
  <2>1. \A q \in Procs : pc'[q] = "book" => pc[q] = "book" /\ job'[q] = job[q]
    BY <1>2 DEF PlaceOpen, TypeOK, ProcsTyped
  <2>2. \A q \in Procs : pc[q] = "book" => job[q] # k
    BY <1>2 DEF PlaceOpen, RowLocked
  <2>3. \A j \in Orders \ {k} : status'[j] = status[j]
    BY <1>2 DEF PlaceOpen, TypeOK, OrdersTyped
  <2>4. \A q \in Procs : pc[q] = "book" => job[q] \in Orders
    BY DEF TypeOK, ProcsTyped
  <2>. QED BY <2>1, <2>2, <2>3, <2>4, LockKept
<1>3. ASSUME NEW p \in Procs, NEW k \in Orders, Webhook(p, k)
      PROVE  RowLocked'
  BY <1>3, LockTaken DEF Webhook, orderVars
<1>4. ASSUME NEW p \in Procs, Confirm(p)
      PROVE  RowLocked'
  <2>1. job[p] \in Orders /\ UNCHANGED status
    BY <1>4 DEF Confirm, TypeOK, ProcsTyped, orderVars
  <2>2. CASE status[job[p]] = "PENDING" /\ Goto(p, "book")
    <3>1. job' = [job EXCEPT ![p] = job[p]]
      BY <2>2 DEF Goto, TypeOK, ProcsTyped
    <3>. QED BY <1>4, <2>1, <2>2, <3>1, LockTaken DEF Confirm, Goto
  <2>3. CASE Finish(p)
    BY <2>1, <2>3, FinishUnlocks, LockKept
  <2>4. CASE Goto(p, "refund")
    <3>1. \A q \in Procs : pc'[q] = "book" => pc[q] = "book" /\ job'[q] = job[q]
      BY <2>4 DEF Goto, TypeOK, ProcsTyped
    <3>. QED BY <2>1, <3>1, LockKept
  <2>. QED BY <1>4, <2>2, <2>3, <2>4 DEF Confirm
<1>5. ASSUME NEW p \in Procs, BookSeats(p)
      PROVE  RowLocked'
  <2>1. \A q \in Procs : pc'[q] = "book" => pc[q] = "book" /\ job'[q] = job[q] /\ q # p
    BY <1>5, FinishUnlocks DEF BookSeats, HoldExpired, Goto, TypeOK, ProcsTyped
  <2>2. \A q \in Procs : pc[q] = "book" /\ q # p => job[q] # job[p] /\ job[q] \in Orders
    BY <1>5 DEF BookSeats, RowLocked, TypeOK, ProcsTyped
  <2>3. \A j \in Orders \ {job[p]} : status'[j] = status[j]
    BY <1>5 DEF BookSeats, ConfirmCommit, TypeOK, OrdersTyped, orderVars
  <2>. QED BY <2>1, <2>2, <2>3, LockKept
<1>6. ASSUME NEW p \in Procs, Close(p) \/ RecordRefunded(p) \/ CancelCommit(p)
      PROVE  RowLocked'
  <2>1. \A q \in Procs : pc'[q] = "book" => pc[q] = "book" /\ job'[q] = job[q]
    BY <1>6, FinishUnlocks DEF Close, RecordRefunded, PutOnRecord, CancelCommit
  <2>2. \/ UNCHANGED status
        \/ \A q \in Procs : pc[q] = "book" => job[q] # job[p] /\ job[q] \in Orders
    BY <1>6
    DEF Close, CloseUnpaid, RecordRefunded, PutOnRecord, CancelCommit, RowFree, RowLocked,
        TypeOK, ProcsTyped, orderVars
  <2>3. \A j \in Orders \ {job[p]} : status'[j] = status[j]
    BY <1>6
    DEF Close, CloseUnpaid, RecordRefunded, PutOnRecord, CancelCommit, TypeOK, OrdersTyped,
        orderVars
  <2>. QED BY <2>1, <2>2, <2>3, LockKept
<1>7. ASSUME NEW p \in Procs, Refund(p) \/ CancelRefund(p) \/ Approve(p)
      PROVE  RowLocked'
  <2>1. \A q \in Procs : pc'[q] = "book" => pc[q] = "book" /\ job'[q] = job[q]
    BY <1>7, FinishUnlocks
    DEF Refund, CancelRefund, PgRefund, Approve, Goto, TypeOK, ProcsTyped
  <2>2. UNCHANGED status
    BY <1>7 DEF Refund, CancelRefund, Approve, orderVars
  <2>. QED BY <2>1, <2>2, LockKept
<1>8. ASSUME NEW p \in Procs,
             \/ RecordFailed(p) \/ CancelFailed(p) \/ Scan(p) \/ Inquire(p) \/ Crash(p)
             \/ \E k \in Orders : CancelStart(p, k)
      PROVE  RowLocked'
  <2>1. \A q \in Procs : pc'[q] = "book" => pc[q] = "book" /\ job'[q] = job[q]
    BY <1>8, FinishUnlocks
    DEF RecordFailed, CancelFailed, Scan, Inquire, Conclusive, Inconclusive, Crash,
        CancelStart, TypeOK, ProcsTyped
  <2>2. UNCHANGED status
    BY <1>8
    DEF RecordFailed, CancelFailed, Scan, Inquire, Crash, CancelStart, orderVars
  <2>. QED BY <2>1, <2>2, LockKept
<1>9. CASE Sweep \/ Tick \/ \E u \in Users, S \in SUBSET Seats : Hold(u, S) \/ Release(u, S)
  BY <1>1, <1>9 DEF Sweep, SweepFrom, Tick, Hold, Release, orderVars
<1>. QED BY <1>1, <1>2, <1>3, <1>4, <1>5, <1>6, <1>7, <1>8, <1>9 DEF Next, Work

\* With no order and no sold seat SaleInv holds.
LEMMA SaleInit == Init => SaleInv
BY DEF Init, SaleInv, SalesOK, RowLocked, SeatsFollowOrders, RecordsFollowStatus,
       RecordsMatch, ItemsFollowOrders, AttemptsFollowOrders, EverPaid, PayStatus, Resolved

\* SaleInv holds in every reachable state, for any number of seats, users,
\* orders, handlers and workers.
THEOREM SaleInvariant == Spec => [](TypeOK /\ SaleInv)
<1>1. Init => TypeOK /\ SaleInv
  BY TypeInit, SaleInit
<1>2. (TypeOK /\ SaleInv) /\ [Next]_vars => (TypeOK /\ SaleInv)'
  BY TypeStep, SaleStep, LockStep DEF SaleInv
<1>. QED BY <1>1, <1>2, PTL DEF Spec

\* A seat is BOOKED exactly while the order of its row is PAID, and a PAID order
\* has every seat it asked for: restore_order_seats and confirm_paid() agree.
THEOREM SeatsFollow == Spec => []SeatsFollowOrders
<1>1. TypeOK /\ SaleInv => SeatsFollowOrders
  BY DEF SaleInv, SalesOK
<1>. QED BY <1>1, SaleInvariant, PTL

\* What confirm_paid() and cancel() write in one transaction is never seen in
\* part: items, payment, stored answer and outbox follow the order's status.
THEOREM RecordsFollow == Spec => []RecordsFollowStatus
<1>1. TypeOK /\ SaleInv => RecordsFollowStatus
  BY DEF SaleInv, SalesOK
<1>. QED BY <1>1, SaleInvariant, PTL

\* No two paid orders ever share a seat, however holds expire, are retaken and
\* are confirmed late.
THEOREM NoSeatSoldTwice == Spec => []NoDoubleSale
<1>1. TypeOK /\ SaleInv => NoDoubleSale
  BY DEF SaleInv, SalesOK, SeatsFollowOrders, NoDoubleSale, TypeOK, OrdersTyped
<1>. QED BY <1>1, SaleInvariant, PTL
=============================================================================
