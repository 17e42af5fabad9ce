------------------------- MODULE OrderSagaRefinement -------------------------
(***************************************************************************)
(* The saga implements the ticket office and the seat book: TicketOffice   *)
(* and SeatBook under the mappings of OrderSagaProps.                      *)
(*                                                                         *)
(* Most steps leave the three variables of the office alone; the three     *)
(* transactions that end a stage of an order are its three actions.  In    *)
(* the book every transaction on the seats is an action.                   *)
(***************************************************************************)
EXTENDS OrderSagaProofs

-----------------------------------------------------------------------------
(* The ticket office.                                                      *)

\* The mapped variables owner and outcome (told is outbox itself).
SoldTo == [s \in Seats |-> IF seat[s] = "BOOKED" THEN item[s] ELSE NoOrder]
Outcomes == [k \in Orders |-> Outcome(k)]

\* A step that books nothing, gives nothing back, announces nothing and leaves
\* every outcome as it was is invisible in the office.
LEMMA OfficeStutter ==
  ASSUME SameBookings, UNCHANGED <<item, outbox>>,
         \A k \in Orders : Outcome(k)' = Outcome(k)
  PROVE  UNCHANGED Office!vars
<1>1. UNCHANGED SoldTo
  BY DEF SoldTo, SameBookings
<1>2. UNCHANGED Outcomes
  BY DEF Outcomes
<1>. QED BY <1>1, <1>2 DEF Office!vars, SoldTo, Outcomes

\* The same for a step that does not write orders.status or the stored answer.
LEMMA UnseenStep ==
  ASSUME SameBookings, UNCHANGED <<item, outbox, status, snapshot>>
  PROVE  UNCHANGED Office!vars
<1>1. \A k \in Orders : Outcome(k)' = Outcome(k)
  BY DEF Outcome, EverPaid
<1>. QED BY <1>1, OfficeStutter

\* The transaction of confirm_paid() sells the order's seats.
LEMMA ConfirmCommitSells ==
  ASSUME TypeOK, SaleInv, NEW k \in Orders, status[k] = "PENDING", ConfirmCommit(k),
         NEW S, S = seatIds[k]
  PROVE  Office!Sell(k, S)
<1>. USE DEF TypeOK
<1>1. /\ Outcomes[k] = "open" /\ Outcomes' = [Outcomes EXCEPT ![k] = "sold"]
  <2>1. Outcome(k) = "open" /\ Outcome(k)' = "sold"
    BY DEF ConfirmCommit, OrdersTyped, Outcome
  <2>2. \A j \in Orders \ {k} : Outcome(j)' = Outcome(j)
    BY DEF ConfirmCommit, OrdersTyped, Outcome, EverPaid
  <2>. QED BY <2>1, <2>2 DEF Outcomes
<1>2. /\ S # {} /\ S \subseteq Seats
      /\ \A s \in S : SoldTo[s] = NoOrder
  BY DEF ConfirmCommit, Bookable, OrdersTyped, SoldTo, SaleInv, SalesOK, AttemptsFollowOrders
<1>3. SoldTo' = [s \in Seats |-> IF s \in S THEN k ELSE SoldTo[s]]
  BY <1>2 DEF SoldTo, ConfirmCommit, EndHold, SetOn, SeatsTyped, OrdersTyped
<1>4. outbox' = [outbox EXCEPT ![k] = Append(@, "order.paid")]
  BY DEF ConfirmCommit
<1>. QED BY <1>1, <1>2, <1>3, <1>4
         DEF Office!Sell, Office!Give, Office!Tell, SoldTo, Outcomes

\* Closing a PENDING order as FAILED or CANCELED refuses it: an order that was
\* never confirmed has no stored answer.
LEMMA EndUnpaidRefuses ==
  ASSUME TypeOK, SaleInv, NEW k \in Orders, NEW x \in {"FAILED", "CANCELED"},
         status[k] = "PENDING", status' = [status EXCEPT ![k] = x],
         SameBookings, UNCHANGED <<item, snapshot, outbox>>
  PROVE  Office!Refuse(k)
<1>. USE DEF TypeOK
<1>1. snapshot[k] = {} /\ snapshot' = snapshot
  BY DEF SaleInv, SalesOK, RecordsFollowStatus, RecordsMatch, EverPaid
<1>2. Outcomes[k] = "open" /\ Outcomes' = [Outcomes EXCEPT ![k] = "refused"]
  <2>1. Outcome(k) = "open" /\ Outcome(k)' = "refused"
    BY <1>1 DEF OrdersTyped, Outcome, EverPaid
  <2>2. \A j \in Orders \ {k} : Outcome(j)' = Outcome(j)
    BY DEF OrdersTyped, Outcome, EverPaid
  <2>. QED BY <2>1, <2>2 DEF Outcomes
<1>3. UNCHANGED SoldTo
  BY DEF SoldTo, SameBookings
<1>. QED BY <1>2, <1>3 DEF Office!Refuse, SoldTo, Outcomes

\* The last transaction of cancel() takes back all the seats of the order.
LEMMA CancelTakesBack ==
  ASSUME TypeOK, SaleInv, NEW k \in Orders, status[k] = "PAID",
         status' = [status EXCEPT ![k] = "CANCELED"], Restore(k),
         outbox' = [outbox EXCEPT ![k] = Append(@, "order.canceled")],
         UNCHANGED snapshot
  PROVE  Office!TakeBack(k)
<1>. USE DEF TypeOK
<1>1. snapshot[k] # {} /\ snapshot' = snapshot
  BY DEF SaleInv, SalesOK, RecordsFollowStatus, RecordsMatch, EverPaid, AttemptsFollowOrders
<1>2. Outcomes[k] = "sold" /\ Outcomes' = [Outcomes EXCEPT ![k] = "returned"]
  <2>1. Outcome(k) = "sold" /\ Outcome(k)' = "returned"
    BY <1>1 DEF OrdersTyped, Outcome, EverPaid
  <2>2. \A j \in Orders \ {k} : Outcome(j)' = Outcome(j)
    BY DEF OrdersTyped, Outcome, EverPaid
  <2>. QED BY <2>1, <2>2 DEF Outcomes
<1>3. SoldTo' = [s \in Seats |-> IF s \in {t \in Seats : SoldTo[t] = k}
                                  THEN NoOrder ELSE SoldTo[s]]
  BY SentinelsOK DEF SoldTo, Restore, SetOn, SeatsTyped, OrdersTyped
<1>. QED BY <1>2, <1>3
         DEF Office!TakeBack, Office!Give, Office!Tell, SoldTo, Outcomes

\* Each step of the saga is a step of the office or invisible in it.
LEMMA OfficeStep == TypeOK /\ SaleInv /\ [Next]_vars => [Office!Next]_Office!vars
<1> SUFFICES ASSUME TypeOK, SaleInv, [Next]_vars
             PROVE  Office!Next \/ UNCHANGED Office!vars
  OBVIOUS
<1>. USE DEF TypeOK
<1>1. ASSUME NEW u \in Users, NEW S \in SUBSET Seats, Hold(u, S)
      PROVE  UNCHANGED Office!vars
  <2>1. SameBookings
    BY <1>1 DEF Hold, SetHold, SetOn, Claimable, ExpiredSeats, SeatsTyped, SameBookings
  <2>. QED BY <1>1, <2>1, UnseenStep DEF Hold, orderVars
<1>2. ASSUME NEW u \in Users, NEW S \in SUBSET Seats, Release(u, S)
      PROVE  UNCHANGED Office!vars
  <2>1. SameBookings
    BY <1>2, ReleaseSameBookings DEF Release
  <2>. QED BY <1>2, <2>1, UnseenStep DEF Release, orderVars
<1>3. CASE Sweep
  <2>1. PICK S \in Oldest(ExpiredSeats, SweepBatch, left) : EndHold(S, "AVAILABLE")
    BY <1>3 DEF Sweep, SweepFrom
  <2>2. S \subseteq ExpiredSeats
    BY <2>1, OldestSubset
  <2>3. SameBookings
    BY <2>1, <2>2 DEF ExpiredSeats, EndHold, SetOn, SeatsTyped, SameBookings
  <2>. QED BY <1>3, <2>3, UnseenStep DEF Sweep, SweepFrom, orderVars
<1>4. CASE Tick
  BY <1>4, UnseenStep DEF Tick, SameBookings
<1>5. ASSUME NEW p \in Procs, NEW k \in Orders, NEW u \in Users,
             NEW S \in SUBSET Seats, PlaceOpen(p, k, u, S)
      PROVE  UNCHANGED Office!vars
  <2>1. SameBookings /\ UNCHANGED <<item, outbox>>
    BY <1>5 DEF PlaceOpen, SameBookings, seatVars
  <2>2. \A j \in Orders : Outcome(j)' = Outcome(j)
    BY <1>5 DEF PlaceOpen, Outcome, EverPaid, OrdersTyped
  <2>. QED BY <2>1, <2>2, OfficeStutter
<1>6. ASSUME NEW k \in Orders, status[k] = "PENDING", ConfirmCommit(k)
      PROVE  Office!Next
  <2>1. PICK S \in SUBSET Seats : S = seatIds[k]
    BY DEF OrdersTyped
  <2>2. Office!Sell(k, S)
    BY <1>6, <2>1, ConfirmCommitSells
  <2>. QED BY <2>2 DEF Office!Next
<1>7. ASSUME NEW p \in Procs, BookSeats(p)
      PROVE  Office!Next \/ UNCHANGED Office!vars
  <2>1. job[p] \in Orders /\ status[job[p]] = "PENDING"
    BY <1>7 DEF BookSeats, ProcsTyped, SaleInv, RowLocked
  <2>2. CASE ConfirmCommit(job[p])
    BY <2>1, <2>2, <1>6
  <2>3. CASE UNCHANGED <<seatVars, item, unheld, orderVars, pays, outbox>>
    BY <2>3, UnseenStep DEF SameBookings, seatVars, orderVars
  <2>. QED BY <1>7, <2>2, <2>3 DEF BookSeats
<1>8. ASSUME NEW p \in Procs, Close(p) \/ RecordRefunded(p)
      PROVE  Office!Next \/ UNCHANGED Office!vars
  <2>1. PICK k \in Orders : k = job[p]
    BY <1>8 DEF Close, RecordRefunded, PutOnRecord, ProcsTyped
  <2>2. CASE status[k] = "PENDING"
    <3>1. SameBookings
      BY <1>8, <2>1, <2>2, ReleaseSameBookings DEF Close, CloseUnpaid, RecordRefunded, PutOnRecord
    <3>2. PICK x \in {"FAILED", "CANCELED"} : status' = [status EXCEPT ![k] = x]
      BY <1>8, <2>1, <2>2 DEF Close, CloseUnpaid, RecordRefunded, PutOnRecord
    <3>3. UNCHANGED <<item, snapshot, outbox>>
      BY <1>8, <2>1, <2>2 DEF Close, CloseUnpaid, RecordRefunded, PutOnRecord
    <3>4. Office!Refuse(k)
      BY <2>1, <2>2, <3>1, <3>2, <3>3, EndUnpaidRefuses
    <3>. QED BY <2>1, <3>4 DEF Office!Next
  <2>3. CASE status[k] # "PENDING"
    <3>1. SameBookings
      BY <1>8, <2>1, <2>3, ReleaseSameBookings
      DEF Close, CloseUnpaid, RecordRefunded, PutOnRecord, SameBookings, seatVars
    <3>2. UNCHANGED <<item, outbox, status, snapshot>>
      BY <1>8, <2>1, <2>3
      DEF Close, CloseUnpaid, RecordRefunded, PutOnRecord, orderVars, OrdersTyped
    <3>. QED BY <3>1, <3>2, UnseenStep
  <2>. QED BY <2>2, <2>3
<1>9. ASSUME NEW p \in Procs, CancelCommit(p)
      PROVE  Office!Next \/ UNCHANGED Office!vars
  <2>1. PICK k \in Orders : k = job[p]
    BY <1>9 DEF CancelCommit, ProcsTyped
  <2>2. CASE status[k] = "PAID"
    <3>1. Office!TakeBack(k)
      BY <1>9, <2>1, <2>2, CancelTakesBack DEF CancelCommit
    <3>. QED BY <2>1, <3>1 DEF Office!Next
  <2>3. CASE status[k] # "PAID"
    BY <1>9, <2>1, <2>3, UnseenStep DEF CancelCommit, SameBookings, seatVars, orderVars
  <2>. QED BY <2>2, <2>3
<1>10. ASSUME NEW p \in Procs, NEW k \in Orders, CancelStart(p, k) \/ Webhook(p, k)
       PROVE  UNCHANGED Office!vars
  BY <1>10, UnseenStep DEF CancelStart, Webhook, SameBookings, seatVars, orderVars
<1>11. ASSUME NEW p \in Procs,
              \/ Approve(p) \/ Confirm(p) \/ Refund(p) \/ CancelRefund(p) \/ Scan(p)
              \/ Inquire(p) \/ Crash(p) \/ RecordFailed(p) \/ CancelFailed(p)
       PROVE  UNCHANGED Office!vars
  <2>1. UNCHANGED <<seat, item, status, snapshot, outbox>>
    BY <1>11 DEF Approve, Confirm, Refund, CancelRefund, Scan, Inquire, Conclusive,
                 Inconclusive, Crash, RecordFailed, CancelFailed, seatVars, orderVars
  <2>. QED BY <2>1, UnseenStep DEF SameBookings
<1>12. CASE UNCHANGED vars
  BY <1>12, UnseenStep DEF vars, SameBookings
<1>. QED
  BY <1>1, <1>2, <1>3, <1>4, <1>5, <1>6, <1>7, <1>8, <1>9, <1>10, <1>11, <1>12
     DEF Next, Work

\* No order exists at the start: every outcome is open and no seat is sold.
LEMMA OfficeInit == Init => Office!Init
BY DEF Init, Office!Init, Outcome

\* The saga implements the ticket office: whatever place(), reconcile(),
\* cancel(), the sweep and the PG do, customers see whole sales, whole returns
\* and refusals, each announced once.
THEOREM SagaImplementsOffice == Spec => ImplementsTicketOffice
<1>1. (TypeOK /\ SaleInv) /\ [Next]_vars => [Office!Next]_Office!vars
  BY OfficeStep
<1>. QED BY <1>1, OfficeInit, SaleInvariant, PTL
         DEF Spec, ImplementsTicketOffice, Office!Spec

-----------------------------------------------------------------------------
(* The seat book.                                                          *)

\* A step that leaves seats, items and orders alone is invisible in the book.
LEMMA BookStutter ==
  ASSUME UNCHANGED <<seatVars, item, unheld, status, buyer, seatIds>>
  PROVE  UNCHANGED Book!vars
BY DEF seatVars, Book!vars

\* Columns set on S change as they do in the book.
LEMMA SetOnIs ==
  ASSUME NEW f, DOMAIN f = Seats, NEW S, NEW v
  PROVE  SetOn(f, S, v) = Book!Change(f, S, v)
BY DEF SetOn, Book!Change

\* Ending holds frees the seats in the book.
LEMMA EndHoldIs ==
  ASSUME SeatsTyped, NEW S, EndHold(S, "AVAILABLE")
  PROVE  Book!Free(S)
BY SetOnIs DEF SeatsTyped, EndHold, Book!Free

\* The instance of the book counts as everybody does.
LEMMA BookCardinality ==
  ASSUME NEW S
  PROVE  Book!Cardinality(S) = Cardinality(S)
BY DEF Cardinality, Book!Cardinality, IsFiniteSet, Book!IsFiniteSet

\* What the book counts of a user's seats, acquire() counts too.
LEMMA OwnedCounted ==
  ASSUME NEW u
  PROVE  Cardinality(Book!Counted(u)) \in Nat /\ Cardinality(Owned(u)) \in Nat
         /\ Cardinality(Book!Counted(u)) <= Cardinality(Owned(u))
<1>1. Book!Counted(u) \subseteq Owned(u)
  BY DEF Book!Counted, Book!Valid, Book!Held, Book!Paid, Owned, ValidHold
<1>2. IsFiniteSet(Owned(u))
  BY SetsFinite, FS_Subset DEF Owned
<1>. QED BY <1>1, <1>2, FS_Subset, FS_CardinalityType

\* acquire() is a hold of the book.
LEMMA HoldInBook ==
  ASSUME TypeOK, NEW u \in Users, NEW S \in SUBSET Seats, Hold(u, S)
  PROVE  Book!Next
<1>1. \A s \in S : Book!Claimable(s)
  BY DEF Hold, Claimable, ExpiredSeats, Book!Claimable, Book!Expired
<1>2. Book!Cardinality(Book!Counted(u)) + Book!Cardinality(S) <= MaxSeats
  <2>1. Cardinality(S) \in Nat
    BY SetsFinite, FS_Subset, FS_CardinalityType
  <2>2. Cardinality(Owned(u)) + Cardinality(S) <= MaxSeats
    BY DEF Hold
  <2>3. Cardinality(Book!Counted(u)) + Cardinality(S) <= MaxSeats
    BY <2>1, <2>2, OwnedCounted, BoundsOK
  <2>. QED BY <2>3, BookCardinality
<1>3. /\ seat' = Book!Change(seat, S, "HELD")
      /\ heldBy' = Book!Change(heldBy, S, u)
      /\ left' = Book!Change(left, S, HoldTTL)
  BY SetOnIs DEF Hold, SetHold, TypeOK, SeatsTyped
<1>4. \E late \in 0..0 : left' = Book!Change(left, S, HoldTTL - late)
  <2>1. HoldTTL - 0 = HoldTTL
    BY TimesOK
  <2>2. left' = Book!Change(left, S, HoldTTL - 0)
    BY <1>3, <2>1
  <2> QED  BY <2>2
<1>5. UNCHANGED <<item, status, buyer, seatIds, unheld>>
  BY DEF Hold, orderVars
<1>6. Book!Hold(u, S)
  BY <1>1, <1>2, <1>3, <1>4, <1>5, Zenon DEF Book!Hold
<1>. QED BY <1>1, <1>6 DEF Book!Next

\* Whoever releases holds, of an order that ended or on their own, gives them up.
LEMMA ReleaseInBook ==
  ASSUME TypeOK, NEW u \in Users \union {NoUser}, NEW S \in SUBSET Seats,
         EndHold(Releasable(u, S), "AVAILABLE"),
         UNCHANGED <<item, unheld, status, buyer, seatIds>>
  PROVE  Book!Next
<1>1. PICK T \in SUBSET Seats : T = Releasable(u, S)
  BY DEF Releasable
<1>2. Book!Free(T) /\ \A s \in T : Book!Held(s, u)
  BY <1>1, EndHoldIs DEF TypeOK, Releasable, Book!Held
<1>3. CASE T = {}
  <2>1. Book!Sweep(T)
    BY <1>2, <1>3 DEF Book!Sweep
  <2>. QED BY <1>3, <2>1 DEF Book!Next
<1>4. CASE T # {}
  <2>1. u \in Users
    BY <1>2, <1>4, SentinelsOK DEF TypeOK, SeatsTyped, Book!Held
  <2>2. Book!GiveUp(u, T)
    BY <1>2 DEF Book!GiveUp
  <2>. QED BY <1>2, <2>1, <2>2 DEF Book!Next
<1>. QED BY <1>3, <1>4

\* A confirmation books held seats and remembers those its buyer held no longer.
LEMMA ConfirmInBook ==
  ASSUME TypeOK, NEW k \in Orders, status[k] = "PENDING", ConfirmCommit(k)
  PROVE  Book!Next
<1>1. PICK S \in SUBSET Seats : S = seatIds[k]
  BY DEF TypeOK, OrdersTyped
<1>2. \A s \in S : seat[s] = "HELD" /\ item[s] = NoOrder
  BY <1>1 DEF ConfirmCommit, Bookable
<1>3. /\ seat' = Book!Change(seat, S, "BOOKED")
      /\ heldBy' = Book!Change(heldBy, S, NoUser)
      /\ left' = Book!Change(left, S, 0)
      /\ item' = Book!Change(item, S, k)
  BY <1>1, SetOnIs DEF ConfirmCommit, EndHold, TypeOK, SeatsTyped, OrdersTyped
<1>4. /\ status[k] = "PENDING" /\ status' = [status EXCEPT ![k] = "PAID"]
      /\ UNCHANGED <<buyer, seatIds>>
  BY DEF ConfirmCommit
<1>5. unheld' = unheld \union {s \in S : ~Book!Valid(s, buyer[k])}
  BY <1>1 DEF ConfirmCommit, ValidHold, Book!Valid, Book!Held
<1>6. Book!Confirm(k)
  BY <1>1, <1>2, <1>3, <1>4, <1>5 DEF Book!Confirm
<1>. QED BY <1>6 DEF Book!Next

\* Each step of the saga is a step of the book or invisible in it.
LEMMA BookStep == TypeOK /\ SaleInv /\ [Next]_vars => [Book!Next]_Book!vars
<1> SUFFICES ASSUME TypeOK, RowLocked, [Next]_vars
             PROVE  Book!Next \/ UNCHANGED Book!vars
  BY DEF SaleInv
<1>. USE DEF TypeOK
<1>1. ASSUME NEW u \in Users, NEW S \in SUBSET Seats, Hold(u, S) \/ Release(u, S)
      PROVE  Book!Next
  BY <1>1, HoldInBook, ReleaseInBook DEF Release, orderVars
<1>2. CASE Sweep
  <2>1. PICK S \in Oldest(ExpiredSeats, SweepBatch, left) : EndHold(S, "AVAILABLE")
    BY <1>2 DEF Sweep, SweepFrom
  <2>2. S \subseteq Seats /\ \A s \in S : Book!Expired(s)
    BY OldestSubset DEF ExpiredSeats, Book!Expired
  <2>3. Book!Sweep(S)
    BY <1>2, <2>1, <2>2, EndHoldIs DEF Sweep, SweepFrom, orderVars, Book!Sweep
  <2>. QED BY <2>2, <2>3 DEF Book!Next
<1>3. CASE Tick
  <2>1. left' = [s \in Seats |-> IF seat[s] = "HELD" /\ left[s] >= -0
                                 THEN left[s] - 1 ELSE left[s]]
    BY <1>3, TimesOK DEF Tick, SeatsTyped
  <2>2. Book!Tick
    BY <1>3, <2>1 DEF Tick, Book!Tick
  <2>. QED BY <2>2 DEF Book!Next
<1>4. ASSUME NEW p \in Procs, NEW k \in Orders, NEW u \in Users,
             NEW S \in SUBSET Seats, PlaceOpen(p, k, u, S)
      PROVE  Book!Next
  <2>1. \A s \in S : Book!Held(s, u) /\ left[s] > MinRemaining
    BY <1>4 DEF PlaceOpen, ValidHold, Book!Held
  <2>2. Book!Open(k, u, S)
    BY <1>4, <2>1 DEF PlaceOpen, seatVars, Book!Open
  <2>. QED BY <2>1, <2>2 DEF Book!Next
<1>6. ASSUME NEW p \in Procs, BookSeats(p)
      PROVE  Book!Next \/ UNCHANGED Book!vars
  <2>1. job[p] \in Orders /\ status[job[p]] = "PENDING"
    BY <1>6 DEF BookSeats, ProcsTyped, RowLocked
  <2>2. CASE ConfirmCommit(job[p])
    BY <2>1, <2>2, ConfirmInBook
  <2>3. CASE UNCHANGED <<seatVars, item, unheld, orderVars, pays, outbox>>
    BY <2>3, BookStutter DEF orderVars
  <2>. QED BY <1>6, <2>2, <2>3 DEF BookSeats
<1>7. ASSUME NEW p \in Procs, Close(p) \/ RecordRefunded(p)
      PROVE  Book!Next \/ UNCHANGED Book!vars
  <2>1. PICK k \in Orders, S \in SUBSET Seats : k = job[p] /\ S = seatIds[k]
    BY <1>7 DEF Close, RecordRefunded, PutOnRecord, ProcsTyped, OrdersTyped
  <2>2. CASE status[k] = "PENDING"
    <3>1. PICK x \in {"FAILED", "CANCELED"} :
            /\ status' = [status EXCEPT ![k] = x]
            /\ EndHold(Releasable(buyer[k], S), "AVAILABLE")
            /\ UNCHANGED <<item, unheld, buyer, seatIds>>
      BY <1>7, <2>1, <2>2 DEF Close, CloseUnpaid, RecordRefunded, PutOnRecord
    <3>2. PICK T \in SUBSET S : T = Releasable(buyer[k], S)
      BY DEF Releasable
    <3>3. Book!Free(T) /\ \A s \in T : Book!Held(s, buyer[k])
      BY <3>1, <3>2, EndHoldIs DEF Releasable, Book!Held
    <3>4. Book!Close(k, x, T)
      BY <2>2, <3>1, <3>3 DEF Book!Close
    <3>. QED BY <2>1, <3>4 DEF Book!Next
  <2>3. CASE status[k] # "PENDING"
    <3>1. CASE Close(p)
      BY <2>1, <2>3, <3>1, BookStutter DEF Close, CloseUnpaid, orderVars
    <3>2. CASE RecordRefunded(p)
      <4>1. /\ EndHold(Releasable(buyer[k], S), "AVAILABLE")
            /\ UNCHANGED <<item, unheld, status, buyer, seatIds>>
        BY <2>1, <2>3, <3>2 DEF RecordRefunded, PutOnRecord, OrdersTyped
      <4>. QED BY <4>1, ReleaseInBook DEF OrdersTyped
    <3>. QED BY <1>7, <3>1, <3>2
  <2>. QED BY <2>2, <2>3
<1>8. ASSUME NEW p \in Procs, CancelCommit(p)
      PROVE  Book!Next \/ UNCHANGED Book!vars
  <2>1. PICK k \in Orders : k = job[p]
    BY <1>8 DEF CancelCommit, ProcsTyped
  <2>2. CASE status[k] = "PAID"
    <3>1. /\ seat' = SetOn(seat, {s \in Seats : item[s] = k /\ seat[s] = "BOOKED"}, "AVAILABLE")
          /\ status' = [status EXCEPT ![k] = "CANCELED"]
          /\ UNCHANGED <<heldBy, left, item, unheld, buyer, seatIds>>
      BY <1>8, <2>1, <2>2 DEF CancelCommit, Restore
    <3>2. Book!Cancel(k)
      BY <2>2, <3>1 DEF SetOn, SeatsTyped, Book!Change, Book!Cancel
    <3>. QED BY <3>2 DEF Book!Next
  <2>3. CASE status[k] # "PAID"
    BY <1>8, <2>1, <2>3, BookStutter DEF CancelCommit, orderVars
  <2>. QED BY <2>2, <2>3
<1>9. ASSUME NEW p \in Procs,
             \/ Approve(p) \/ Confirm(p) \/ Refund(p) \/ CancelRefund(p) \/ Scan(p)
             \/ Inquire(p) \/ Crash(p) \/ RecordFailed(p) \/ CancelFailed(p)
             \/ \E k \in Orders : CancelStart(p, k) \/ Webhook(p, k)
      PROVE  UNCHANGED Book!vars
  BY <1>9, BookStutter
  DEF Approve, Confirm, Refund, CancelRefund, Scan, Inquire, Conclusive, Inconclusive, Crash,
      RecordFailed, CancelFailed, CancelStart, Webhook, orderVars
<1>10. CASE UNCHANGED vars
  BY <1>10, BookStutter DEF vars, seatVars
<1>. QED
  BY <1>1, <1>2, <1>3, <1>4, <1>6, <1>7, <1>8, <1>9, <1>10
     DEF Next, Work

\* Nothing is held or sold at first.
LEMMA BookInit == Init => Book!Init
BY SentinelsOK DEF Init, Book!Init

\* Every transaction of the saga is a step of the seat book, to which SeatRows comes
\* down as well: what the saga takes for one step is what the statements of
\* hold_service.py and order_service.py amount to.
THEOREM SagaImplementsBook == Spec => ImplementsSeatBook
<1>1. (TypeOK /\ SaleInv) /\ [Next]_vars => [Book!Next]_Book!vars
  BY BookStep
<1>. QED BY <1>1, BookInit, SaleInvariant, PTL
         DEF Spec, ImplementsSeatBook, Book!Spec
=============================================================================
