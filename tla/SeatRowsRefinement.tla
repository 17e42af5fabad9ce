------------------------- MODULE SeatRowsRefinement -------------------------
(***************************************************************************)
(* The transactions on the seat rows, statement by statement, implement    *)
(* the seat book: SeatBook under the mapping of SeatRowsProps, which hides *)
(* the transactions.  A commit is the step of the book; everything before  *)
(* it is invisible there.                                                  *)
(***************************************************************************)
EXTENDS SeatRowsProofs

\* The instance of the book counts as everybody does.
LEMMA BookCardinality ==
  ASSUME NEW S
  PROVE  Book!Cardinality(S) = Cardinality(S)
BY DEF Cardinality, Book!Cardinality, IsFiniteSet, Book!IsFiniteSet

\* Until it commits a transaction changes nothing in the book.
LEMMA BookStutter ==
  ASSUME UNCHANGED <<rows, orders>>
  PROVE  UNCHANGED Book!vars
BY DEF rows, orders, Book!vars

\* Write changes the rows of S as the book does.
LEMMA WriteIs ==
  ASSUME RowTypes, NEW S, NEW st, NEW u, NEW l, Write(S, st, u, l)
  PROVE  /\ seat' = Book!Change(seat, S, st)
         /\ heldBy' = Book!Change(heldBy, S, u)
         /\ left' = Book!Change(left, S, l)
<1>1. DOMAIN seat = Seats /\ DOMAIN heldBy = Seats /\ DOMAIN left = Seats
  BY DEF RowTypes
<1> QED  BY <1>1 DEF Write, SetOn, Book!Change

\* The seats that count are the same in both.
LEMMA CountedIs ==
  ASSUME NEW u
  PROVE  Book!Counted(u) = Counted(u)
BY DEF Book!Counted, Book!Valid, Book!Held, Book!Paid, Counted, ValidHold, Bought

\* What acquire() counted when it had the advisory lock, and the rows it found free
\* when it had locked them, are so when it commits.
LEMMA HoldInBook ==
  ASSUME RowsInv, NEW t \in Txs, CommitHold(t)
  PROVE  Book!Next
<1>1. PICK x : x = tx[t]
  OBVIOUS
<1>2. /\ x.kind = "acquire" /\ x.at = "rows" /\ x.fits /\ x.got = x.want
      /\ Write(x.want, "HELD", x.user, HoldTTL - x.lag)
      /\ UNCHANGED <<item, unheld, status, buyer, seatIds>>
  BY <1>1, Zenon DEF CommitHold, Done, orders
<1>3. TxOK(x) /\ AcquireInv(x) /\ \A s \in x.got : Good(x, s)
  BY <1>1, <1>2 DEF RowsInv, TxTypes, TxInv
<1>4. x.user \in Users /\ x.want \subseteq Seats /\ x.lag \in 0..MaxLag
  BY <1>3 DEF TxOK, AcquireInv
<1>5. \A s \in x.want : Book!Claimable(s)
  BY <1>2, <1>3, <1>4, LimitsOK DEF Good, Book!Claimable, Book!Expired, RowsInv, RowTypes
<1>6. Book!Cardinality(Book!Counted(x.user)) + Book!Cardinality(x.want) <= MaxSeats
  <2>1. x.at = "rows" /\ x.fits =>
          Cardinality(Counted(x.user)) + Cardinality(x.want) <= MaxSeats
    BY <1>3 DEF AcquireInv
  <2>2. Cardinality(Counted(x.user)) + Cardinality(x.want) <= MaxSeats
    BY <1>2, <2>1, Zenon
  <2> QED  BY <2>2, CountedIs, BookCardinality
<1>7. /\ seat' = Book!Change(seat, x.want, "HELD")
      /\ heldBy' = Book!Change(heldBy, x.want, x.user)
      /\ left' = Book!Change(left, x.want, HoldTTL - x.lag)
  BY <1>2, WriteIs DEF RowsInv
<1>8. Book!Hold(x.user, x.want)
  <2>1. \E late \in 0..MaxLag : left' = Book!Change(left, x.want, HoldTTL - late)
    BY <1>4, <1>7
  <2>2. UNCHANGED <<item, status, buyer, seatIds, unheld>>
    BY <1>2
  <2> QED  BY <1>5, <1>6, <1>7, <2>1, <2>2, Zenon DEF Book!Hold
<1> QED  BY <1>4, <1>5, <1>8 DEF Book!Next

\* release(): the rows it locked are still held by its user.
LEMMA ReleaseInBook ==
  ASSUME RowsInv, NEW t \in Txs, CommitRelease(t)
  PROVE  Book!Next
<1>1. PICK x : x = tx[t]
  OBVIOUS
<1>2. /\ x.kind = "release" /\ Write(x.got, "AVAILABLE", NoUser, 0)
      /\ UNCHANGED <<item, unheld, status, buyer, seatIds>>
  BY <1>1 DEF CommitRelease, orders
<1>3. /\ x.user \in Users /\ x.got \subseteq Seats
      /\ \A s \in x.got : Book!Held(s, x.user)
  BY <1>1, <1>2 DEF RowsInv, TxTypes, TxOK, TxInv, ReleaseInv, Good, Book!Held
<1>4. Book!Free(x.got)
  BY <1>2, WriteIs DEF RowsInv, Book!Free
<1>5. Book!GiveUp(x.user, x.got)
  BY <1>2, <1>3, <1>4 DEF Book!GiveUp
<1> QED  BY <1>3, <1>5 DEF Book!Next

\* The sweep takes back what has expired.
LEMMA SweepInBook ==
  ASSUME RowsInv, NEW S \in SUBSET Seats, SweepExpiredHolds(S)
  PROVE  Book!Next
<1>1. /\ Write(S, "AVAILABLE", NoUser, 0)
      /\ UNCHANGED <<item, unheld, status, buyer, seatIds>>
      /\ \A s \in S : Book!Expired(s)
  BY DEF SweepExpiredHolds, FreeForSweep, Expired, Book!Expired, orders
<1>2. Book!Sweep(S)
  BY <1>1, WriteIs DEF RowsInv, Book!Free, Book!Sweep
<1> QED  BY <1>1, <1>2 DEF Book!Next

\* An order is opened on holds that last long enough.
LEMMA OpenInBook ==
  ASSUME NEW o \in Orders, NEW u \in Users, NEW S \in Wishes, OpenOrder(o, u, S)
  PROVE  Book!Next
<1>1. S \subseteq Seats /\ S # {}
  BY WishesOK
<1>2. /\ Book!Open(o, u, S) /\ \A s \in S : Book!Held(s, u)
  BY <1>1 DEF OpenOrder, rows, Book!Open, Book!Held
<1> QED  BY <1>1, <1>2 DEF Book!Next

\* confirm_paid() has its order, its items and its rows for itself.
LEMMA ConfirmInBook ==
  ASSUME RowsInv, NEW t \in Txs, CommitConfirm(t)
  PROVE  Book!Next
<1>1. PICK x, o, S : x = tx[t] /\ o = x.order /\ S = x.want
  OBVIOUS
<1>2. /\ x.kind = "confirm" /\ x.at = "rows" /\ x.got = S
      /\ Write(S, "BOOKED", NoUser, 0)
      /\ item' = SetOn(item, x.items, o)
      /\ status' = [status EXCEPT ![o] = "PAID"]
      /\ unheld' = unheld \union {s \in S : ~ValidHold(s, x.user)}
      /\ UNCHANGED <<buyer, seatIds>>
  BY <1>1 DEF CommitConfirm, CommitPaid, Done
<1>3. TxOK(x) /\ TxInv(x) /\ OrderInv(x)
  BY <1>1, <1>2 DEF RowsInv, TxTypes, TxInv
<1>4. /\ o \in Orders /\ status[o] = "PENDING" /\ x.items = S
      /\ S = seatIds[o] /\ x.user = buyer[o]
  BY <1>1, <1>2, <1>3 DEF OrderInv, Expected
<1>5. \A s \in S : seat[s] = "HELD" /\ item[s] = NoOrder
  BY <1>2, <1>3, <1>4 DEF TxInv, Good
<1>6. /\ seat' = Book!Change(seat, S, "BOOKED")
      /\ heldBy' = Book!Change(heldBy, S, NoUser)
      /\ left' = Book!Change(left, S, 0)
  BY <1>2, WriteIs DEF RowsInv
<1>7. item' = Book!Change(item, S, o)
  BY <1>2, <1>4 DEF SetOn, Book!Change, RowsInv, RowTypes
<1>8. unheld' = unheld \union {s \in S : ~Book!Valid(s, buyer[o])}
  BY <1>2, <1>4 DEF ValidHold, Book!Valid, Book!Held
<1>9. Book!Confirm(o)
  BY <1>2, <1>4, <1>5, <1>6, <1>7, <1>8 DEF Book!Confirm
<1> QED  BY <1>4, <1>9 DEF Book!Next

\* _close_unpaid() gives up what it locked of the buyer's holds.
LEMMA CloseInBook ==
  ASSUME RowsInv, NEW t \in Txs, CommitClose(t)
  PROVE  Book!Next
<1>1. PICK x, o, S : x = tx[t] /\ o = x.order /\ S = x.got
  OBVIOUS
<1>2. PICK st \in {"FAILED", "CANCELED"} :
      /\ x.kind = "close" /\ x.at = "rows"
      /\ Write(S, "AVAILABLE", NoUser, 0)
      /\ status' = [status EXCEPT ![o] = st]
      /\ UNCHANGED <<item, unheld, buyer, seatIds>>
  BY <1>1 DEF CommitClose, Done
<1>3. TxOK(x) /\ TxInv(x) /\ OrderInv(x)
  BY <1>1, <1>2 DEF RowsInv, TxTypes, TxInv
<1>4. /\ o \in Orders /\ status[o] = "PENDING" /\ x.user = buyer[o]
      /\ S \subseteq seatIds[o]
  BY <1>1, <1>2, <1>3 DEF OrderInv, Expected, TxOK
<1>5. \A s \in S : Book!Held(s, buyer[o])
  BY <1>1, <1>2, <1>3, <1>4 DEF TxInv, Good, Book!Held
<1>6. Book!Free(S)
  BY <1>2, WriteIs DEF RowsInv, Book!Free
<1>7. Book!Close(o, st, S)
  BY <1>2, <1>4, <1>5, <1>6 DEF Book!Close
<1> QED  BY <1>4, <1>7 DEF Book!Next

\* cancel() restores the rows it locked, and they are all that the order has.
LEMMA CancelInBook ==
  ASSUME RowsInv, NEW t \in Txs, CommitCancel(t)
  PROVE  Book!Next
<1>1. PICK x, o : x = tx[t] /\ o = x.order
  OBVIOUS
<1>2. /\ x.kind = "cancel" /\ x.at = "rows" /\ x.todo = {}
      /\ seat' = SetOn(seat, x.got, "AVAILABLE")
      /\ status' = [status EXCEPT ![o] = "CANCELED"]
      /\ UNCHANGED <<heldBy, left, item, unheld, buyer, seatIds>>
  BY <1>1 DEF CommitCancel, Done
<1>3. TxOK(x) /\ TxInv(x) /\ OrderInv(x)
  BY <1>1, <1>2 DEF RowsInv, TxTypes, TxInv
<1>4. o \in Orders /\ status[o] = "PAID"
  BY <1>1, <1>2, <1>3 DEF OrderInv, Expected
<1>5. x.got = {s \in Seats : seat[s] = "BOOKED" /\ item[s] = o}
  BY <1>1, <1>2, <1>3 DEF OrderInv, TxOK, TxInv, Good, SoldTo
<1>6. seat' = Book!Change(seat, x.got, "AVAILABLE")
  BY <1>2 DEF SetOn, Book!Change, RowsInv, RowTypes
<1>7. Book!Cancel(o)
  BY <1>2, <1>4, <1>5, <1>6 DEF Book!Cancel
<1> QED  BY <1>4, <1>7 DEF Book!Next

\* Each step of the transactions is a step of the book or invisible in it.
LEMMA BookStep ==
  ASSUME RowsInv, [Next]_vars
  PROVE  [Book!Next]_Book!vars
<1>1. CASE \E t \in Txs : \/ CommitHold(t) \/ CommitRelease(t) \/ CommitConfirm(t)
                           \/ CommitClose(t) \/ CommitCancel(t)
  BY <1>1, HoldInBook, ReleaseInBook, ConfirmInBook, CloseInBook, CancelInBook
<1>2. CASE \E S \in SUBSET Seats : SweepExpiredHolds(S)
  BY <1>2, SweepInBook
<1>3. CASE \E o \in Orders, u \in Users, S \in Wishes : OpenOrder(o, u, S)
  BY <1>3, OpenInBook
<1>4. CASE Tick
  <2>1. Book!Tick
    BY <1>4 DEF Tick, orders, Book!Tick
  <2> QED  BY <2>1 DEF Book!Next
<1>5. CASE UNCHANGED <<rows, orders>>
  BY <1>5, BookStutter
<1> QED  BY <1>1, <1>2, <1>3, <1>4, <1>5
    DEF Next, vars, Work, BeginAcquire, BeginRelease, BeginOrder, Begin, Rollback,
        HoldSeats, SnapshotHold, RejectHold, MarkPaid, MarkClosed, MarkCanceled,
        MarkNothing, InsertItems, ItemTaken,
        BookOrderSeats, ConfirmTooFew, VisitRow, LockRow, CheckForeignKey

\* Nobody has a seat at first, in the book as in the rows.
LEMMA BookStart == Init => Book!Init
BY CanceledOK, NobodyOK DEF Init, Book!Init

\* However the statements of the transactions interleave, what is committed is what
\* they would have done one at a time, each judged on the rows of that moment
\* (hold_seats, release_hold, confirm_paid, _close_unpaid, cancel, sweep_expired_holds).
THEOREM RowsImplementBook == Spec => ImplementsSeatBook
<1>1. RowsInv /\ [Next]_vars => [Book!Next]_Book!vars
  BY BookStep
<1> QED  BY <1>1, BookStart, RowsInvariant, PTL DEF Spec, ImplementsSeatBook, Book!Spec
=============================================================================
