--------------------------- MODULE SeatRowsProofs ---------------------------
(***************************************************************************)
(* What is proved of SeatRows, for any seats, users, orders and any number *)
(* of transactions, whatever their interleaving.                           *)
(***************************************************************************)
EXTENDS SeatRowsProps, FiniteSetTheorems, WellFoundedInduction, TLAPS

-----------------------------------------------------------------------------
(* The inductive invariant.                                                *)

\* The seats that count against the limit of u.
Counted(u) == {s \in Seats : ValidHold(s, u)} \union (Bought(u) \ unheld)

\* The row as the statement of x wants it: Qualifies, of the record of a transaction.
Good(x, s) ==
  \/ /\ x.kind = "acquire"
     /\ seat[s] = "AVAILABLE" \/ (seat[s] = "HELD" /\ left[s] + x.lag < 0)
  \/ x.kind \in {"release", "close"} /\ seat[s] = "HELD" /\ heldBy[s] = x.user
  \/ x.kind = "confirm" /\ seat[s] = "HELD"
  \/ x.kind = "cancel" /\ seat[s] = "BOOKED" /\ item[s] = x.order

\* The seats an order has.
SoldTo(o) == {s \in Seats : seat[s] = "BOOKED" /\ item[s] = o}

\* Rows are locked in their order, and with what the user has the request fits.
AcquireInv(x) ==
  /\ x.at \in {"quota", "rows"} /\ x.user \in Users /\ x.order = NoOrder /\ x.items = {}
  /\ x.at = "quota" => x.locked = {}
  /\ \A r \in x.locked, s \in x.todo : r < s
  /\ x.at = "rows" /\ x.fits =>
       Cardinality(Counted(x.user)) + Cardinality(x.want) <= MaxSeats

ReleaseInv(x) == x.at = "rows" /\ x.user \in Users /\ x.order = NoOrder /\ x.items = {}

\* From its first write on a transaction has its order for itself.
OrderInv(x) ==
  /\ x.order \in Orders /\ status[x.order] # "NONE"
  /\ x.user = buyer[x.order] /\ x.want = seatIds[x.order]
  /\ x.at \in {"mark", "insert", "share", "rows"}
  /\ x.at # "mark" => status[x.order] = Expected(x.kind)
  /\ x.at # "rows" => x.locked = {}
  /\ x.at \in {"mark", "insert"} \/ x.kind \in {"close", "cancel"} => x.items = {}
  /\ x.kind \in {"close", "cancel"} => x.at \in {"mark", "rows"}
  /\ x.kind = "confirm" /\ x.at = "rows" => x.items = x.want
  /\ x.kind = "cancel" /\ x.at = "rows" => SoldTo(x.order) \subseteq x.got \union x.todo

TxInv(x) ==
  /\ x.kind = "acquire" => AcquireInv(x)
  /\ x.kind = "release" => ReleaseInv(x)
  /\ x.kind \in {"confirm", "close", "cancel"} => OrderInv(x)
  /\ \A s \in x.items : item[s] = NoOrder
  /\ \A s \in x.got : Good(x, s)

\* Two transactions share no row lock, no item, no quota lock and no order.
Apart(x, y) ==
  /\ x.locked \intersect y.locked = {}
  /\ x.items \intersect y.items = {}
  /\ ~(/\ x.kind = "acquire" /\ x.at # "quota"
       /\ y.kind = "acquire" /\ y.at # "quota" /\ x.user = y.user)
  /\ ~(/\ x.order # NoOrder /\ x.at \notin {"idle", "mark"}
       /\ x.order = y.order /\ y.at \notin {"idle", "mark"})

ItemsDecided ==
  \A s \in Seats : item[s] # NoOrder =>
    status[item[s]] \in {"PAID", "CANCELED"} /\ s \in seatIds[item[s]]

RowTypes ==
  /\ seat \in [Seats -> {"AVAILABLE", "HELD", "BOOKED"}]
  /\ heldBy \in [Seats -> Users \union {NoUser}]
  /\ left \in [Seats -> -(MaxLag + 1)..HoldTTL]
  /\ item \in [Seats -> Orders \union {NoOrder}]
  /\ \A s \in Seats : /\ seat[s] = "HELD" <=> heldBy[s] # NoUser
                      /\ seat[s] # "HELD" => left[s] = 0
  /\ unheld \subseteq Seats

OrderTypes ==
  /\ status \in [Orders -> {"NONE", "PENDING", "PAID", "FAILED", "CANCELED"}]
  /\ buyer \in [Orders -> Users \union {NoUser}]
  /\ seatIds \in [Orders -> SUBSET Seats]

TxTypes == DOMAIN tx = Txs /\ \A t \in Txs : TxOK(tx[t])

RowsInv ==
  /\ RowTypes /\ OrderTypes /\ TxTypes
  /\ \A t \in Txs : TxInv(tx[t])
  /\ \A t, q \in Txs : t # q => Apart(tx[t], tx[q])
  /\ ItemsDecided
  /\ SeatsFollowOrders
  /\ QuotaRespected

\* TypeOK in three parts: rows, orders and transactions.
LEMMA TypesAre == TypeOK <=> RowTypes /\ OrderTypes /\ TxTypes
BY DEF TypeOK, RowTypes, OrderTypes, TxTypes

\* Whether a row qualifies depends on the row and the record of the transaction.
LEMMA GoodIs ==
  ASSUME NEW t \in Txs, NEW s \in Seats
  PROVE  Qualifies(t, s) <=> Good(tx[t], s)
BY DEF Qualifies, Claimable, Good

\* That two transactions do not clash is the same from both sides.
LEMMA ApartSym ==
  ASSUME NEW x, NEW y, Apart(x, y)
  PROVE  Apart(y, x)
BY DEF Apart

\* A connection without a transaction is in nobody's way.
LEMMA IdleOK ==
  /\ TxOK(Idle) /\ TxInv(Idle)
  /\ Idle.locked = {} /\ Idle.items = {} /\ Idle.at = "idle" /\ Idle.kind = "none"
  /\ \A x : Apart(Idle, x) /\ Apart(x, Idle)
BY LimitsOK DEF Idle, TxOK, TxInv, Apart, Kinds, Points

\* There are finitely many seats to count.
LEMMA CountedFinite ==
  ASSUME NEW u
  PROVE  /\ Counted(u) \subseteq Seats /\ IsFiniteSet(Counted(u))
         /\ Cardinality(Counted(u)) \in Nat
<1>1. Counted(u) \subseteq Seats
  BY DEF Counted, Bought
<1>2. IsFiniteSet(Counted(u))
  BY <1>1, SeatsAreNumbers, FS_Subset
<1> QED  BY <1>1, <1>2, FS_CardinalityType

\* At first nobody has seats and no transaction is open.
LEMMA RowsStart == Init => RowsInv
<1> SUFFICES ASSUME Init PROVE RowsInv
  OBVIOUS
<1>1. RowTypes /\ OrderTypes
  BY LimitsOK, NobodyOK, CanceledOK DEF Init, RowTypes, OrderTypes
<1>2. TxTypes /\ (\A t \in Txs : TxInv(tx[t]))
  BY IdleOK DEF Init, TxTypes
<1>3. \A t, q \in Txs : t # q => Apart(tx[t], tx[q])
  BY IdleOK DEF Init
<1>4. ItemsDecided /\ SeatsFollowOrders
  BY NobodyOK, CanceledOK DEF Init, ItemsDecided, SeatsFollowOrders
<1>5. \A u \in Users : Counted(u) = {}
  BY DEF Init, Counted, ValidHold, Bought
<1>6. QuotaRespected
  BY <1>5, FS_EmptySet, LimitsOK DEF QuotaRespected, Counted
<1> QED  BY <1>1, <1>2, <1>3, <1>4, <1>6 DEF RowsInv

-----------------------------------------------------------------------------
(* Steps that change the record of one transaction and nothing else.       *)

\* A step of one transaction that writes no row: only what the transaction
\* itself has to satisfy is to be shown.
LEMMA TxStep ==
  ASSUME RowsInv, NEW t \in Txs, NEW y,
         tx' = [tx EXCEPT ![t] = y],
         UNCHANGED <<rows, orders>>,
         TxOK(y), TxInv(y),
         \A q \in Txs : q # t => Apart(y, tx[q])
  PROVE  RowsInv'
<1>1. UNCHANGED <<seat, heldBy, left, item, unheld, status, buyer, seatIds>>
  BY DEF rows, orders
<1>2. tx'[t] = y /\ DOMAIN tx' = Txs /\ \A q \in Txs : q # t => tx'[q] = tx[q]
  BY DEF RowsInv, TxTypes
<1>3. RowTypes' /\ OrderTypes'
  BY <1>1 DEF RowsInv, RowTypes, OrderTypes
<1>4. TxTypes'
  BY <1>2 DEF RowsInv, TxTypes, TxOK
<1>5. \A u : Counted(u)' = Counted(u)
  BY <1>1 DEF Counted, ValidHold, Bought
<1>6. ASSUME NEW q \in Txs
      PROVE  TxInv(tx[q])'
  <2>1. PICK x : x = tx'[q]
    OBVIOUS
  <2>2. TxInv(x)
    BY <1>2, <2>1 DEF RowsInv
  <2>3. TxInv(x)'
    BY <1>1, <1>5, <2>2 DEF TxInv, AcquireInv, ReleaseInv, OrderInv, Good, SoldTo
  <2> QED  BY <2>1, <2>3 DEF TxInv, AcquireInv, ReleaseInv, OrderInv, Good, SoldTo
<1>7. ASSUME NEW p \in Txs, NEW q \in Txs, p # q
      PROVE  Apart(tx'[p], tx'[q])
  BY <1>2, <1>7, ApartSym DEF RowsInv
<1>8. ItemsDecided' /\ SeatsFollowOrders'
  BY <1>1 DEF RowsInv, ItemsDecided, SeatsFollowOrders
<1>9. QuotaRespected'
  BY <1>5 DEF RowsInv, QuotaRespected, Counted
<1> QED  BY <1>3, <1>4, <1>6, <1>7, <1>8, <1>9 DEF RowsInv, Apart

\* A transaction that is rolled back leaves nothing.
LEMMA RollbackStep ==
  ASSUME RowsInv, NEW t \in Txs, Rollback(t)
  PROVE  RowsInv'
BY IdleOK, TxStep DEF Rollback, Close

\* acquire() begins, with nothing locked.
LEMMA BeginAcquireStep ==
  ASSUME RowsInv, NEW t \in Txs, NEW u \in Users, NEW S \in Wishes, BeginAcquire(t, u, S)
  PROVE  RowsInv'
<1>1. S \subseteq Seats /\ MaxLag \in Nat
  BY WishesOK, LimitsOK
<1>2. PICK y : y = [Idle EXCEPT !.kind = "acquire", !.at = "quota", !.user = u,
                                !.order = NoOrder, !.want = S]
  OBVIOUS
<1>3. tx' = [tx EXCEPT ![t] = y] /\ UNCHANGED <<rows, orders>>
  BY <1>2 DEF BeginAcquire, Begin
<1>4. /\ y.kind = "acquire" /\ y.at = "quota" /\ y.user = u /\ y.order = NoOrder
      /\ y.want = S /\ y.todo = {} /\ y.lag = 0 /\ y.fits = FALSE
      /\ y.got = {} /\ y.locked = {} /\ y.items = {} /\ y # Idle
  BY <1>2, IdleOK DEF Idle
<1>5. y.fits \in BOOLEAN
  BY <1>4, Zenon
<1>6. TxOK(y)
  BY <1>1, <1>4, <1>5 DEF TxOK, Kinds, Points
<1>7. TxInv(y)
  BY <1>4 DEF TxInv, AcquireInv
<1>8. \A x : Apart(y, x)
  BY <1>4 DEF Apart
<1> QED  BY <1>3, <1>6, <1>7, <1>8, TxStep

\* release() begins, with the rows of its snapshot ahead.
LEMMA BeginReleaseStep ==
  ASSUME RowsInv, NEW t \in Txs, NEW u \in Users, NEW S \in Wishes, BeginRelease(t, u, S)
  PROVE  RowsInv'
<1>1. S \subseteq Seats /\ MaxLag \in Nat
  BY WishesOK, LimitsOK
<1>2. PICK y : y = [Idle EXCEPT !.kind = "release", !.at = "rows", !.user = u,
                                !.want = S, !.todo = S]
  OBVIOUS
<1>3. tx' = [tx EXCEPT ![t] = y] /\ UNCHANGED <<rows, orders>>
  BY <1>2 DEF BeginRelease
<1>4. /\ y.kind = "release" /\ y.at = "rows" /\ y.user = u /\ y.order = NoOrder
      /\ y.want = S /\ y.todo = S /\ y.lag = 0 /\ y.fits = FALSE
      /\ y.got = {} /\ y.locked = {} /\ y.items = {} /\ y # Idle
  BY <1>2, IdleOK DEF Idle
<1>5. y.fits \in BOOLEAN
  BY <1>4, Zenon
<1>6. TxOK(y)
  BY <1>1, <1>4, <1>5 DEF TxOK, Kinds, Points
<1>7. TxInv(y)
  BY <1>4 DEF TxInv, ReleaseInv
<1>8. \A x : Apart(y, x)
  BY <1>4 DEF Apart
<1> QED  BY <1>3, <1>6, <1>7, <1>8, TxStep

\* A caller begins to confirm or to close its order.
LEMMA BeginOrderStep ==
  ASSUME RowsInv, NEW t \in Txs, NEW o \in Orders, NEW k \in {"confirm", "close", "cancel"},
         BeginOrder(t, k, o)
  PROVE  RowsInv'
<1>1. PICK y : y = [Idle EXCEPT !.kind = k, !.at = "mark", !.user = buyer[o],
                                !.order = o, !.want = seatIds[o]]
  OBVIOUS
<1>2. /\ tx' = [tx EXCEPT ![t] = y] /\ UNCHANGED <<rows, orders>>
      /\ status[o] = Expected(k) /\ MaxLag \in Nat
  BY <1>1, LimitsOK DEF BeginOrder, Begin
<1>3. /\ y.kind = k /\ y.at = "mark" /\ y.user = buyer[o] /\ y.order = o
      /\ y.want = seatIds[o] /\ y.todo = {} /\ y.lag = 0 /\ y.fits = FALSE
      /\ y.got = {} /\ y.locked = {} /\ y.items = {} /\ y # Idle
  BY <1>1, IdleOK DEF Idle
<1>4. y.fits \in BOOLEAN
  BY <1>3, Zenon
<1>5. TxOK(y)
  BY <1>2, <1>3, <1>4 DEF TxOK, Kinds, Points, RowsInv, OrderTypes
<1>6. TxInv(y)
  BY <1>2, <1>3 DEF TxInv, OrderInv, Expected
<1>7. \A x : Apart(y, x)
  BY <1>3 DEF Apart
<1> QED  BY <1>2, <1>5, <1>6, <1>7, TxStep

\* A row is locked when nobody else has it, and is good for what comes next.
LEMMA VisitRowStep ==
  ASSUME RowsInv, NEW t \in Txs, NEW s \in Seats, VisitRow(t, s)
  PROVE  RowsInv'
<1>1. PICK x : x = tx[t]
  OBVIOUS
<1>2. PICK y : y = [x EXCEPT !.todo = @ \ {s}, !.locked = @ \union {s},
                             !.got = IF Good(x, s) THEN @ \union {s} ELSE @]
  OBVIOUS
<1>3. /\ x.at = "rows" /\ s \in NextRows(t) /\ \A q \in Txs : ~Blocks(q, t, s)
      /\ tx' = [tx EXCEPT ![t] = y] /\ UNCHANGED <<rows, orders>>
  BY <1>1, <1>2, GoodIs DEF VisitRow, LockRow
<1>4. TxOK(x) /\ TxInv(x) /\ s \in x.todo
  BY <1>1, <1>3 DEF RowsInv, TxTypes, NextRows
<1>5. /\ y.kind = x.kind /\ y.at = x.at /\ y.user = x.user /\ y.order = x.order
      /\ y.want = x.want /\ y.lag = x.lag /\ y.fits = x.fits /\ y.items = x.items
      /\ y.todo = x.todo \ {s} /\ y.locked = x.locked \union {s}
      /\ y.got = IF Good(x, s) THEN x.got \union {s} ELSE x.got
  BY <1>2, <1>4 DEF TxOK
<1>6. x.kind # "none"
  BY <1>3, <1>4, IdleOK DEF TxOK
<1>7. TxOK(y)
  BY <1>4, <1>5, <1>6, IdleOK DEF TxOK
<1>8. x.kind = "acquire" => \A z \in y.todo : s < z
  <2>1. x.kind = "acquire" => \A z \in x.todo : s <= z
    BY <1>1, <1>3 DEF NextRows
  <2>2. x.todo \subseteq Nat
    BY <1>4, SeatsAreNumbers DEF TxOK
  <2> QED  BY <1>4, <1>5, <2>1, <2>2
<1>9. TxInv(y)
  <2>1. x.kind = "acquire" => AcquireInv(y)
    BY <1>3, <1>4, <1>5, <1>8 DEF TxInv, AcquireInv
  <2>2. x.kind = "release" => ReleaseInv(y)
    BY <1>3, <1>4, <1>5 DEF TxInv, ReleaseInv
  <2>3. x.kind \in {"confirm", "close", "cancel"} => OrderInv(y)
    <3>1. OrderInv(x) /\ x.kind = "cancel" => SoldTo(x.order) \subseteq y.got \union y.todo
      BY <1>3, <1>4, <1>5 DEF OrderInv, SoldTo, Good
    <3> QED  BY <1>3, <1>4, <1>5, <3>1 DEF TxInv, OrderInv
  <2>4. \A z \in y.got : Good(y, z)
    BY <1>4, <1>5 DEF TxInv, Good
  <2> QED  BY <1>4, <1>5, <2>1, <2>2, <2>3, <2>4 DEF TxInv
<1>10. ASSUME NEW q \in Txs, q # t
       PROVE  Apart(y, tx[q])
  <2>1. Apart(x, tx[q]) /\ s \notin tx[q].locked
    BY <1>1, <1>3, <1>10 DEF RowsInv, Blocks
  <2> QED  BY <1>5, <2>1 DEF Apart
<1> QED  BY <1>3, <1>7, <1>9, <1>10, TxStep

\* Behind the advisory lock nobody adds to what the user has.
LEMMA HoldSeatsStep ==
  ASSUME RowsInv, NEW t \in Txs, HoldSeats(t)
  PROVE  RowsInv'
<1>1. PICK x : x = tx[t]
  OBVIOUS
<1>2. PICK y : y = [x EXCEPT !.at = "rows", !.fits = Fits(t),
                             !.todo = {s \in x.want : Qualifies(t, s)}]
  OBVIOUS
<1>3. /\ x.at = "quota" /\ ~Waiting(t)
      /\ tx' = [tx EXCEPT ![t] = y] /\ UNCHANGED <<rows, orders>>
  BY <1>1, <1>2 DEF HoldSeats, SnapshotHold
<1>4. TxOK(x) /\ TxInv(x)
  BY <1>1 DEF RowsInv, TxTypes
<1>5. /\ y.kind = x.kind /\ y.at = "rows" /\ y.user = x.user /\ y.order = x.order
      /\ y.want = x.want /\ y.lag = x.lag /\ y.fits = Fits(t) /\ y.items = x.items
      /\ y.todo \subseteq x.want /\ y.locked = x.locked /\ y.got = x.got
  BY <1>2
<1>6. x.kind = "acquire"
  BY <1>3, <1>4, IdleOK DEF TxOK, Kinds, TxInv, ReleaseInv, OrderInv
<1>7. x.locked = {} /\ x.user \in Users /\ x.order = NoOrder /\ x.items = {} /\ x.got = {}
  BY <1>3, <1>4, <1>6 DEF TxInv, AcquireInv, TxOK
<1>8. TxOK(y)
  BY <1>4, <1>5, <1>6, <1>7, IdleOK DEF TxOK, Fits, Points
<1>9. y.fits => Cardinality(Counted(y.user)) + Cardinality(y.want) <= MaxSeats
  <2>1. Counted(x.user) \subseteq Owned(t, x.user)
    BY <1>1, <1>4, LimitsOK
       DEF Counted, Owned, ValidHold, ValidFor, RowsInv, RowTypes, TxOK
  <2>2. Owned(t, x.user) \subseteq Seats
    BY DEF Owned, Bought
  <2>3. IsFiniteSet(Owned(t, x.user)) /\ IsFiniteSet(x.want)
    BY <1>4, <2>2, SeatsAreNumbers, FS_Subset DEF TxOK
  <2>4. /\ Cardinality(Counted(x.user)) <= Cardinality(Owned(t, x.user))
        /\ Cardinality(Counted(x.user)) \in Nat /\ Cardinality(x.want) \in Nat
        /\ Cardinality(Owned(t, x.user)) \in Nat
    BY <2>1, <2>3, FS_Subset, FS_CardinalityType
  <2>5. y.fits => Cardinality(Owned(t, x.user)) + Cardinality(x.want) <= MaxSeats
    BY <1>1, <1>5, Zenon DEF Fits
  <2> QED  BY <1>5, <2>4, <2>5, LimitsOK
<1>10. TxInv(y)
  BY <1>5, <1>6, <1>7, <1>9 DEF TxInv, AcquireInv
<1>11. ASSUME NEW q \in Txs, q # t
       PROVE  Apart(y, tx[q])
  <2>1. Apart(x, tx[q])
    BY <1>1, <1>11 DEF RowsInv
  <2>2. ~HasQuota(q, x.user)
    BY <1>1, <1>3, <1>11 DEF Waiting, WaitsFor
  <2> QED  BY <1>5, <1>7, <2>1, <2>2 DEF Apart, HasQuota
<1> QED  BY <1>3, <1>8, <1>10, <1>11, TxStep

\* The row of the order is written by one transaction, and what it reads after that
\* stays true: the order keeps its status until it commits.
LEMMA MarkStep ==
  ASSUME RowsInv, NEW t \in Txs, MarkPaid(t) \/ MarkClosed(t) \/ MarkCanceled(t)
  PROVE  RowsInv'
<1>1. PICK x : x = tx[t]
  OBVIOUS
<1>2. /\ x.at = "mark" /\ ~Waiting(t) /\ status[x.order] = Expected(x.kind)
      /\ x.kind \in {"confirm", "close", "cancel"}
      /\ UNCHANGED <<rows, orders>>
  BY <1>1 DEF MarkPaid, MarkClosed, MarkCanceled, Expected
<1>3. TxOK(x) /\ TxInv(x) /\ OrderInv(x)
  BY <1>1, <1>2 DEF RowsInv, TxTypes, TxInv
<1>4. x.locked = {} /\ x.items = {} /\ x.got = {} /\ x.order \in Orders
  BY <1>2, <1>3 DEF OrderInv, TxOK
<1>5. PICK y : /\ tx' = [tx EXCEPT ![t] = y]
               /\ y.kind = x.kind /\ y.user = x.user /\ y.order = x.order /\ y.want = x.want
               /\ y.fits = x.fits /\ y.items = x.items /\ y.locked = x.locked
               /\ y.got = x.got /\ y.todo \subseteq x.want /\ y.lag \in {0, x.lag}
               /\ y.at = IF x.kind = "confirm" THEN "insert" ELSE "rows"
               /\ x.kind = "cancel" => SoldTo(x.order) \subseteq y.todo
  <2>1. CASE MarkPaid(t)
    <3>1. PICK y : y = [x EXCEPT !.at = "insert", !.todo = Claimed(t), !.lag = 0]
      OBVIOUS
    <3>2. tx' = [tx EXCEPT ![t] = y] /\ x.kind = "confirm" /\ Claimed(t) \subseteq x.want
      BY <1>1, <2>1, <3>1 DEF MarkPaid, Claimed
    <3>3. /\ y.kind = x.kind /\ y.user = x.user /\ y.order = x.order /\ y.want = x.want
          /\ y.fits = x.fits /\ y.items = x.items /\ y.locked = x.locked /\ y.got = x.got
          /\ y.at = "insert" /\ y.lag = 0 /\ y.todo \subseteq x.want
      BY <1>3, <3>1, <3>2 DEF TxOK
    <3> QED  BY <3>2, <3>3
  <2>2. CASE MarkClosed(t)
    <3>1. PICK y : y = [x EXCEPT !.at = "rows", !.todo = {s \in x.want : Qualifies(t, s)}]
      OBVIOUS
    <3>2. tx' = [tx EXCEPT ![t] = y] /\ x.kind = "close"
      BY <1>1, <2>2, <3>1 DEF MarkClosed, Snapshot
    <3>3. /\ y.kind = x.kind /\ y.user = x.user /\ y.order = x.order /\ y.want = x.want
          /\ y.fits = x.fits /\ y.items = x.items /\ y.locked = x.locked /\ y.got = x.got
          /\ y.at = "rows" /\ y.lag = x.lag /\ y.todo \subseteq x.want
      BY <1>3, <3>1, <3>2 DEF TxOK
    <3> QED  BY <3>2, <3>3
  <2>3. CASE MarkCanceled(t)
    <3>1. PICK y : y = [x EXCEPT !.at = "rows", !.todo = {s \in Seats : Qualifies(t, s)}]
      OBVIOUS
    <3>2. tx' = [tx EXCEPT ![t] = y] /\ x.kind = "cancel"
      BY <1>1, <2>3, <3>1 DEF MarkCanceled, Snapshot
    <3>3. {s \in Seats : Qualifies(t, s)} = SoldTo(x.order)
      BY <1>1, <3>2 DEF Qualifies, Claimable, SoldTo
    <3>4. SoldTo(x.order) \subseteq x.want
      BY <1>3, <1>4, NobodyOK DEF SoldTo, OrderInv, RowsInv, ItemsDecided
    <3>5. /\ y.kind = x.kind /\ y.user = x.user /\ y.order = x.order /\ y.want = x.want
          /\ y.fits = x.fits /\ y.items = x.items /\ y.locked = x.locked /\ y.got = x.got
          /\ y.at = "rows" /\ y.lag = x.lag /\ y.todo = SoldTo(x.order)
      BY <1>3, <3>1, <3>3 DEF TxOK
    <3> QED  BY <3>2, <3>4, <3>5
  <2> QED  BY <1>2, <2>1, <2>2, <2>3
<1>6. y # Idle /\ y.lag \in 0..MaxLag
  BY <1>2, <1>3, <1>5, LimitsOK, IdleOK DEF TxOK
<1>7. TxOK(y)
  BY <1>2, <1>3, <1>4, <1>5, <1>6 DEF TxOK, Points
<1>8. TxInv(y)
  BY <1>2, <1>3, <1>4, <1>5 DEF TxInv, OrderInv
<1>9. ASSUME NEW q \in Txs, q # t
      PROVE  Apart(y, tx[q])
  <2>1. Apart(x, tx[q])
    BY <1>1, <1>9 DEF RowsInv
  <2>2. ~HasOrder(q, x.order)
    BY <1>1, <1>2, <1>9 DEF Waiting, WaitsFor
  <2> QED  BY <1>2, <1>4, <1>5, <2>1, <2>2 DEF Apart, HasOrder
<1> QED  BY <1>2, <1>5, <1>7, <1>8, <1>9, TxStep

\* The unique key of order_items: the seats are nobody's, and nobody is at them.
LEMMA InsertItemsStep ==
  ASSUME RowsInv, NEW t \in Txs, InsertItems(t)
  PROVE  RowsInv'
<1>1. PICK x : x = tx[t]
  OBVIOUS
<1>2. PICK y : y = [x EXCEPT !.at = "share", !.items = x.todo]
  OBVIOUS
<1>3. /\ x.at = "insert" /\ ~Waiting(t) /\ \A s \in x.todo : item[s] = NoOrder
      /\ tx' = [tx EXCEPT ![t] = y] /\ UNCHANGED <<rows, orders>>
  BY <1>1, <1>2 DEF InsertItems
<1>4. TxOK(x) /\ TxInv(x)
  BY <1>1 DEF RowsInv, TxTypes
<1>5. /\ y.kind = x.kind /\ y.at = "share" /\ y.user = x.user /\ y.order = x.order
      /\ y.want = x.want /\ y.lag = x.lag /\ y.fits = x.fits /\ y.items = x.todo
      /\ y.todo = x.todo /\ y.locked = x.locked /\ y.got = x.got
  BY <1>2, <1>4 DEF TxOK
<1>6. x.kind = "confirm" /\ OrderInv(x)
  BY <1>3, <1>4, IdleOK DEF TxOK, Kinds, TxInv, AcquireInv, ReleaseInv, OrderInv
<1>7. x.locked = {} /\ x.got = {}
  BY <1>3, <1>4, <1>6 DEF OrderInv, TxOK
<1>8. TxOK(y)
  BY <1>4, <1>5, <1>6, IdleOK DEF TxOK, Points
<1>9. TxInv(y)
  BY <1>3, <1>5, <1>6, <1>7 DEF TxInv, OrderInv
<1>10. ASSUME NEW q \in Txs, q # t
       PROVE  Apart(y, tx[q])
  <2>1. Apart(x, tx[q])
    BY <1>1, <1>10 DEF RowsInv
  <2>2. tx[q].items \intersect x.todo = {}
    BY <1>1, <1>3, <1>10 DEF Waiting, WaitsFor
  <2> QED  BY <1>3, <1>5, <1>6, <2>1, <2>2 DEF Apart
<1> QED  BY <1>3, <1>8, <1>9, <1>10, TxStep

\* The last steps of confirm_paid() before the rows.
LEMMA ShareStep ==
  ASSUME RowsInv, NEW t \in Txs, (\E s \in Seats : CheckForeignKey(t, s)) \/ BookOrderSeats(t)
  PROVE  RowsInv'
<1>1. PICK x : x = tx[t]
  OBVIOUS
<1>2. x.at = "share" /\ UNCHANGED <<rows, orders>>
  BY <1>1 DEF CheckForeignKey, BookOrderSeats
<1>3. TxOK(x) /\ TxInv(x)
  BY <1>1 DEF RowsInv, TxTypes
<1>4. x.kind = "confirm" /\ OrderInv(x)
  BY <1>2, <1>3, IdleOK DEF TxOK, Kinds, TxInv, AcquireInv, ReleaseInv, OrderInv
<1>5. x.locked = {} /\ x.got = {}
  BY <1>2, <1>3, <1>4 DEF OrderInv, TxOK
<1>6. CASE tx' = [tx EXCEPT ![t] = Idle]
  BY <1>2, <1>6, IdleOK, TxStep
<1>7. ASSUME tx' # [tx EXCEPT ![t] = Idle]
      PROVE  \E y : /\ tx' = [tx EXCEPT ![t] = y]
                    /\ y.kind = x.kind /\ y.user = x.user /\ y.order = x.order
                    /\ y.want = x.want /\ y.fits = x.fits /\ y.items = x.items
                    /\ y.locked = x.locked /\ y.got = x.got /\ y.lag = x.lag
                    /\ y.todo \subseteq x.want
                    /\ y.at = "share" \/ (y.at = "rows" /\ x.items = x.want)
  <2>1. CASE \E s \in Seats : CheckForeignKey(t, s)
    <3>0. PICK s \in Seats : CheckForeignKey(t, s)
      BY <2>1
    <3>1. PICK y : y = [x EXCEPT !.todo = @ \ {s}]
      OBVIOUS
    <3>2. tx' = [tx EXCEPT ![t] = y]
      BY <1>1, <3>0, <3>1 DEF CheckForeignKey
    <3>3. /\ y.kind = x.kind /\ y.user = x.user /\ y.order = x.order /\ y.want = x.want
          /\ y.fits = x.fits /\ y.items = x.items /\ y.locked = x.locked /\ y.got = x.got
          /\ y.at = "share" /\ y.lag = x.lag /\ y.todo \subseteq x.want
      BY <1>2, <1>3, <3>1, <3>2 DEF TxOK
    <3> QED  BY <3>2, <3>3
  <2>2. CASE BookOrderSeats(t)
    <3>1. PICK y : y = [x EXCEPT !.at = "rows", !.todo = {z \in x.items : Qualifies(t, z)}]
      OBVIOUS
    <3>2. tx' = [tx EXCEPT ![t] = y] /\ x.items = x.want
      BY <1>1, <1>7, <2>2, <3>1 DEF BookOrderSeats, Snapshot, Close
    <3>3. /\ y.kind = x.kind /\ y.user = x.user /\ y.order = x.order /\ y.want = x.want
          /\ y.fits = x.fits /\ y.items = x.items /\ y.locked = x.locked /\ y.got = x.got
          /\ y.at = "rows" /\ y.lag = x.lag /\ y.todo \subseteq x.want
      BY <1>3, <3>1, <3>2 DEF TxOK
    <3> QED  BY <3>2, <3>3
  <2> QED  BY <2>1, <2>2
<1>8. ASSUME tx' # [tx EXCEPT ![t] = Idle]
      PROVE  RowsInv'
  <2>1. PICK y : /\ tx' = [tx EXCEPT ![t] = y]
                 /\ y.kind = x.kind /\ y.user = x.user /\ y.order = x.order
                 /\ y.want = x.want /\ y.fits = x.fits /\ y.items = x.items
                 /\ y.locked = x.locked /\ y.got = x.got /\ y.lag = x.lag
                 /\ y.todo \subseteq x.want
                 /\ y.at = "share" \/ (y.at = "rows" /\ x.items = x.want)
    BY <1>7, <1>8
  <2>2. TxOK(y)
    BY <1>3, <1>4, <2>1, IdleOK DEF TxOK, Points
  <2>3. TxInv(y)
    BY <1>2, <1>3, <1>4, <1>5, <2>1 DEF TxInv, OrderInv
  <2>4. ASSUME NEW q \in Txs, q # t
        PROVE  Apart(y, tx[q])
    <3>1. Apart(x, tx[q])
      BY <1>1, <2>4 DEF RowsInv
    <3> QED  BY <1>2, <1>4, <2>1, <3>1 DEF Apart
  <2> QED  BY <1>2, <2>1, <2>2, <2>3, <2>4, TxStep
<1> QED  BY <1>6, <1>8

-----------------------------------------------------------------------------
(* Steps that write.                                                       *)

\* What a transaction knows stays true while nobody writes the rows it has locked,
\* its items and its order, and nobody adds to what its user has.
LEMMA KeepTx ==
  ASSUME RowsInv, NEW x, TxOK(x), TxInv(x),
         \A s \in x.locked : seat'[s] = seat[s] /\ heldBy'[s] = heldBy[s] /\ left'[s] = left[s],
         \A s \in x.items : item'[s] = item[s],
         x.order \in Orders =>
           /\ buyer'[x.order] = buyer[x.order] /\ seatIds'[x.order] = seatIds[x.order]
           /\ \/ status'[x.order] = status[x.order]
              \/ x.at = "mark" /\ status'[x.order] # "NONE",
         x.kind = "cancel" /\ x.at = "rows" => SoldTo(x.order)' = SoldTo(x.order),
         x.kind = "acquire" /\ x.at = "rows" => Counted(x.user)' \subseteq Counted(x.user)
  PROVE  TxInv(x)'
<1>1. x.kind = "acquire" => AcquireInv(x)'
  <2> SUFFICES ASSUME x.kind = "acquire" PROVE AcquireInv(x)'
    OBVIOUS
  <2>1. AcquireInv(x)
    BY DEF TxInv
  <2>2. ASSUME x.at = "rows", x.fits
        PROVE  Cardinality(Counted(x.user)') + Cardinality(x.want) <= MaxSeats
    <3>1. Cardinality(Counted(x.user)') <= Cardinality(Counted(x.user))
      BY <2>2, CountedFinite, FS_Subset
    <3>2. IsFiniteSet(x.want)
      BY SeatsAreNumbers, FS_Subset DEF TxOK
    <3>3. IsFiniteSet(Counted(x.user)')
      BY <2>2, CountedFinite, FS_Subset
    <3>4. /\ Cardinality(Counted(x.user)') \in Nat /\ Cardinality(Counted(x.user)) \in Nat
          /\ Cardinality(x.want) \in Nat
      BY <3>2, <3>3, CountedFinite, FS_CardinalityType
    <3>5. Cardinality(Counted(x.user)) + Cardinality(x.want) <= MaxSeats
      BY <2>1, <2>2 DEF AcquireInv
    <3> QED  BY <3>1, <3>4, <3>5, LimitsOK
  <2> QED  BY <2>1, <2>2 DEF AcquireInv
<1>2. x.kind = "release" => ReleaseInv(x)'
  BY DEF TxInv, ReleaseInv
<1>3. x.kind \in {"confirm", "close", "cancel"} => OrderInv(x)'
  BY DEF TxInv, OrderInv
<1>4. \A s \in x.items : item'[s] = NoOrder
  BY DEF TxInv
<1>5. \A s \in x.got : Good(x, s)'
  <2>1. CASE x.kind # "cancel"
    BY <2>1 DEF TxInv, TxOK, Good
  <2>2. CASE x.kind = "cancel"
    <3>1. x.got \subseteq Seats /\ (x.at = "rows" \/ x.got = {})
      BY <2>2 DEF TxInv, TxOK, OrderInv
    <3>2. x.got \subseteq SoldTo(x.order)
      BY <2>2, <3>1 DEF TxInv, Good, SoldTo
    <3>3. x.got \subseteq SoldTo(x.order)'
      BY <2>2, <3>1, <3>2
    <3> QED  BY <2>2, <3>3 DEF Good, SoldTo
  <2> QED  BY <2>1, <2>2
<1> QED  BY <1>1, <1>2, <1>3, <1>4, <1>5 DEF TxInv

\* A commit, seen by the others.
LEMMA CommitTx ==
  ASSUME RowsInv, NEW t \in Txs, tx' = [tx EXCEPT ![t] = Idle], tx[t].at = "rows",
         \A s \in Seats \ tx[t].got :
           seat'[s] = seat[s] /\ heldBy'[s] = heldBy[s] /\ left'[s] = left[s],
         \A s \in Seats \ tx[t].items : item'[s] = item[s],
         UNCHANGED <<buyer, seatIds>>,
         \A o \in Orders : status'[o] = status[o] \/ (o = tx[t].order /\ status'[o] # "NONE"),
         \A o \in Orders \ {tx[t].order} : SoldTo(o)' = SoldTo(o),
         \A q \in Txs \ {t} : tx[q].kind = "acquire" /\ tx[q].at = "rows" =>
                                Counted(tx[q].user)' \subseteq Counted(tx[q].user)
  PROVE  /\ TxTypes'
         /\ \A q \in Txs : TxInv(tx[q])'
         /\ \A p, q \in Txs : p # q => Apart(tx[p], tx[q])'
<1>1. /\ tx'[t] = Idle /\ DOMAIN tx' = Txs
      /\ \A q \in Txs : q # t => tx'[q] = tx[q]
  BY DEF RowsInv, TxTypes
<1>2. TxTypes'
  BY <1>1, IdleOK DEF RowsInv, TxTypes, TxOK
<1>3. ASSUME NEW q \in Txs
      PROVE  TxInv(tx[q])'
  <2>1. PICK x : x = tx'[q]
    OBVIOUS
  <2>2. CASE q = t
    BY <1>1, <2>2, IdleOK DEF Idle, TxInv
  <2>3. CASE q # t
    <3>1. x = tx[q] /\ TxOK(x) /\ TxInv(x) /\ Apart(tx[t], x) /\ TxOK(tx[t])
      BY <1>1, <2>1, <2>3 DEF RowsInv, TxTypes
    <3>2. \A s \in x.locked : seat'[s] = seat[s] /\ heldBy'[s] = heldBy[s] /\ left'[s] = left[s]
      BY <3>1 DEF Apart, TxOK
    <3>3. \A s \in x.items : item'[s] = item[s]
      BY <3>1 DEF Apart, TxOK
    <3>4. x.order \in Orders =>
            /\ buyer'[x.order] = buyer[x.order] /\ seatIds'[x.order] = seatIds[x.order]
            /\ \/ status'[x.order] = status[x.order]
               \/ x.at = "mark" /\ status'[x.order] # "NONE"
      <4> SUFFICES ASSUME x.order \in Orders, status'[x.order] # status[x.order]
                   PROVE  x.at = "mark" /\ status'[x.order] # "NONE"
        OBVIOUS
      <4>1. x.order = tx[t].order /\ status'[x.order] # "NONE"
        OBVIOUS
      <4>2. x.at \in {"idle", "mark"}
        BY <3>1, <4>1, NobodyOK DEF Apart
      <4>3. x.kind \in {"confirm", "close", "cancel"}
        BY <3>1, NobodyOK, IdleOK DEF TxInv, AcquireInv, ReleaseInv, TxOK, Kinds, Idle
      <4> QED  BY <3>1, <4>1, <4>2, <4>3 DEF TxInv, OrderInv
    <3>5. x.kind = "acquire" /\ x.at = "rows" => Counted(x.user)' \subseteq Counted(x.user)
      BY <2>3, <3>1
    <3>6. x.kind = "cancel" /\ x.at = "rows" => SoldTo(x.order)' = SoldTo(x.order)
      <4> SUFFICES ASSUME x.kind = "cancel", x.at = "rows" PROVE x.order \in Orders \ {tx[t].order}
        OBVIOUS
      <4>1. x.order \in Orders
        BY <3>1 DEF TxInv, OrderInv
      <4> QED  BY <3>1, <4>1, NobodyOK DEF Apart
    <3>7. TxInv(x)'
      BY <3>1, <3>2, <3>3, <3>4, <3>5, <3>6, KeepTx
    <3> QED  BY <2>1, <3>7 DEF TxInv, AcquireInv, ReleaseInv, OrderInv, Good, SoldTo
  <2> QED  BY <2>2, <2>3
<1>4. ASSUME NEW p \in Txs, NEW q \in Txs, p # q
      PROVE  Apart(tx[p], tx[q])'
  <2>1. Apart(tx'[p], tx'[q])
    BY <1>1, <1>4, IdleOK DEF RowsInv
  <2> QED  BY <2>1 DEF Apart
<1> QED  BY <1>2, <1>3, <1>4

\* The limit is kept by whoever takes nothing.
LEMMA QuotaKept ==
  ASSUME RowsInv, \A u \in Users : Counted(u)' \subseteq Counted(u)
  PROVE  QuotaRespected'
<1> SUFFICES ASSUME NEW u \in Users
             PROVE  Cardinality(Counted(u)') <= MaxSeats
  BY DEF QuotaRespected, Counted
<1>1. Cardinality(Counted(u)') <= Cardinality(Counted(u)) /\ IsFiniteSet(Counted(u)')
  BY CountedFinite, FS_Subset
<1>2. Cardinality(Counted(u)) <= MaxSeats
  BY DEF RowsInv, QuotaRespected, Counted
<1>3. Cardinality(Counted(u)') \in Nat /\ Cardinality(Counted(u)) \in Nat
  BY <1>1, CountedFinite, FS_CardinalityType
<1> QED  BY <1>1, <1>2, <1>3, LimitsOK

\* The holds are written: the limit was counted under the lock.
LEMMA CommitHoldStep ==
  ASSUME RowsInv, NEW t \in Txs, CommitHold(t)
  PROVE  RowsInv'
<1>1. PICK x : x = tx[t]
  OBVIOUS
<1>2. /\ x.kind = "acquire" /\ x.at = "rows" /\ x.fits /\ x.got = x.want
      /\ seat' = SetOn(seat, x.want, "HELD")
      /\ heldBy' = SetOn(heldBy, x.want, x.user)
      /\ left' = SetOn(left, x.want, HoldTTL - x.lag)
      /\ tx' = [tx EXCEPT ![t] = Idle]
      /\ UNCHANGED <<item, unheld, status, buyer, seatIds>>
  BY <1>1 DEF CommitHold, Done, Write, Close, orders
<1>3. TxOK(x) /\ TxInv(x) /\ AcquireInv(x)
  BY <1>1, <1>2 DEF RowsInv, TxTypes, TxInv
<1>4. /\ x.user \in Users /\ x.want \subseteq Seats /\ x.lag \in 0..MaxLag
      /\ Cardinality(Counted(x.user)) + Cardinality(x.want) <= MaxSeats
      /\ \A s \in x.want : seat[s] # "BOOKED"
  BY <1>2, <1>3, Zenon DEF TxOK, AcquireInv, TxInv, Good
<1>5. \A s \in Seats :
        IF s \in x.want
        THEN seat'[s] = "HELD" /\ heldBy'[s] = x.user /\ left'[s] = HoldTTL - x.lag
        ELSE seat'[s] = seat[s] /\ heldBy'[s] = heldBy[s] /\ left'[s] = left[s]
  BY <1>2 DEF SetOn, RowsInv, RowTypes
<1>6. RowTypes'
  <2>1. HoldTTL - x.lag \in -(MaxLag + 1)..HoldTTL
    BY <1>4, LimitsOK
  <2>2. /\ seat' \in [Seats -> {"AVAILABLE", "HELD", "BOOKED"}]
        /\ heldBy' \in [Seats -> Users \union {NoUser}]
        /\ left' \in [Seats -> -(MaxLag + 1)..HoldTTL]
    BY <1>2, <1>4, <2>1 DEF SetOn, RowsInv, RowTypes
  <2> QED  BY <1>2, <1>4, <1>5, <2>2, NobodyOK DEF RowsInv, RowTypes
<1>7. OrderTypes' /\ ItemsDecided' /\ SeatsFollowOrders'
  BY <1>2, <1>4, <1>5 DEF RowsInv, OrderTypes, ItemsDecided, SeatsFollowOrders
<1>8. /\ \A u \in Users \ {x.user} : Counted(u)' \subseteq Counted(u)
      /\ Counted(x.user)' \subseteq Counted(x.user) \union x.want
  BY <1>2, <1>4, <1>5, <1>7 DEF Counted, ValidHold, Bought, RowsInv
<1>9. ASSUME NEW q \in Txs \ {t}, tx[q].kind = "acquire", tx[q].at = "rows"
      PROVE  Counted(tx[q].user)' \subseteq Counted(tx[q].user)
  <2>1. tx[q].user # x.user /\ tx[q].user \in Users
    BY <1>1, <1>2, <1>9 DEF RowsInv, Apart, TxInv, AcquireInv
  <2>2. PICK u \in Users \ {x.user} : u = tx[q].user
    BY <2>1
  <2> QED  BY <1>8, <2>2, <1>2, <1>9 DEF RowsInv, TxTypes, Counted, ValidHold, Bought
<1>10. QuotaRespected'
  <2> SUFFICES ASSUME NEW u \in Users
               PROVE  Cardinality(Counted(u)') <= MaxSeats
    BY DEF QuotaRespected, Counted
  <2>1. CASE u # x.user
    <3>1. Cardinality(Counted(u)') <= Cardinality(Counted(u)) /\ IsFiniteSet(Counted(u)')
      BY <1>8, <2>1, CountedFinite, FS_Subset
    <3>2. Cardinality(Counted(u)) <= MaxSeats
      BY DEF RowsInv, QuotaRespected, Counted
    <3> QED  BY <3>1, <3>2, CountedFinite, FS_CardinalityType, LimitsOK
  <2>2. CASE u = x.user
    <3>1. IsFiniteSet(x.want) /\ IsFiniteSet(Counted(u))
      BY <1>4, SeatsAreNumbers, CountedFinite, FS_Subset
    <3>2. IsFiniteSet(Counted(u) \union x.want) /\ IsFiniteSet(Counted(u) \intersect x.want)
      BY <3>1, FS_Union, FS_Subset
    <3>3. /\ Cardinality(Counted(u) \union x.want)
               = Cardinality(Counted(u)) + Cardinality(x.want)
                   - Cardinality(Counted(u) \intersect x.want)
      BY <3>1, FS_Union
    <3>4. /\ Cardinality(Counted(u)') <= Cardinality(Counted(u) \union x.want)
          /\ IsFiniteSet(Counted(u)')
      BY <1>8, <2>2, <3>2, FS_Subset
    <3>5. /\ Cardinality(Counted(u)') \in Nat /\ Cardinality(Counted(u)) \in Nat
          /\ Cardinality(x.want) \in Nat
          /\ Cardinality(Counted(u) \intersect x.want) \in Nat
      BY <3>1, <3>2, <3>4, FS_CardinalityType
    <3> QED  BY <1>4, <2>2, <3>3, <3>4, <3>5, LimitsOK
  <2> QED  BY <2>1, <2>2
<1>11. /\ TxTypes'
       /\ \A q \in Txs : TxInv(tx[q])'
       /\ \A p, q \in Txs : p # q => Apart(tx[p], tx[q])'
  <2>1. /\ \A s \in Seats \ x.got :
             seat'[s] = seat[s] /\ heldBy'[s] = heldBy[s] /\ left'[s] = left[s]
        /\ \A s \in Seats \ x.items : item'[s] = item[s]
        /\ \A o \in Orders : status'[o] = status[o]
    BY <1>2, <1>5
  <2>2. \A o \in Orders : SoldTo(o)' = SoldTo(o)
    BY <1>2, <1>4, <1>5 DEF SoldTo
  <2> QED  BY <1>1, <1>2, <1>9, <2>1, <2>2, CommitTx
<1> QED  BY <1>6, <1>7, <1>10, <1>11 DEF RowsInv

\* Seats are given back by release(), or with the order that did not come about.
LEMMA CommitReleaseStep ==
  ASSUME RowsInv, NEW t \in Txs, CommitRelease(t) \/ CommitClose(t)
  PROVE  RowsInv'
<1>1. PICK x : x = tx[t]
  OBVIOUS
<1>2. /\ x.kind \in {"release", "close"} /\ x.at = "rows"
      /\ seat' = SetOn(seat, x.got, "AVAILABLE")
      /\ heldBy' = SetOn(heldBy, x.got, NoUser)
      /\ left' = SetOn(left, x.got, 0)
      /\ tx' = [tx EXCEPT ![t] = Idle]
      /\ UNCHANGED <<item, unheld, buyer, seatIds>>
      /\ \/ UNCHANGED status
         \/ /\ x.kind = "close"
            /\ \E st \in {"FAILED", "CANCELED"} : status' = [status EXCEPT ![x.order] = st]
  BY <1>1 DEF CommitRelease, CommitClose, Done, Write, Close, orders
<1>3. TxOK(x) /\ TxInv(x)
  BY <1>1 DEF RowsInv, TxTypes
<1>4. x.got \subseteq Seats /\ \A s \in x.got : seat[s] = "HELD"
  BY <1>2, <1>3 DEF TxOK, TxInv, Good
<1>5. \A s \in Seats :
        IF s \in x.got
        THEN seat'[s] = "AVAILABLE" /\ heldBy'[s] = NoUser /\ left'[s] = 0
        ELSE seat'[s] = seat[s] /\ heldBy'[s] = heldBy[s] /\ left'[s] = left[s]
  BY <1>2 DEF SetOn, RowsInv, RowTypes
<1>6. RowTypes'
  <2>1. 0 \in -(MaxLag + 1)..HoldTTL
    BY LimitsOK
  <2>2. /\ seat' \in [Seats -> {"AVAILABLE", "HELD", "BOOKED"}]
        /\ heldBy' \in [Seats -> Users \union {NoUser}]
        /\ left' \in [Seats -> -(MaxLag + 1)..HoldTTL]
    BY <1>2, <2>1 DEF SetOn, RowsInv, RowTypes
  <2> QED  BY <1>2, <1>5, <2>2 DEF RowsInv, RowTypes
<1>7. /\ OrderTypes'
      /\ \A o \in Orders : \/ status'[o] = status[o]
                           \/ /\ o = x.order /\ status[o] = "PENDING"
                              /\ status'[o] \in {"FAILED", "CANCELED"}
  BY <1>2, <1>3 DEF TxInv, OrderInv, Expected, RowsInv, OrderTypes
<1>8. \A s \in Seats : item[s] # NoOrder => item[s] \in Orders /\ status'[item[s]] = status[item[s]]
  BY <1>7 DEF RowsInv, RowTypes, ItemsDecided
<1>9. ItemsDecided' /\ SeatsFollowOrders'
  BY <1>2, <1>4, <1>5, <1>7, <1>8 DEF RowsInv, ItemsDecided, SeatsFollowOrders
<1>10. \A u : u # NoUser => Counted(u)' \subseteq Counted(u)
  BY <1>2, <1>4, <1>5, <1>8 DEF Counted, ValidHold, Bought
<1>11. QuotaRespected'
  BY <1>10, NobodyOK, QuotaKept
<1>12. ASSUME NEW q \in Txs \ {t}, tx[q].kind = "acquire", tx[q].at = "rows"
       PROVE  Counted(tx[q].user)' \subseteq Counted(tx[q].user)
  <2>1. PICK u : u = tx[q].user /\ u = tx'[q].user /\ u # NoUser
    BY <1>2, <1>12, NobodyOK DEF RowsInv, TxTypes, TxInv, AcquireInv
  <2> QED  BY <1>10, <2>1 DEF Counted, ValidHold, Bought
<1>13. /\ TxTypes'
       /\ \A q \in Txs : TxInv(tx[q])'
       /\ \A p, q \in Txs : p # q => Apart(tx[p], tx[q])'
  <2>1. /\ \A s \in Seats \ x.got :
             seat'[s] = seat[s] /\ heldBy'[s] = heldBy[s] /\ left'[s] = left[s]
        /\ \A s \in Seats \ x.items : item'[s] = item[s]
        /\ \A o \in Orders : status'[o] = status[o] \/ (o = x.order /\ status'[o] # "NONE")
    BY <1>2, <1>5, <1>7
  <2>2. \A o \in Orders : SoldTo(o)' = SoldTo(o)
    BY <1>2, <1>4, <1>5 DEF SoldTo
  <2> QED  BY <1>1, <1>2, <1>12, <2>1, <2>2, CommitTx
<1> QED  BY <1>6, <1>7, <1>9, <1>11, <1>13 DEF RowsInv

\* The seats of the order are booked and no others; what the buyer holds of them
\* counts already, and what somebody else holds is on record in unheld.
LEMMA CommitConfirmStep ==
  ASSUME RowsInv, NEW t \in Txs, CommitConfirm(t)
  PROVE  RowsInv'
<1>1. PICK x : x = tx[t]
  OBVIOUS
<1>2. /\ x.kind = "confirm" /\ x.at = "rows" /\ x.got = x.want
      /\ seat' = SetOn(seat, x.want, "BOOKED")
      /\ heldBy' = SetOn(heldBy, x.want, NoUser)
      /\ left' = SetOn(left, x.want, 0)
      /\ item' = SetOn(item, x.items, x.order)
      /\ status' = [status EXCEPT ![x.order] = "PAID"]
      /\ unheld' = unheld \union {s \in x.want : ~ValidHold(s, x.user)}
      /\ tx' = [tx EXCEPT ![t] = Idle]
      /\ UNCHANGED <<buyer, seatIds>>
  BY <1>1 DEF CommitConfirm, CommitPaid, Done, Write, Close
<1>3. TxOK(x) /\ TxInv(x) /\ OrderInv(x)
  BY <1>1, <1>2 DEF RowsInv, TxTypes, TxInv
<1>4. /\ x.want \subseteq Seats /\ x.items = x.want /\ x.order \in Orders
      /\ x.user = buyer[x.order] /\ x.want = seatIds[x.order]
      /\ status[x.order] = "PENDING"
      /\ \A s \in x.want : item[s] = NoOrder /\ seat[s] = "HELD"
  BY <1>2, <1>3 DEF TxOK, TxInv, OrderInv, Expected, Good
<1>5. \A s \in Seats :
        IF s \in x.want
        THEN seat'[s] = "BOOKED" /\ heldBy'[s] = NoUser /\ left'[s] = 0 /\ item'[s] = x.order
        ELSE /\ seat'[s] = seat[s] /\ heldBy'[s] = heldBy[s] /\ left'[s] = left[s]
             /\ item'[s] = item[s]
  BY <1>2, <1>4 DEF SetOn, RowsInv, RowTypes
<1>6. RowTypes'
  <2>1. 0 \in -(MaxLag + 1)..HoldTTL
    BY LimitsOK
  <2>2. /\ seat' \in [Seats -> {"AVAILABLE", "HELD", "BOOKED"}]
        /\ heldBy' \in [Seats -> Users \union {NoUser}]
        /\ left' \in [Seats -> -(MaxLag + 1)..HoldTTL]
        /\ item' \in [Seats -> Orders \union {NoOrder}]
    BY <1>2, <1>4, <2>1 DEF SetOn, RowsInv, RowTypes
  <2> QED  BY <1>2, <1>4, <1>5, <2>2 DEF RowsInv, RowTypes
<1>7. /\ OrderTypes'
      /\ status'[x.order] = "PAID"
      /\ \A o \in Orders \ {x.order} : status'[o] = status[o]
  BY <1>2, <1>4 DEF RowsInv, OrderTypes
<1>8. \A s \in Seats : item[s] # NoOrder =>
        s \notin x.want /\ item[s] \in Orders \ {x.order} /\ status'[item[s]] = status[item[s]]
  BY <1>4, <1>7 DEF RowsInv, RowTypes, ItemsDecided
<1>9. ItemsDecided'
  BY <1>2, <1>4, <1>5, <1>7, <1>8 DEF RowsInv, ItemsDecided
<1>10. SeatsFollowOrders'
  <2>1. \A s \in Seats : seat'[s] = "BOOKED" <=> item'[s] # NoOrder /\ status'[item'[s]] = "PAID"
    BY <1>4, <1>5, <1>7, <1>8, NobodyOK DEF RowsInv, SeatsFollowOrders
  <2>2. ASSUME NEW o \in Orders, status'[o] = "PAID", NEW s \in seatIds'[o]
        PROVE  item'[s] = o
    <3>1. s \in Seats /\ seatIds'[o] = seatIds[o]
      BY <1>2 DEF RowsInv, OrderTypes
    <3>2. CASE o = x.order
      BY <1>4, <1>5, <3>1, <3>2
    <3>3. CASE o # x.order
      BY <1>4, <1>5, <1>7, <2>2, <3>1, <3>3, NobodyOK DEF RowsInv, SeatsFollowOrders
    <3> QED  BY <3>2, <3>3
  <2> QED  BY <2>1, <2>2 DEF SeatsFollowOrders
<1>11. \A u : u # NoUser => Counted(u)' \subseteq Counted(u)
  <2> SUFFICES ASSUME NEW u, u # NoUser, NEW s \in Seats, s \in Counted(u)'
               PROVE  s \in Counted(u)
    BY DEF Counted, Bought
  <2>1. CASE s \in x.want
    <3>1. buyer[x.order] = u /\ s \notin unheld'
      BY <1>2, <1>4, <1>5, <2>1 DEF Counted, ValidHold, Bought
    <3> QED  BY <1>2, <1>4, <2>1, <3>1 DEF Counted
  <2>2. CASE s \notin x.want
    BY <1>2, <1>5, <1>8, <2>2 DEF Counted, ValidHold, Bought
  <2> QED  BY <2>1, <2>2
<1>12. QuotaRespected'
  BY <1>11, NobodyOK, QuotaKept
<1>13. ASSUME NEW q \in Txs \ {t}, tx[q].kind = "acquire", tx[q].at = "rows"
       PROVE  Counted(tx[q].user)' \subseteq Counted(tx[q].user)
  <2>1. PICK u : u = tx[q].user /\ u = tx'[q].user /\ u # NoUser
    BY <1>2, <1>13, NobodyOK DEF RowsInv, TxTypes, TxInv, AcquireInv
  <2> QED  BY <1>11, <2>1 DEF Counted, ValidHold, Bought
<1>14. /\ TxTypes'
       /\ \A q \in Txs : TxInv(tx[q])'
       /\ \A p, q \in Txs : p # q => Apart(tx[p], tx[q])'
  <2>1. /\ \A s \in Seats \ x.got :
             seat'[s] = seat[s] /\ heldBy'[s] = heldBy[s] /\ left'[s] = left[s]
        /\ \A s \in Seats \ x.items : item'[s] = item[s]
        /\ \A o \in Orders : status'[o] = status[o] \/ (o = x.order /\ status'[o] # "NONE")
    BY <1>2, <1>4, <1>5, <1>7
  <2>2. \A o \in Orders \ {x.order} : SoldTo(o)' = SoldTo(o)
    BY <1>2, <1>4, <1>5, NobodyOK DEF SoldTo
  <2> QED  BY <1>1, <1>2, <1>13, <2>1, <2>2, CommitTx
<1> QED  BY <1>6, <1>7, <1>9, <1>10, <1>12, <1>14 DEF RowsInv

\* The seats of a canceled order, all of them and no others, are on sale again.
LEMMA CommitCancelStep ==
  ASSUME RowsInv, NEW t \in Txs, CommitCancel(t)
  PROVE  RowsInv'
<1>1. PICK x, o : x = tx[t] /\ o = x.order
  OBVIOUS
<1>2. /\ x.kind = "cancel" /\ x.at = "rows" /\ x.todo = {}
      /\ seat' = SetOn(seat, x.got, "AVAILABLE")
      /\ status' = [status EXCEPT ![o] = "CANCELED"]
      /\ tx' = [tx EXCEPT ![t] = Idle]
      /\ UNCHANGED <<heldBy, left, item, unheld, buyer, seatIds>>
  BY <1>1 DEF CommitCancel, Done, Close
<1>3. TxOK(x) /\ TxInv(x) /\ OrderInv(x)
  BY <1>1, <1>2 DEF RowsInv, TxTypes, TxInv
<1>4. /\ o \in Orders /\ status[o] = "PAID" /\ x.got = SoldTo(o)
  BY <1>1, <1>2, <1>3 DEF OrderInv, Expected, TxOK, TxInv, Good, SoldTo
<1>5. \A s \in Seats : IF s \in SoldTo(o) THEN seat'[s] = "AVAILABLE" ELSE seat'[s] = seat[s]
  BY <1>2, <1>4 DEF SetOn, RowsInv, RowTypes
<1>6. RowTypes'
  <2>1. seat' \in [Seats -> {"AVAILABLE", "HELD", "BOOKED"}]
    BY <1>2 DEF SetOn, RowsInv, RowTypes
  <2> QED  BY <1>2, <1>4, <1>5, <2>1 DEF RowsInv, RowTypes, SoldTo
<1>7. /\ OrderTypes' /\ status'[o] = "CANCELED"
      /\ \A k \in Orders \ {o} : status'[k] = status[k]
  BY <1>2, <1>4 DEF RowsInv, OrderTypes
<1>8. ItemsDecided'
  BY <1>2, <1>7 DEF RowsInv, RowTypes, ItemsDecided
<1>9. SeatsFollowOrders'
  <2>1. \A s \in Seats : seat'[s] = "BOOKED" <=> item'[s] # NoOrder /\ status'[item'[s]] = "PAID"
    BY <1>2, <1>4, <1>5, <1>7 DEF RowsInv, RowTypes, SeatsFollowOrders, SoldTo
  <2>2. \A k \in Orders : status'[k] = "PAID" => \A s \in seatIds'[k] : item'[s] = k
    BY <1>2, <1>4, <1>7 DEF RowsInv, SeatsFollowOrders
  <2> QED  BY <2>1, <2>2 DEF SeatsFollowOrders
<1>10. \A u : Counted(u)' \subseteq Counted(u)
  BY <1>2, <1>5, <1>7 DEF Counted, ValidHold, Bought, SoldTo, RowsInv, RowTypes
<1>11. QuotaRespected'
  BY <1>10, QuotaKept
<1>12. ASSUME NEW q \in Txs \ {t}, tx[q].kind = "acquire", tx[q].at = "rows"
       PROVE  Counted(tx[q].user)' \subseteq Counted(tx[q].user)
  <2>1. tx'[q].user = tx[q].user
    BY <1>2 DEF RowsInv, TxTypes
  <2> QED  BY <1>10, <2>1 DEF Counted, ValidHold, Bought
<1>13. /\ TxTypes'
       /\ \A q \in Txs : TxInv(tx[q])'
       /\ \A p, q \in Txs : p # q => Apart(tx[p], tx[q])'
  <2>1. /\ \A s \in Seats \ x.got :
             seat'[s] = seat[s] /\ heldBy'[s] = heldBy[s] /\ left'[s] = left[s]
        /\ \A s \in Seats \ x.items : item'[s] = item[s]
        /\ \A k \in Orders : status'[k] = status[k] \/ (k = o /\ status'[k] # "NONE")
    BY <1>2, <1>4, <1>5, <1>7
  <2>2. \A k \in Orders \ {o} : SoldTo(k)' = SoldTo(k)
    BY <1>2, <1>5 DEF SoldTo
  <2> QED  BY <1>1, <1>2, <1>12, <2>1, <2>2, CommitTx
<1> QED  BY <1>6, <1>7, <1>8, <1>9, <1>11, <1>13 DEF RowsInv

\* No transaction notices what happens to rows that are not locked and to orders
\* that are new.
LEMMA Unnoticed ==
  ASSUME RowsInv, UNCHANGED tx,
         \A t \in Txs : \A s \in tx[t].locked :
           seat'[s] = seat[s] /\ heldBy'[s] = heldBy[s] /\ left'[s] = left[s],
         UNCHANGED item,
         \A o \in Orders : status[o] # "NONE" =>
           buyer'[o] = buyer[o] /\ seatIds'[o] = seatIds[o] /\ status'[o] = status[o],
         \A o \in Orders : SoldTo(o)' = SoldTo(o),
         \A u : u # NoUser => Counted(u)' \subseteq Counted(u)
  PROVE  /\ TxTypes' /\ QuotaRespected'
         /\ \A t \in Txs : TxInv(tx[t])'
         /\ \A p, q \in Txs : p # q => Apart(tx[p], tx[q])'
<1>1. TxTypes' /\ (\A p, q \in Txs : p # q => Apart(tx[p], tx[q])')
  BY DEF RowsInv, TxTypes, TxOK, Apart
<1>2. QuotaRespected'
  BY NobodyOK, QuotaKept
<1>3. ASSUME NEW t \in Txs
      PROVE  TxInv(tx[t])'
  <2>1. PICK x : x = tx[t]
    OBVIOUS
  <2>2. TxOK(x) /\ TxInv(x)
    BY <2>1 DEF RowsInv, TxTypes
  <2>3. x.order \in Orders =>
          /\ buyer'[x.order] = buyer[x.order] /\ seatIds'[x.order] = seatIds[x.order]
          /\ status'[x.order] = status[x.order]
    <3> SUFFICES ASSUME x.order \in Orders PROVE status[x.order] # "NONE"
      OBVIOUS
    <3>1. x.kind \in {"confirm", "close", "cancel"}
      BY <2>2, NobodyOK, IdleOK DEF TxInv, AcquireInv, ReleaseInv, TxOK, Kinds, Idle
    <3> QED  BY <2>2, <3>1 DEF TxInv, OrderInv
  <2>4. x.kind = "acquire" /\ x.at = "rows" => Counted(x.user)' \subseteq Counted(x.user)
    BY <2>2, NobodyOK DEF TxInv, AcquireInv
  <2>5. TxInv(x)'
    BY <2>1, <2>2, <2>3, <2>4, KeepTx DEF TxInv, OrderInv
  <2>6. x = tx'[t]
    BY <2>1
  <2> QED  BY <2>5, <2>6 DEF TxInv, AcquireInv, ReleaseInv, OrderInv, Good, SoldTo
<1> QED  BY <1>1, <1>2, <1>3

\* The sweep passes by rows that are locked, and takes what counts for nobody.
LEMMA SweepStep ==
  ASSUME RowsInv, NEW S \in SUBSET Seats, SweepExpiredHolds(S)
  PROVE  RowsInv'
<1>1. /\ \A s \in S : FreeForSweep(s)
      /\ seat' = SetOn(seat, S, "AVAILABLE")
      /\ heldBy' = SetOn(heldBy, S, NoUser)
      /\ left' = SetOn(left, S, 0)
      /\ UNCHANGED <<item, unheld, status, buyer, seatIds, tx>>
  BY DEF SweepExpiredHolds, Write, orders
<1>2. \A s \in S : /\ seat[s] = "HELD" /\ left[s] < 0
                   /\ \A t \in Txs : s \notin tx[t].locked
  BY <1>1 DEF FreeForSweep, Expired
<1>3. \A s \in Seats :
        IF s \in S
        THEN seat'[s] = "AVAILABLE" /\ heldBy'[s] = NoUser /\ left'[s] = 0
        ELSE seat'[s] = seat[s] /\ heldBy'[s] = heldBy[s] /\ left'[s] = left[s]
  BY <1>1 DEF SetOn, RowsInv, RowTypes
<1>4. RowTypes'
  <2>1. 0 \in -(MaxLag + 1)..HoldTTL
    BY LimitsOK
  <2>2. /\ seat' \in [Seats -> {"AVAILABLE", "HELD", "BOOKED"}]
        /\ heldBy' \in [Seats -> Users \union {NoUser}]
        /\ left' \in [Seats -> -(MaxLag + 1)..HoldTTL]
    BY <1>1, <2>1 DEF SetOn, RowsInv, RowTypes
  <2> QED  BY <1>1, <1>3, <2>2 DEF RowsInv, RowTypes
<1>5. OrderTypes' /\ ItemsDecided' /\ SeatsFollowOrders'
  BY <1>1, <1>2, <1>3 DEF RowsInv, OrderTypes, ItemsDecided, SeatsFollowOrders
<1>6. \A u : u # NoUser => Counted(u)' \subseteq Counted(u)
  BY <1>1, <1>2, <1>3 DEF Counted, ValidHold, Bought
<1>7. \A t \in Txs : \A s \in tx[t].locked :
        seat'[s] = seat[s] /\ heldBy'[s] = heldBy[s] /\ left'[s] = left[s]
  BY <1>2, <1>3 DEF RowsInv, TxTypes, TxOK
<1>8. \A o \in Orders : SoldTo(o)' = SoldTo(o)
  BY <1>1, <1>2, <1>3 DEF SoldTo
<1>9. /\ TxTypes' /\ QuotaRespected'
      /\ \A t \in Txs : TxInv(tx[t])'
      /\ \A p, q \in Txs : p # q => Apart(tx[p], tx[q])'
  BY <1>1, <1>6, <1>7, <1>8, Unnoticed
<1> QED  BY <1>4, <1>5, <1>9 DEF RowsInv

\* An order is opened for seats that are held.
LEMMA OpenOrderStep ==
  ASSUME RowsInv, NEW o \in Orders, NEW u \in Users, NEW S \in Wishes, OpenOrder(o, u, S)
  PROVE  RowsInv'
<1>1. /\ status[o] = "NONE"
      /\ status' = [status EXCEPT ![o] = "PENDING"]
      /\ buyer' = [buyer EXCEPT ![o] = u]
      /\ seatIds' = [seatIds EXCEPT ![o] = S]
      /\ UNCHANGED <<seat, heldBy, left, item, unheld, tx>>
  BY DEF OpenOrder, rows
<1>2. RowTypes' /\ OrderTypes'
  BY <1>1, WishesOK DEF RowsInv, RowTypes, OrderTypes
<1>3. /\ status'[o] = "PENDING"
      /\ \A x \in Orders \ {o} :
           status'[x] = status[x] /\ buyer'[x] = buyer[x] /\ seatIds'[x] = seatIds[x]
  BY <1>1 DEF RowsInv, OrderTypes
<1>4. \A s \in Seats : item[s] # NoOrder => item[s] \in Orders \ {o}
  BY <1>1 DEF RowsInv, RowTypes, ItemsDecided
<1>5. ItemsDecided' /\ SeatsFollowOrders'
  BY <1>1, <1>3, <1>4 DEF RowsInv, ItemsDecided, SeatsFollowOrders
<1>6. \A v : v # NoUser => Counted(v)' \subseteq Counted(v)
  BY <1>1, <1>3, <1>4 DEF Counted, ValidHold, Bought
<1>7. /\ TxTypes' /\ QuotaRespected'
      /\ \A t \in Txs : TxInv(tx[t])'
      /\ \A p, q \in Txs : p # q => Apart(tx[p], tx[q])'
  BY <1>1, <1>3, <1>6, Unnoticed DEF RowsInv, RowTypes, TxTypes, TxOK, SoldTo
<1> QED  BY <1>2, <1>5, <1>7 DEF RowsInv

\* Time goes by for a hold and for the transaction that judges it by its own now().
LEMMA TickStep ==
  ASSUME RowsInv, Tick
  PROVE  RowsInv'
<1>1. /\ \A t \in Txs : UsesNow(tx[t]) => tx[t].lag < MaxLag
      /\ \A s \in Seats : left'[s] = IF seat[s] = "HELD" /\ left[s] >= -MaxLag
                                     THEN left[s] - 1 ELSE left[s]
      /\ DOMAIN left' = Seats
      /\ tx' = [t \in Txs |-> IF UsesNow(tx[t]) THEN [tx[t] EXCEPT !.lag = @ + 1] ELSE tx[t]]
      /\ UNCHANGED <<seat, heldBy, item, unheld, status, buyer, seatIds>>
  BY DEF Tick, orders
<1>2. RowTypes' /\ OrderTypes'
  <2>1. \A s \in Seats : left'[s] \in -(MaxLag + 1)..HoldTTL
    BY <1>1, LimitsOK DEF RowsInv, RowTypes
  <2>2. left' \in [Seats -> -(MaxLag + 1)..HoldTTL]
    BY <2>1 DEF Tick
  <2>3. \A s \in Seats : seat'[s] # "HELD" => left'[s] = 0
    BY <1>1 DEF RowsInv, RowTypes
  <2> QED  BY <1>1, <2>2, <2>3 DEF RowsInv, RowTypes, OrderTypes
<1>3. \A u : Counted(u)' \subseteq Counted(u)
  BY <1>1 DEF Counted, ValidHold, Bought, RowsInv, RowTypes
<1>4. ItemsDecided' /\ SeatsFollowOrders' /\ QuotaRespected'
  BY <1>1, <1>3, QuotaKept DEF RowsInv, ItemsDecided, SeatsFollowOrders
<1>5. ASSUME NEW t \in Txs
      PROVE  \E x, y : /\ x = tx[t] /\ y = tx'[t] /\ TxOK(x) /\ TxInv(x)
                       /\ y.kind = x.kind /\ y.at = x.at /\ y.user = x.user /\ y.order = x.order
                       /\ y.want = x.want /\ y.fits = x.fits /\ y.todo = x.todo
                       /\ y.got = x.got /\ y.locked = x.locked /\ y.items = x.items
                       /\ IF UsesNow(x) THEN x.lag < MaxLag /\ y.lag = x.lag + 1 ELSE y = x
  <2>1. PICK x, y : x = tx[t] /\ y = tx'[t]
    OBVIOUS
  <2>2. y = IF UsesNow(x) THEN [x EXCEPT !.lag = @ + 1] ELSE x
    BY <1>1, <2>1
  <2>3. TxOK(x) /\ TxInv(x)
    BY <2>1 DEF RowsInv, TxTypes
  <2>4. /\ y.kind = x.kind /\ y.at = x.at /\ y.user = x.user /\ y.order = x.order
        /\ y.want = x.want /\ y.fits = x.fits /\ y.todo = x.todo
        /\ y.got = x.got /\ y.locked = x.locked /\ y.items = x.items
    BY <2>2, <2>3 DEF TxOK
  <2>5. IF UsesNow(x) THEN x.lag < MaxLag /\ y.lag = x.lag + 1 ELSE y = x
    <3>1. CASE UsesNow(x)
      <4>1. y = [x EXCEPT !.lag = @ + 1]
        BY <2>2, <3>1
      <4>2. y.lag = x.lag + 1
        BY <2>3, <4>1 DEF TxOK
      <4> QED  BY <1>1, <2>1, <3>1, <4>2
    <3>2. CASE ~UsesNow(x)
      BY <2>2, <3>2
    <3> QED  BY <3>1, <3>2
  <2> QED  BY <2>1, <2>3, <2>4, <2>5
<1>6. ASSUME NEW t \in Txs
      PROVE  TxOK(tx[t])' /\ TxInv(tx[t])'
  <2>1. PICK x, y : /\ x = tx[t] /\ y = tx'[t] /\ TxOK(x) /\ TxInv(x)
                    /\ y.kind = x.kind /\ y.at = x.at /\ y.user = x.user /\ y.order = x.order
                    /\ y.want = x.want /\ y.fits = x.fits /\ y.todo = x.todo
                    /\ y.got = x.got /\ y.locked = x.locked /\ y.items = x.items
                    /\ IF UsesNow(x) THEN x.lag < MaxLag /\ y.lag = x.lag + 1 ELSE y = x
    BY <1>5
  <2>2. y.lag \in 0..MaxLag
    BY <2>1, LimitsOK DEF TxOK
  <2>3. y.kind = "none" <=> y = Idle
    BY <2>1, IdleOK DEF TxOK, UsesNow
  <2>4. TxOK(y)
    BY <2>1, <2>2, <2>3 DEF TxOK
  <2>5. y.kind = "acquire" => AcquireInv(y)'
    <3> SUFFICES ASSUME y.kind = "acquire" PROVE AcquireInv(y)'
      OBVIOUS
    <3>1. AcquireInv(x)
      BY <2>1 DEF TxInv
    <3>2. y.at = "rows" /\ y.fits =>
            Cardinality(Counted(y.user)') + Cardinality(y.want) <= MaxSeats
      <4> SUFFICES ASSUME x.at = "rows", x.fits
                   PROVE  Cardinality(Counted(y.user)') + Cardinality(y.want) <= MaxSeats
        BY <2>1, Zenon
      <4>1. Cardinality(Counted(x.user)) + Cardinality(x.want) <= MaxSeats
        BY <3>1 DEF AcquireInv
      <4>2. Cardinality(Counted(x.user)') <= Cardinality(Counted(x.user))
        BY <1>3, CountedFinite, FS_Subset
      <4>3. IsFiniteSet(x.want) /\ IsFiniteSet(Counted(x.user)')
        BY <1>3, <2>1, SeatsAreNumbers, CountedFinite, FS_Subset DEF TxOK
      <4>4. /\ Cardinality(Counted(x.user)') \in Nat /\ Cardinality(Counted(x.user)) \in Nat
            /\ Cardinality(x.want) \in Nat
        BY <4>3, CountedFinite, FS_CardinalityType
      <4> QED  BY <2>1, <4>1, <4>2, <4>4, LimitsOK
    <3> QED  BY <2>1, <3>1, <3>2 DEF AcquireInv
  <2>6. y.kind = "release" => ReleaseInv(y)'
    BY <2>1 DEF TxInv, ReleaseInv
  <2>7. y.kind \in {"confirm", "close", "cancel"} => OrderInv(y)'
    <3>1. SoldTo(x.order)' = SoldTo(x.order)
      BY <1>1 DEF SoldTo
    <3>2. x.kind \in {"confirm", "close", "cancel"} => OrderInv(x)
      BY <2>1 DEF TxInv
    <3> QED  BY <1>1, <2>1, <3>1, <3>2 DEF OrderInv, Expected, SoldTo
  <2>8. \A s \in y.got : Good(y, s)'
    <3> SUFFICES ASSUME NEW s \in x.got PROVE Good(y, s)'
      BY <2>1
    <3>1. s \in Seats /\ Good(x, s) /\ x.lag \in 0..MaxLag
      BY <2>1 DEF TxInv, TxOK
    <3>2. CASE x.kind = "acquire"
      <4>1. y.lag = x.lag + 1 /\ y.lag <= MaxLag
        BY <2>1, <2>2, <3>2 DEF UsesNow
      <4>2. seat'[s] = "HELD" /\ left[s] + x.lag < 0 => left'[s] + y.lag < 0
        BY <1>1, <3>1, <4>1, LimitsOK DEF RowsInv, RowTypes
      <4> QED  BY <1>1, <2>1, <3>1, <3>2, <4>2 DEF Good
    <3>3. CASE x.kind # "acquire"
      BY <1>1, <2>1, <3>1, <3>3 DEF Good
    <3> QED  BY <3>2, <3>3
  <2>9. TxInv(y)'
    BY <1>1, <2>1, <2>5, <2>6, <2>7, <2>8 DEF TxInv
  <2> QED
    <3>1. y = tx'[t]
      BY <2>1
    <3> QED  BY <2>4, <2>9, <3>1 DEF TxOK, TxInv, AcquireInv, ReleaseInv, OrderInv, Good, SoldTo
<1>7. ASSUME NEW p \in Txs, NEW q \in Txs, p # q
      PROVE  Apart(tx[p], tx[q])'
  BY <1>5, <1>7 DEF RowsInv, Apart
<1>8. DOMAIN tx' = Txs
  BY <1>1
<1> QED  BY <1>2, <1>4, <1>6, <1>7, <1>8 DEF RowsInv, TxTypes

-----------------------------------------------------------------------------
\* A step that changes nothing.
LEMMA StutterStep ==
  ASSUME RowsInv, UNCHANGED vars
  PROVE  RowsInv'
<1>1. UNCHANGED <<seat, heldBy, left, item, unheld, status, buyer, seatIds, tx>>
  BY DEF vars, rows, orders
<1>2. RowTypes' /\ OrderTypes' /\ ItemsDecided' /\ SeatsFollowOrders'
  BY <1>1 DEF RowsInv, RowTypes, OrderTypes, ItemsDecided, SeatsFollowOrders
<1>3. \A u : Counted(u)' \subseteq Counted(u)
  BY <1>1 DEF Counted, ValidHold, Bought
<1>4. \A o \in Orders : SoldTo(o)' = SoldTo(o)
  BY <1>1 DEF SoldTo
<1> QED  BY <1>1, <1>2, <1>3, <1>4, Unnoticed DEF RowsInv

\* Every step keeps RowsInv.
LEMMA RowsStep ==
  ASSUME RowsInv, [Next]_vars
  PROVE  RowsInv'
<1>1. CASE \E t \in Txs, u \in Users, S \in Wishes : BeginAcquire(t, u, S)
  BY <1>1, BeginAcquireStep
<1>2. CASE \E t \in Txs, u \in Users, S \in Wishes : BeginRelease(t, u, S)
  BY <1>2, BeginReleaseStep
<1>3. CASE \E t \in Txs, o \in Orders, k \in {"confirm", "close", "cancel"} : BeginOrder(t, k, o)
  BY <1>3, BeginOrderStep
<1>4. CASE \E S \in SUBSET Seats : SweepExpiredHolds(S)
  BY <1>4, SweepStep
<1>5. CASE \E o \in Orders, u \in Users, S \in Wishes : OpenOrder(o, u, S)
  BY <1>5, OpenOrderStep
<1>6. CASE \E t \in Txs : Rollback(t)
  BY <1>6, RollbackStep
<1>7. CASE \E t \in Txs : Work(t)
  <2>1. PICK t \in Txs : Work(t)
    BY <1>7
  <2>2. CASE RejectHold(t) \/ MarkNothing(t) \/ ItemTaken(t) \/ ConfirmTooFew(t)
    BY <2>2, RollbackStep DEF RejectHold, MarkNothing, ItemTaken, ConfirmTooFew
  <2>3. CASE HoldSeats(t) \/ MarkPaid(t) \/ MarkClosed(t) \/ MarkCanceled(t) \/ InsertItems(t)
    BY <2>3, HoldSeatsStep, MarkStep, InsertItemsStep
  <2>4. CASE \/ CommitHold(t) \/ CommitRelease(t) \/ CommitConfirm(t)
             \/ CommitClose(t) \/ CommitCancel(t)
    BY <2>4, CommitHoldStep, CommitReleaseStep, CommitConfirmStep, CommitCancelStep
  <2>5. CASE BookOrderSeats(t)
    BY <2>5, ShareStep
  <2>6. CASE \E s \in Seats : VisitRow(t, s) \/ CheckForeignKey(t, s)
    BY <2>6, VisitRowStep, ShareStep
  <2> QED  BY <2>1, <2>2, <2>3, <2>4, <2>5, <2>6 DEF Work
<1>8. CASE Tick
  BY <1>8, TickStep
<1>9. CASE UNCHANGED vars
  BY <1>9, StutterStep
<1> QED  BY <1>1, <1>2, <1>3, <1>4, <1>5, <1>6, <1>7, <1>8, <1>9 DEF Next

-----------------------------------------------------------------------------
(* What follows.                                                           *)

\* RowsInv holds in every reachable state.
THEOREM RowsInvariant == Spec => []RowsInv
BY RowsStart, RowsStep, PTL DEF Spec

\* The schema, and that a transaction stays with what it was asked for.
THEOREM RowsTyped == Spec => []TypeOK
<1>1. RowsInv => TypeOK
  BY TypesAre DEF RowsInv
<1> QED  BY <1>1, RowsInvariant, PTL

\* The purchase limit holds for any number of requests at the same time, on whatever
\* seats (lock_user_quota, queries.py:208).
THEOREM LimitHolds == Spec => []QuotaRespected
<1>1. RowsInv => QuotaRespected
  BY DEF RowsInv
<1> QED  BY <1>1, RowsInvariant, PTL

\* Seats and orders agree at every commit, statement by statement.
THEOREM RowsFollowOrders == Spec => []SeatsFollowOrders
<1>1. RowsInv => SeatsFollowOrders
  BY DEF RowsInv
<1> QED  BY <1>1, RowsInvariant, PTL

\* There is a least number in a set of numbers that is not empty.
LEMMA LeastNumber ==
  ASSUME NEW T \in SUBSET Nat, T # {}
  PROVE  \E n \in T : \A m \in T : n <= m
<1>1. PICK n \in T : \A m \in T : <<m, n>> \notin OpToRel(<, Nat)
  BY NatLessThanWellFounded, WFMin
<1>2. \A m \in T : ~(m < n)
  BY <1>1 DEF OpToRel
<1> QED  BY <1>2

\* Whatever part of the seats has a last one.
LEMMA LastSeat ==
  ASSUME NEW D \in SUBSET Seats, D # {}
  PROVE  \E d \in D : \A e \in D : e <= d
<1> DEFINE Rest(d) == {e \in Seats : e > d}
           T == {Cardinality(Rest(d)) : d \in D}
<1>1. \A d \in Seats : IsFiniteSet(Rest(d)) /\ Cardinality(Rest(d)) \in Nat
  BY SeatsAreNumbers, FS_Subset, FS_CardinalityType
<1>2. PICK d \in D : \A e \in D : Cardinality(Rest(d)) <= Cardinality(Rest(e))
  <2>1. T \in SUBSET Nat /\ T # {}
    BY <1>1
  <2>2. PICK n \in T : \A m \in T : n <= m
    BY <2>1, LeastNumber
  <2> QED  BY <2>2
<1>3. ASSUME NEW e \in D, e > d
      PROVE  FALSE
  <2>1. d \in Nat /\ e \in Nat /\ d \in Seats /\ e \in Seats
    BY SeatsAreNumbers
  <2>2. Rest(e) \subseteq Rest(d) /\ e \in Rest(d) /\ e \notin Rest(e)
    <3>1. \A x \in Seats : x \in Nat
      BY SeatsAreNumbers
    <3>2. \A x \in Seats : x > e => x > d
      BY <1>3, <2>1, <3>1
    <3>3. e > d /\ ~(e > e)
      BY <1>3, <2>1
    <3> QED  BY <2>1, <3>2, <3>3
  <2>3. Cardinality(Rest(e)) <= Cardinality(Rest(d)) /\ Cardinality(Rest(e)) # Cardinality(Rest(d))
    BY <1>1, <2>1, <2>2, FS_Subset
  <2>4. Cardinality(Rest(d)) <= Cardinality(Rest(e))
    BY <1>2
  <2>5. Cardinality(Rest(d)) \in Nat /\ Cardinality(Rest(e)) \in Nat
    BY <1>1, <2>1
  <2> QED  BY <2>3, <2>4, <2>5
<1> QED  BY <1>3, SeatsAreNumbers

\* Among transactions that hold seats, the one that waits for the last row waits for
\* nobody of them: whoever has that row needs a row behind it (queries.py:269).
THEOREM HoldsDoNotDeadlock == Spec => []NoHoldDeadlock
<1>1. RowsInv => NoHoldDeadlock
  <2> SUFFICES ASSUME RowsInv,
                      NEW T \in SUBSET {t \in Txs : tx[t].kind = "acquire"}, T # {},
                      \A t \in T : \E q \in T : WaitsFor(t, q)
               PROVE  FALSE
    BY DEF NoHoldDeadlock
  <2>1. \A t \in T : /\ AcquireInv(tx[t]) /\ tx[t].kind = "acquire"
                     /\ tx[t].todo \subseteq Seats /\ tx[t].locked \subseteq Seats
    BY DEF RowsInv, TxInv, TxTypes, TxOK
  <2>2. ASSUME NEW t \in T, tx[t].at = "rows"
        PROVE  \E q \in T : /\ tx[q].at = "rows"
                            /\ \E s \in NextRows(t) : s \in tx[q].locked
    <3>1. PICK q \in T : WaitsFor(t, q)
      OBVIOUS
    <3>2. PICK s \in NextRows(t) : Blocks(q, t, s)
      BY <2>2, <3>1 DEF WaitsFor
    <3>3. KeyShared(q) = {}
      BY <2>1 DEF KeyShared, AcquireInv
    <3>4. s \in tx[q].locked
      BY <3>2, <3>3 DEF Blocks
    <3>5. tx[q].at = "rows"
      BY <2>1, <3>4 DEF AcquireInv
    <3> QED  BY <3>4, <3>5
  <2> DEFINE D == UNION {NextRows(t) : t \in {x \in T : tx[x].at = "rows"}}
  <2>3. \A t \in T : NextRows(t) \subseteq tx[t].todo
    BY <2>1 DEF NextRows
  <2>4. D # {}
    <3>1. PICK t \in T : TRUE
      OBVIOUS
    <3>2. PICK q \in T : tx[q].at = "rows"
      <4>1. CASE tx[t].at = "rows"
        BY <4>1
      <4>2. CASE tx[t].at = "quota"
        <5>1. PICK q \in T : WaitsFor(t, q)
          OBVIOUS
        <5>2. tx[q].at # "quota"
          BY <4>2, <5>1 DEF WaitsFor, HasQuota
        <5> QED  BY <2>1, <5>2 DEF AcquireInv
      <4> QED  BY <2>1, <4>1, <4>2 DEF AcquireInv
    <3> QED  BY <2>2, <3>2
  <2>5. D \in SUBSET Seats
    BY <2>1, <2>3
  <2>6. PICK d \in D : \A e \in D : e <= d
    BY <2>4, <2>5, LastSeat
  <2>7. PICK t \in T : tx[t].at = "rows" /\ d \in NextRows(t)
    BY <2>6
  <2>8. PICK q \in T : tx[q].at = "rows" /\ d \in tx[q].locked
    <3>1. PICK q \in T, s \in NextRows(t) : tx[q].at = "rows" /\ s \in tx[q].locked
      BY <2>2, <2>7
    <3>2. s <= d /\ d <= s /\ s \in Seats /\ d \in Seats
      BY <2>1, <2>7, <3>1 DEF NextRows
    <3>3. s \in Nat /\ d \in Nat
      BY <3>2, SeatsAreNumbers
    <3>4. s = d
      BY <3>2, <3>3
    <3> QED  BY <3>1, <3>4
  <2>9. PICK e \in NextRows(q) : TRUE
    BY <2>2, <2>8
  <2>10. e \in D /\ d < e
    BY <2>1, <2>3, <2>8, <2>9 DEF AcquireInv
  <2>11. d \in Nat /\ e \in Nat /\ e <= d
    BY <2>5, <2>6, <2>10, SeatsAreNumbers
  <2> QED  BY <2>10, <2>11
<1> QED  BY <1>1, RowsInvariant, PTL

\* A valid hold is lost to a transaction of its holder or to a confirmation, and to
\* nothing else that happens (release_hold, queries.py:338).
THEOREM HoldOutlives == Spec => HoldOutlivesOthers
<1> DEFINE Own == \A s \in Seats, u \in Users : Lost(s, u) =>
                    \E t \in Txs : /\ tx[t] # Idle /\ tx'[t] = Idle
                                   /\ tx[t].user = u \/ tx[t].kind = "confirm"
<1>1. RowsInv /\ [Next]_vars => Own
  <2> SUFFICES ASSUME RowsInv, [Next]_vars, NEW s \in Seats, NEW u \in Users, Lost(s, u)
               PROVE  \E t \in Txs : /\ tx[t] # Idle /\ tx'[t] = Idle
                                     /\ tx[t].user = u \/ tx[t].kind = "confirm"
    OBVIOUS
  <2>1. /\ seat[s] = "HELD" /\ heldBy[s] = u /\ left[s] > 0
        /\ ~(seat'[s] = seat[s] /\ heldBy'[s] = heldBy[s])
    BY DEF Lost, ValidHold
  <2>2. CASE UNCHANGED rows \/ Tick
    BY <2>1, <2>2 DEF rows, Tick
  <2>3. CASE \E S \in SUBSET Seats : SweepExpiredHolds(S)
    <3>1. PICK S \in SUBSET Seats : SweepExpiredHolds(S)
      BY <2>3
    <3>2. s \in S
      BY <2>1, <3>1 DEF SweepExpiredHolds, Write, SetOn, RowsInv, RowTypes
    <3>3. left[s] < 0 /\ left[s] \in Int
      BY <3>1, <3>2, LimitsOK DEF SweepExpiredHolds, FreeForSweep, Expired, RowsInv, RowTypes
    <3> QED  BY <2>1, <3>3
  <2>4. CASE \E t \in Txs : CommitHold(t) \/ CommitRelease(t) \/ CommitClose(t) \/ CommitConfirm(t)
    <3>1. PICK t \in Txs : CommitHold(t) \/ CommitRelease(t) \/ CommitClose(t) \/ CommitConfirm(t)
      BY <2>4
    <3>2. tx[t].at = "rows" /\ tx'[t] = Idle
      BY <3>1 DEF CommitHold, CommitRelease, CommitClose, CommitConfirm, CommitPaid, Done, Close, RowsInv, TxTypes
    <3>3. tx[t] # Idle
      BY <3>2, IdleOK
    <3>4. s \in tx[t].got
      BY <2>1, <3>1
         DEF CommitHold, CommitRelease, CommitClose, CommitConfirm, CommitPaid, Write, SetOn, RowsInv, RowTypes
    <3>5. Good(tx[t], s) /\ TxOK(tx[t])
      BY <3>4 DEF RowsInv, TxInv, TxTypes
    <3>6. CASE tx[t].kind = "acquire"
      <4>1. left[s] + tx[t].lag < 0 /\ left[s] \in Int /\ tx[t].lag \in Nat
        BY <2>1, <3>5, <3>6, LimitsOK DEF Good, TxOK, RowsInv, RowTypes
      <4> QED  BY <2>1, <4>1
    <3>7. CASE tx[t].kind # "acquire"
      BY <2>1, <3>2, <3>3, <3>5, <3>7 DEF Good
    <3> QED  BY <3>6, <3>7
  <2>5. CASE \E t \in Txs : CommitCancel(t)
    <3>1. PICK t \in Txs : CommitCancel(t)
      BY <2>5
    <3>2. s \in tx[t].got /\ tx[t].kind = "cancel"
      BY <2>1, <3>1 DEF CommitCancel, SetOn, RowsInv, RowTypes
    <3>3. seat[s] = "BOOKED"
      BY <3>2 DEF RowsInv, TxInv, Good
    <3> QED  BY <2>1, <3>3
  <2> QED  BY <2>2, <2>3, <2>4, <2>5
      DEF Next, vars, Work, BeginAcquire, BeginRelease, BeginOrder, Begin, OpenOrder, Rollback,
          HoldSeats, SnapshotHold, RejectHold, MarkPaid, MarkClosed, MarkCanceled, MarkNothing, InsertItems, ItemTaken,
          BookOrderSeats, ConfirmTooFew, VisitRow, LockRow, CheckForeignKey
<1>2. Spec => [][Own]_vars
  BY <1>1, RowsInvariant, PTL DEF Spec
<1> QED  BY <1>2 DEF HoldOutlivesOthers
=============================================================================
