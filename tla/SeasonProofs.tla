---------------------------- MODULE SeasonProofs ----------------------------
(***************************************************************************)
(* What is proved of Season, for any rows, layouts, orders, handlers and   *)
(* days: what is on sale, what was charged, what was given back and when.  *)
(***************************************************************************)
EXTENDS SeasonProps, FiniteSetTheorems, TLAPS

-----------------------------------------------------------------------------
(* The policy.                                                             *)

\* Dates do not go back.
LEMMA DatesInOrder ==
  ASSUME NEW t \in Nat, NEW u \in Nat, t <= u
  PROVE  /\ t \div Day \in Int /\ u \div Day \in Int
         /\ t \div Day <= u \div Day
BY DayOK

\* The tier by the days that are left.
LEMMA TierIs ==
  ASSUME NEW d \in Int, d >= 1
  PROVE  TierOf(d) = IF d >= 8 THEN 1 ELSE IF d >= 3 THEN 2 ELSE 3
BY DEF TierOf, Tiers

\* There is no gap between the tiers and the day of the show.
LEMMA ClosedIs ==
  ASSUME NEW t \in Nat, NEW u \in Nat
  PROVE  CancelClosed(t, u) <=> DaysUntilShow(t, u) < 1
BY DayOK, DatesInOrder DEF CancelClosed, DaysUntilShow, Tiers

\* The fee is a part of the amount, and does not get less with the days.
LEMMA FeeOK ==
  ASSUME NEW n \in Nat, NEW t \in Nat, NEW u \in Nat, NEW s \in Nat,
         ~CancelClosed(t, s), ~CancelClosed(u, s), t <= u
  PROVE  /\ CancelFee(n, t, s) \in 0..n
         /\ CancelFee(n, t, s) <= CancelFee(n, u, s)
<1> DEFINE d == DaysUntilShow(t, s)
           e == DaysUntilShow(u, s)
<1>1. d \in Int /\ e \in Int /\ e <= d
  BY DatesInOrder, DayOK DEF DaysUntilShow
<1>2. d >= 1 /\ e >= 1
  BY <1>1, ClosedIs
<1>3. /\ Tiers[TierOf(d)].percent = IF d >= 8 THEN 0 ELSE IF d >= 3 THEN 10 ELSE 20
      /\ Tiers[TierOf(e)].percent = IF e >= 8 THEN 0 ELSE IF e >= 3 THEN 10 ELSE 20
  <2> HIDE DEF d, e
  <2> QED  BY <1>1, <1>2, TierIs DEF Tiers
<1> QED
  <2> HIDE DEF d, e
  <2>1. /\ CancelFee(n, t, s) = (n * Tiers[TierOf(d)].percent) \div 100
        /\ CancelFee(n, u, s) = (n * Tiers[TierOf(e)].percent) \div 100
    BY DEF CancelFee, d, e
  <2> QED  BY <2>1, <1>1, <1>2, <1>3

-----------------------------------------------------------------------------
(* What is on sale.                                                        *)

StockTypes ==
  /\ physical \in SUBSET Seats
  /\ price \in [Seats -> 0..MaxPrice]
  /\ opening \in [Openers -> [layout : Layouts \union {NoLayout}, todo : SUBSET Seats,
                              new : [Seats -> 0..MaxPrice]]]
  /\ created \in Nat /\ expanded \subseteq Layouts
  /\ OnSale \subseteq physical

\* What an expansion has come to: every seat its layout names is ahead, written by
\* itself, or on sale.
OpeningInv(p) ==
  LET x == opening[p] IN
  /\ x.layout = NoLayout => x = Closed
  /\ x.todo \subseteq physical
  /\ Written(x.new) \subseteq physical \ x.todo
  /\ x.layout # NoLayout =>
       /\ physical # {}
       /\ Named(x.layout) \subseteq x.todo \union Written(x.new) \union OnSale

\* The unique key: nobody writes a row that is there or that somebody else is writing.
Exclusive ==
  \A p \in Openers : \A s \in Written(opening[p].new) :
    s \notin OnSale /\ \A q \in Openers \ {p} : s \notin Written(opening[q].new)

StockInv ==
  /\ StockTypes
  /\ \A p \in Openers : OpeningInv(p)
  /\ Exclusive
  /\ expanded # {} => physical # {}
  /\ StockComplete
  /\ CreatedOnce

\* There are finitely many seats, and finitely many won to count.
LEMMA SeatsFinite == IsFiniteSet(Seats) /\ IsFiniteSet(Seats \X (1..MaxPrice))
<1>1. IsFiniteSet(1..MaxWidth) /\ IsFiniteSet(1..MaxPrice)
  BY RowsOK, FS_Interval
<1>2. IsFiniteSet(Seats)
  BY <1>1, RowsOK, FS_Product DEF Seats
<1> QED  BY <1>1, <1>2, FS_Product

\* A layout offers prices that the column can hold.
LEMMA OffersOK ==
  ASSUME NEW L \in Layouts, NEW s \in Seats, NEW x \in Offers(L, s)
  PROVE  x \in 1..MaxPrice
<1>1. PICK i \in DOMAIN L : x = L[i].price
  BY DEF Offers
<1>2. L \in Seq(RowSpec)
  BY LayoutsOK
<1>3. L[i] \in RowSpec
  BY <1>1, <1>2
<1> QED  BY <1>1, <1>3 DEF RowSpec

\* No seat has a price of zero: Written tells rows from seats without one.
LEMMA WrittenOK ==
  /\ Written(NoPrices) = {}
  /\ Closed.layout = NoLayout /\ Closed.todo = {} /\ Closed.new = NoPrices
  /\ Written(Closed.new) = {}
  /\ NoPrices \in [Seats -> 0..MaxPrice]
BY RowsOK DEF Written, NoPrices, Closed

\* At first nothing is there.
LEMMA StockStart == StockInit => StockInv
<1> SUFFICES ASSUME StockInit PROVE StockInv
  OBVIOUS
<1>1. OnSale = {}
  BY WrittenOK DEF StockInit, OnSale
<1>2. StockTypes
  BY <1>1, WrittenOK DEF StockInit, StockTypes, Closed
<1>3. \A p \in Openers : OpeningInv(p)
  BY WrittenOK DEF StockInit, OpeningInv, Closed
<1>4. Exclusive
  BY WrittenOK DEF StockInit, Exclusive
<1>5. StockComplete /\ CreatedOnce
  BY <1>1, FS_EmptySet DEF StockInit, StockComplete, CreatedOnce
<1> QED  BY <1>2, <1>3, <1>4, <1>5 DEF StockInv, StockInit

\* A venue is only built while there is none, and so before any expansion.
LEMMA VenueStep ==
  ASSUME StockInv, NEW L \in Layouts, CreateVenue(L)
  PROVE  StockInv'
<1>1. \A p \in Openers : opening[p] = Closed
  BY DEF StockInv, OpeningInv, CreateVenue
<1>2. OnSale = {} /\ OnSale' = OnSale /\ expanded = {}
  BY DEF StockInv, StockTypes, CreateVenue, OnSale, Written
<1>3. StockTypes'
  BY <1>2 DEF StockInv, StockTypes, CreateVenue
<1>4. \A p \in Openers : OpeningInv(p)'
  <2> TAKE p \in Openers
  <2>1. opening'[p] = Closed
    BY <1>1 DEF CreateVenue
  <2> QED  BY <2>1, WrittenOK DEF OpeningInv
<1>5. Exclusive'
  BY <1>2 DEF StockInv, Exclusive, CreateVenue
<1>6. StockComplete' /\ CreatedOnce' /\ expanded' = {}
  BY <1>2 DEF StockInv, StockComplete, CreatedOnce, CreateVenue
<1> QED  BY <1>3, <1>4, <1>5, <1>6 DEF StockInv

\* A transaction that only changes its own record: what it has to keep.
LEMMA OpeningStep ==
  ASSUME StockInv, NEW p \in Openers,
         NEW x \in [layout : Layouts \union {NoLayout}, todo : SUBSET Seats,
                    new : [Seats -> 0..MaxPrice]],
         opening' = [opening EXCEPT ![p] = x],
         OpeningInv(p)',
         \A s \in Written(x.new) :
           s \notin OnSale /\ \A q \in Openers \ {p} : s \notin Written(opening[q].new),
         UNCHANGED <<physical, price, created, expanded>>
  PROVE  StockInv'
<1>1. OnSale' = OnSale
  BY DEF OnSale, Written
<1>2. StockTypes'
  BY <1>1 DEF StockInv, StockTypes
<1>3. \A q \in Openers : OpeningInv(q)'
  <2> TAKE q \in Openers
  <2> CASE q = p
    OBVIOUS
  <2> CASE q # p
    <3>1. opening'[q] = opening[q]
      BY DEF StockInv, StockTypes
    <3> QED  BY <1>1, <3>1 DEF StockInv, OpeningInv, Named
  <2> QED  OBVIOUS
<1>4. Exclusive'
  BY <1>1 DEF StockInv, StockTypes, Exclusive
<1>5. StockComplete' /\ CreatedOnce'
  BY <1>1 DEF StockInv, StockComplete, CreatedOnce, Named
<1> QED  BY <1>2, <1>3, <1>4, <1>5 DEF StockInv

\* An expansion begins with all the rows it names ahead of it.
LEMMA BeginExpandStep ==
  ASSUME StockInv, NEW p \in Openers, NEW L \in Layouts, BeginExpand(p, L)
  PROVE  StockInv'
<1> DEFINE x == [layout |-> L, todo |-> Named(L), new |-> NoPrices]
<1>1. /\ x \in [layout : Layouts \union {NoLayout}, todo : SUBSET Seats,
                new : [Seats -> 0..MaxPrice]]
      /\ Named(L) \subseteq physical
  BY WrittenOK DEF StockInv, StockTypes, Named
<1>2. OpeningInv(p)'
  BY <1>1, WrittenOK, LayoutsOK DEF StockInv, StockTypes, OpeningInv, BeginExpand, Named
<1> QED  BY <1>1, <1>2, WrittenOK, OpeningStep DEF BeginExpand

\* A row is written where nobody has one or is writing one.
LEMMA InsertRowStep ==
  ASSUME StockInv, NEW p \in Openers, NEW s \in Seats, InsertRow(p, s)
  PROVE  StockInv'
<1> DEFINE old == opening[p]
<1>1. /\ s \in old.todo /\ Free(p, s) /\ price[s] = 0 /\ old.layout \in Layouts
      /\ old \in [layout : Layouts \union {NoLayout}, todo : SUBSET Seats,
                  new : [Seats -> 0..MaxPrice]]
  BY DEF StockInv, StockTypes, OpeningInv, Closed, InsertRow
<1>2. PICK x \in Offers(old.layout, s) :
        opening' = [opening EXCEPT ![p].todo = @ \ {s}, ![p].new[s] = x]
  BY DEF InsertRow
<1>3. x \in 1..MaxPrice
  BY <1>1, OffersOK
<1> DEFINE y == [old EXCEPT !.todo = @ \ {s}, !.new = [@ EXCEPT ![s] = x]]
<1>4. /\ opening' = [opening EXCEPT ![p] = y] /\ opening'[p] = y
      /\ y \in [layout : Layouts \union {NoLayout}, todo : SUBSET Seats,
                new : [Seats -> 0..MaxPrice]]
  <2>1. /\ [old.new EXCEPT ![s] = x] \in [Seats -> 0..MaxPrice]
        /\ old.todo \ {s} \in SUBSET Seats
    BY <1>1, <1>3
  <2>2. y \in [layout : Layouts \union {NoLayout}, todo : SUBSET Seats,
                new : [Seats -> 0..MaxPrice]]
    BY <2>1, <1>1
  <2>3. opening' = [opening EXCEPT ![p] = y]
    BY <1>2, <1>1 DEF StockInv, StockTypes
  <2>4. opening'[p] = y
    BY <2>3 DEF StockInv, StockTypes
  <2> QED  BY <2>2, <2>3, <2>4
<1>5. /\ y.layout = old.layout /\ y.todo = old.todo \ {s}
      /\ Written(y.new) = Written(old.new) \union {s}
  BY <1>1, <1>3, RowsOK DEF Written
<1>6. OpeningInv(p)'
  <2>1. UNCHANGED physical /\ OnSale' = OnSale
    BY DEF InsertRow, OnSale, Written
  <2>2. y.layout # NoLayout
    BY <1>1, <1>5, LayoutsOK
  <2> HIDE DEF y
  <2> QED  BY <1>1, <1>4, <1>5, <2>1, <2>2 DEF StockInv, OpeningInv, Named
<1>7. \A z \in Written(y.new) :
        z \notin OnSale /\ \A q \in Openers \ {p} : z \notin Written(opening[q].new)
  BY <1>1, <1>5 DEF StockInv, Exclusive, Free, OnSale, Written
<1> QED  BY <1>4, <1>6, <1>7, OpeningStep DEF InsertRow

\* A row that is there already is on sale.
LEMMA SkipRowStep ==
  ASSUME StockInv, NEW p \in Openers, NEW s \in Seats, SkipRow(p, s)
  PROVE  StockInv'
<1> DEFINE old == opening[p]
           y == [old EXCEPT !.todo = @ \ {s}]
<1>1. /\ s \in old.todo /\ s \in OnSale /\ old.layout \in Layouts
      /\ old \in [layout : Layouts \union {NoLayout}, todo : SUBSET Seats,
                  new : [Seats -> 0..MaxPrice]]
  BY DEF StockInv, StockTypes, OpeningInv, Closed, SkipRow, OnSale, Written
<1>2. /\ opening' = [opening EXCEPT ![p] = y] /\ opening'[p] = y
      /\ y \in [layout : Layouts \union {NoLayout}, todo : SUBSET Seats,
                new : [Seats -> 0..MaxPrice]]
      /\ y.layout = old.layout /\ y.todo = old.todo \ {s} /\ y.new = old.new
  BY <1>1 DEF StockInv, StockTypes, SkipRow
<1>3. OpeningInv(p)'
  BY <1>1, <1>2, LayoutsOK DEF StockInv, OpeningInv, SkipRow, Named, OnSale, Written
<1>4. \A z \in Written(y.new) :
        z \notin OnSale /\ \A q \in Openers \ {p} : z \notin Written(opening[q].new)
  BY <1>2 DEF StockInv, Exclusive
<1> QED  BY <1>2, <1>3, <1>4, OpeningStep DEF SkipRow

\* What a rolled back expansion had written nobody has seen.
LEMMA RollbackStep ==
  ASSUME StockInv, NEW p \in Openers, RollbackExpand(p)
  PROVE  StockInv'
<1>1. /\ Closed \in [layout : Layouts \union {NoLayout}, todo : SUBSET Seats,
                     new : [Seats -> 0..MaxPrice]]
      /\ Closed.layout = NoLayout /\ Closed.todo = {} /\ Closed.new = NoPrices
  BY WrittenOK DEF Closed
<1>2. OpeningInv(p)'
  BY <1>1, WrittenOK DEF StockInv, StockTypes, OpeningInv, RollbackExpand
<1> QED  BY <1>1, <1>2, WrittenOK, OpeningStep DEF RollbackExpand

\* A commit puts on sale what was written, and nothing that was there.
LEMMA CommitStep ==
  ASSUME StockInv, NEW p \in Openers, CommitExpand(p)
  PROVE  StockInv' /\ \A s \in OnSale : price'[s] = price[s]
<1> DEFINE x == opening[p]
           new == x.new
<1>1. /\ x.layout \in Layouts /\ x.todo = {} /\ new \in [Seats -> 0..MaxPrice]
      /\ Closed \in [layout : Layouts \union {NoLayout}, todo : SUBSET Seats,
                     new : [Seats -> 0..MaxPrice]]
      /\ Closed.layout = NoLayout /\ Closed.todo = {} /\ Closed.new = NoPrices
  BY WrittenOK DEF StockInv, StockTypes, OpeningInv, CommitExpand, Closed
<1>2. /\ price' = [s \in Seats |-> IF new[s] # 0 THEN new[s] ELSE price[s]]
      /\ created' = created + Cardinality(Written(new))
      /\ expanded' = expanded \union {x.layout}
      /\ opening' = [opening EXCEPT ![p] = Closed]
      /\ physical' = physical
  BY DEF CommitExpand
<1>3. /\ OnSale' = OnSale \union Written(new)
      /\ OnSale \intersect Written(new) = {}
      /\ \A s \in OnSale : price'[s] = price[s]
  BY <1>1, <1>2 DEF StockInv, StockTypes, Exclusive, OnSale, Written
<1>4. /\ Cardinality(OnSale \union Written(new)) = Cardinality(OnSale) + Cardinality(Written(new))
      /\ Cardinality(OnSale) \in Nat /\ Cardinality(Written(new)) \in Nat
  <2>1. OnSale \subseteq Seats /\ Written(new) \subseteq Seats
    BY DEF OnSale, Written
  <2>2. IsFiniteSet(OnSale) /\ IsFiniteSet(Written(new))
    BY <2>1, SeatsFinite, FS_Subset
  <2>3. /\ Cardinality(OnSale \union Written(new)) =
             Cardinality(OnSale) + Cardinality(Written(new))
               - Cardinality(OnSale \intersect Written(new))
        /\ Cardinality(OnSale \intersect Written(new)) = 0
    BY <1>3, <2>2, FS_Union, FS_EmptySet
  <2>4. Cardinality(OnSale) \in Nat /\ Cardinality(Written(new)) \in Nat
    BY <2>2, FS_CardinalityType
  <2> QED  BY <2>3, <2>4
<1>5. StockTypes'
  <2>1. price' \in [Seats -> 0..MaxPrice]
    BY <1>1, <1>2 DEF StockInv, StockTypes
  <2>2. created' \in Nat
    BY <1>2, <1>4 DEF StockInv, StockTypes
  <2>3. OnSale' \subseteq physical'
    BY <1>2, <1>3 DEF StockInv, StockTypes, OpeningInv
  <2> QED  BY <1>1, <1>2, <2>1, <2>2, <2>3 DEF StockInv, StockTypes
<1>6. \A q \in Openers : OpeningInv(q)'
  <2> TAKE q \in Openers
  <2> CASE q = p
    <3>1. opening'[q] = Closed
      BY <1>2 DEF StockInv, StockTypes
    <3> QED  BY <1>1, <3>1, WrittenOK DEF OpeningInv
  <2> CASE q # p
    <3>1. opening'[q] = opening[q]
      BY <1>2 DEF StockInv, StockTypes
    <3> QED  BY <1>2, <1>3, <3>1 DEF StockInv, OpeningInv, Named
  <2> QED  OBVIOUS
<1>7. Exclusive'
  <2> SUFFICES ASSUME NEW q \in Openers, NEW s \in Written(opening'[q].new)
               PROVE  s \notin OnSale' /\ \A r \in Openers \ {q} : s \notin Written(opening'[r].new)
    BY DEF Exclusive, Written
  <2>1. q # p /\ opening'[q] = opening[q]
    BY <1>1, <1>2, WrittenOK DEF StockInv, StockTypes
  <2>2. \A r \in Openers : opening'[r] = IF r = p THEN Closed ELSE opening[r]
    BY <1>2 DEF StockInv, StockTypes
  <2> QED  BY <1>1, <1>3, <2>1, <2>2, WrittenOK DEF StockInv, Exclusive
<1>8. StockComplete'
  <2> SUFFICES ASSUME NEW L \in Layouts, L \in expanded \/ L = x.layout
               PROVE  Named(L) \subseteq OnSale \union Written(new)
    BY <1>1, <1>2, <1>3 DEF StockInv, StockTypes, StockComplete, Named
  <2> CASE L \in expanded
    BY DEF StockInv, StockComplete
  <2> CASE L = x.layout
    BY <1>1, LayoutsOK DEF StockInv, OpeningInv
  <2> QED  OBVIOUS
<1>9. CreatedOnce'
  BY <1>2, <1>3, <1>4 DEF StockInv, StockTypes, CreatedOnce
<1>10. physical' # {}
  BY <1>1, <1>2, LayoutsOK DEF StockInv, OpeningInv
<1> QED  BY <1>2, <1>3, <1>5, <1>6, <1>7, <1>8, <1>9, <1>10 DEF StockInv

\* Every step of the stock, or none, keeps StockInv, takes no seat off sale and
\* changes no price.
LEMMA StockStep ==
  ASSUME StockInv, StockNext \/ UNCHANGED stockVars
  PROVE  /\ StockInv'
         /\ OnSale \subseteq OnSale'
         /\ \A s \in OnSale : price'[s] = price[s]
<1>1. CASE UNCHANGED stockVars
  <2>1. /\ OnSale' = OnSale
        /\ UNCHANGED <<physical, price, opening, created, expanded>>
    BY <1>1 DEF stockVars, OnSale, Written
  <2> QED  BY <2>1 DEF StockInv, StockTypes, OpeningInv, Exclusive, StockComplete,
                       CreatedOnce, Named
<1>2. CASE \E L \in Layouts : CreateVenue(L)
  BY <1>2, VenueStep DEF CreateVenue, OnSale, Written
<1>3. CASE \E p \in Openers, L \in Layouts : BeginExpand(p, L)
  BY <1>3, BeginExpandStep DEF BeginExpand, OnSale, Written
<1>4. CASE \E p \in Openers, s \in Seats : InsertRow(p, s) \/ SkipRow(p, s)
  BY <1>4, InsertRowStep, SkipRowStep DEF InsertRow, SkipRow, OnSale, Written
<1>5. CASE \E p \in Openers : RollbackExpand(p)
  BY <1>5, RollbackStep DEF RollbackExpand, OnSale, Written
<1>6. CASE \E p \in Openers : CommitExpand(p)
  <2>1. PICK p \in Openers : CommitExpand(p)
    BY <1>6
  <2>2. StockInv' /\ \A s \in OnSale : price'[s] = price[s]
    BY <2>1, CommitStep
  <2> QED  BY <2>2 DEF StockInv, StockTypes, OnSale, Written
<1> QED  BY <1>1, <1>2, <1>3, <1>4, <1>5, <1>6 DEF StockNext

-----------------------------------------------------------------------------
(* Orders and money.                                                       *)

OrderTypes ==
  /\ now \in Times
  /\ status \in [Orders -> {"NONE", "PENDING", "PAID", "FAILED", "CANCELED"}]
  /\ total \in [Orders -> Nat]
  /\ seatIds \in [Orders -> SUBSET Seats]
  /\ \A o \in Orders : seatIds[o] \subseteq OnSale
  /\ item \in [Seats -> Orders \union {NoOrder}]
  /\ itemPrice \in [Seats -> 0..MaxPrice]
  /\ approved \subseteq Orders
  /\ \A o \in approved : status[o] \in {"PAID", "CANCELED"}
  /\ DOMAIN cancel = Handlers
  /\ DOMAIN returned = Orders
  /\ refusals \in 0..MaxRefusals

\* An order and its items have the prices of the rows, which do not change.
Priced(o) ==
  /\ status[o] # "NONE" => total[o] = Amount([s \in seatIds[o] |-> price[s]])
  /\ EverPaid(o) => \A s \in seatIds[o] : item[s] = o /\ itemPrice[s] = price[s]

\* What one cancellation knows is right, and stays right while it takes its time.
CancelInv(c) ==
  c # NoCancel =>
    /\ c.order \in Orders /\ EverPaid(c.order)
    /\ c.at \in Times /\ ~CancelClosed(c.at, StartsAt)
    /\ c.fee = CancelFee(total[c.order], c.at, StartsAt)
    /\ c.refunded => total[c.order] - c.fee \in returned[c.order]

PaymentInv(p) ==
  /\ p.order \in Orders /\ EverPaid(p.order)
  /\ p.at \in Times /\ ~CancelClosed(p.at, StartsAt)
  /\ p.fee = CancelFee(total[p.order], p.at, StartsAt)
  /\ p.amount = total[p.order] - p.fee
  /\ p.result = "REFUNDED" =>
       status[p.order] = "CANCELED" /\ p.amount \in returned[p.order]

OrderInv ==
  /\ OrderTypes
  /\ \A o \in Orders : Priced(o)
  /\ \A h \in Handlers : CancelInv(cancel[h])
  /\ \A p \in payments : PaymentInv(p)
  /\ \A o \in Orders :
       EverPaid(o) /\ status[o] = "CANCELED" => \E p \in payments : Refunds(o) = {p}

SeasonInv == StockInv /\ OrderInv

\* Prices add up to a number.
LEMMA AmountOK ==
  ASSUME NEW S \in SUBSET Seats, NEW f \in [S -> 0..MaxPrice]
  PROVE  Amount(f) \in Nat
<1> DEFINE X == {x \in (DOMAIN f) \X (1..MaxPrice) : x[2] <= f[x[1]]}
<1>1. X \subseteq Seats \X (1..MaxPrice)
  OBVIOUS
<1>2. IsFiniteSet(X)
  BY <1>1, SeatsFinite, FS_Subset
<1>3. Cardinality(X) \in Nat
  BY <1>2, FS_CardinalityType
<1> QED  BY <1>3 DEF Amount

\* The fee of a cancellation that is let through.
LEMMA FeeRange ==
  ASSUME NEW n \in Nat, NEW t \in Times, ~CancelClosed(t, StartsAt)
  PROVE  /\ CancelFee(n, t, StartsAt) \in 0..n
         /\ n - CancelFee(n, t, StartsAt) \in Nat
BY FeeOK, TimesOK

\* A handler that cancels nothing.
LEMMA NoCancelIs ==
  /\ NoCancel.order = NoOrder /\ NoCancel.refunded = FALSE
  /\ CancelInv(NoCancel)
BY DEF NoCancel, CancelInv

\* At first nothing is on sale and nobody has ordered.
LEMMA SeasonStart == Init => SeasonInv
<1> SUFFICES ASSUME Init PROVE SeasonInv
  OBVIOUS
<1>1. StockInv
  BY StockStart DEF Init
<1>2. OrderTypes
  BY RowsOK, TimesOK DEF Init, OrderTypes
<1>3. \A o \in Orders : Priced(o)
  BY DEF Init, Priced, EverPaid
<1>4. \A h \in Handlers : CancelInv(cancel[h])
  BY NoCancelIs DEF Init
<1> QED  BY <1>1, <1>2, <1>3, <1>4 DEF SeasonInv, OrderInv, Init

\* The schedule is expanded again: no price that an order has seen changes.
LEMMA SellStep ==
  ASSUME SeasonInv, StockNext \/ UNCHANGED stockVars,
         UNCHANGED <<now, orderVars, cancel, moneyVars>>
  PROVE  SeasonInv'
<1>1. /\ StockInv'
      /\ OnSale \subseteq OnSale'
      /\ \A s \in OnSale : price'[s] = price[s]
  BY StockStep DEF SeasonInv
<1>2. UNCHANGED <<now, status, total, seatIds, item, itemPrice, approved, cancel,
                  payments, returned, refusals>>
  BY DEF orderVars, moneyVars
<1>3. OrderTypes'
  BY <1>1, <1>2 DEF SeasonInv, OrderInv, OrderTypes
<1>4. ASSUME NEW o \in Orders
      PROVE  Priced(o)'
  <2>1. \A s \in seatIds[o] : price'[s] = price[s]
    BY <1>1 DEF SeasonInv, OrderInv, OrderTypes
  <2>2. [s \in seatIds[o] |-> price'[s]] = [s \in seatIds[o] |-> price[s]]
    BY <2>1
  <2>3. Priced(o)
    BY DEF SeasonInv, OrderInv
  <2> QED  BY <1>2, <2>1, <2>2, <2>3 DEF Priced, EverPaid
<1>5. \A h \in Handlers : CancelInv(cancel[h])'
  BY <1>2 DEF SeasonInv, OrderInv, CancelInv, EverPaid
<1>6. \A p \in payments' : PaymentInv(p)'
  BY <1>2 DEF SeasonInv, OrderInv, PaymentInv, EverPaid
<1> QED  BY <1>1, <1>2, <1>3, <1>4, <1>5, <1>6 DEF SeasonInv, OrderInv, Refunds, EverPaid

\* A step of an order leaves the stock as it is.
LEMMA StockStays ==
  ASSUME SeasonInv, UNCHANGED stockVars
  PROVE  StockInv' /\ OnSale' = OnSale /\ price' = price
BY StockStep DEF SeasonInv, stockVars, OnSale, Written

\* An order is opened: its total is the sum of the prices of the moment.
LEMMA OpenOrderStep ==
  ASSUME SeasonInv, NEW o \in Orders, NEW S \in SUBSET Seats, OpenOrder(o, S)
  PROVE  SeasonInv'
<1> DEFINE n == Amount([s \in S |-> price[s]])
<1>1. StockInv' /\ OnSale' = OnSale /\ price' = price
  BY StockStays DEF OpenOrder
<1>2. /\ status[o] = "NONE" /\ S \subseteq OnSale
      /\ status' = [status EXCEPT ![o] = "PENDING"]
      /\ seatIds' = [seatIds EXCEPT ![o] = S]
      /\ total' = [total EXCEPT ![o] = n]
      /\ UNCHANGED <<now, item, itemPrice, approved, cancel, payments, returned, refusals>>
  BY DEF OpenOrder, moneyVars
<1>3. n \in Nat
  BY AmountOK DEF SeasonInv, StockInv, StockTypes
<1> HIDE DEF n
<1>4. OrderTypes'
  BY <1>1, <1>2, <1>3 DEF SeasonInv, OrderInv, OrderTypes
<1>5. \A x \in Orders \ {o} : /\ status'[x] = status[x] /\ total'[x] = total[x]
                              /\ seatIds'[x] = seatIds[x]
  BY <1>2 DEF SeasonInv, OrderInv, OrderTypes
<1>6. status'[o] = "PENDING" /\ seatIds'[o] = S /\ total'[o] = n /\ o \notin approved'
  BY <1>2 DEF SeasonInv, OrderInv, OrderTypes
<1>7. ASSUME NEW x \in Orders
      PROVE  Priced(x)'
  <2>1. CASE x = o
    <3>1. Amount([s \in seatIds[x] |-> price[s]])' = n
      BY <2>1, <1>1, <1>6 DEF n
    <3> QED  BY <2>1, <3>1, <1>6 DEF Priced, EverPaid
  <2>2. CASE x # o
    <3>1. Amount([s \in seatIds[x] |-> price[s]])' = Amount([s \in seatIds[x] |-> price[s]])
      BY <2>2, <1>1, <1>5
    <3> QED  BY <2>2, <3>1, <1>1, <1>2, <1>5 DEF SeasonInv, OrderInv, Priced, EverPaid
  <2> QED  BY <2>1, <2>2
<1>8. \A x \in Orders : EverPaid(x) => x # o
  BY <1>2 DEF EverPaid, SeasonInv, OrderInv, OrderTypes
<1>9. \A h \in Handlers : CancelInv(cancel[h])'
  BY <1>2, <1>5, <1>8 DEF SeasonInv, OrderInv, CancelInv, EverPaid
<1>10. \A p \in payments' : PaymentInv(p)'
  BY <1>2, <1>5, <1>8 DEF SeasonInv, OrderInv, PaymentInv, EverPaid
<1>11. \A x \in Orders :
         EverPaid(x)' /\ status'[x] = "CANCELED" => \E p \in payments' : Refunds(x)' = {p}
  BY <1>2, <1>5, <1>6 DEF SeasonInv, OrderInv, Refunds, EverPaid
<1> QED  BY <1>1, <1>4, <1>7, <1>9, <1>10, <1>11 DEF SeasonInv, OrderInv

\* A pending order is paid: nothing else knows of it yet.
LEMMA ConfirmPaidStep ==
  ASSUME SeasonInv, NEW o \in Orders, ConfirmPaid(o)
  PROVE  SeasonInv'
<1>1. StockInv' /\ OnSale' = OnSale /\ price' = price
  BY StockStays DEF ConfirmPaid
<1>2. /\ status[o] = "PENDING" /\ status' = [status EXCEPT ![o] = "PAID"]
      /\ approved' = approved \union {o}
      /\ UNCHANGED <<now, total, seatIds, cancel, payments, returned, refusals>>
  BY DEF ConfirmPaid, moneyVars
<1>3. /\ \A x \in Orders \ {o} : status'[x] = status[x]
      /\ status'[o] = "PAID" /\ o \notin approved
  BY <1>2 DEF SeasonInv, OrderInv, OrderTypes
<1>4. /\ item' \in [Seats -> Orders \union {NoOrder}]
      /\ itemPrice' \in [Seats -> 0..MaxPrice]
      /\ \A s \in Seats : item[s] \in Orders => item'[s] = item[s] /\ itemPrice'[s] = itemPrice[s]
      /\ \A s \in seatIds[o] : item'[s] = o /\ itemPrice'[s] = price[s]
  BY SeasonNobody DEF ConfirmPaid, SeasonInv, OrderInv, OrderTypes, StockInv, StockTypes
<1>5. OrderTypes'
  BY <1>1, <1>2, <1>4 DEF SeasonInv, OrderInv, OrderTypes
<1>6. ASSUME NEW x \in Orders
      PROVE  Priced(x)'
  <2>1. Amount([s \in seatIds[x] |-> price[s]])' = Amount([s \in seatIds[x] |-> price[s]])
    BY <1>1, <1>2
  <2>2. Priced(x) /\ seatIds[x] \subseteq Seats
    BY DEF SeasonInv, OrderInv, OrderTypes
  <2>3. CASE x = o
    BY <2>1, <2>2, <2>3, <1>1, <1>2, <1>3, <1>4 DEF Priced
  <2>4. CASE x # o
    <3>1. status'[x] = status[x] /\ (EverPaid(x)' <=> EverPaid(x))
      BY <2>4, <1>2, <1>3 DEF EverPaid
    <3> QED  BY <3>1, <2>1, <2>2, <1>1, <1>2, <1>4 DEF Priced
  <2> QED  BY <2>3, <2>4
<1>7. \A x \in Orders : EverPaid(x) => x # o /\ EverPaid(x)'
  BY <1>2, <1>3 DEF EverPaid
<1>8. \A h \in Handlers : CancelInv(cancel[h])'
  BY <1>2, <1>7 DEF SeasonInv, OrderInv, CancelInv
<1>9. \A p \in payments' : PaymentInv(p)'
  BY <1>2, <1>3, <1>7 DEF SeasonInv, OrderInv, PaymentInv
<1>10. \A x \in Orders :
         EverPaid(x)' /\ status'[x] = "CANCELED" => \E p \in payments' : Refunds(x)' = {p}
  BY <1>2, <1>3 DEF SeasonInv, OrderInv, Refunds, EverPaid
<1> QED  BY <1>1, <1>5, <1>6, <1>8, <1>9, <1>10 DEF SeasonInv, OrderInv

\* A pending order is closed, in one way or the other: nothing was paid.
LEMMA CloseUnpaidStep ==
  ASSUME SeasonInv, NEW o \in Orders, NEW st \in {"FAILED", "CANCELED"}, CloseUnpaid(o, st)
  PROVE  SeasonInv'
<1>1. StockInv' /\ OnSale' = OnSale /\ price' = price
  BY StockStays DEF CloseUnpaid
<1>2. /\ status[o] = "PENDING" /\ status' = [status EXCEPT ![o] = st]
      /\ UNCHANGED <<now, total, seatIds, item, itemPrice, approved, cancel, payments,
                     returned, refusals>>
  BY DEF CloseUnpaid, moneyVars
<1>3. /\ \A x \in Orders \ {o} : status'[x] = status[x]
      /\ status'[o] = st /\ o \notin approved
  BY <1>2 DEF SeasonInv, OrderInv, OrderTypes
<1>4. \A x \in Orders : /\ EverPaid(x)' <=> EverPaid(x)
                        /\ EverPaid(x) => status'[x] = status[x]
                        /\ status'[x] = "NONE" <=> status[x] = "NONE"
  BY <1>2, <1>3 DEF EverPaid
<1>5. OrderTypes'
  BY <1>1, <1>2, <1>3 DEF SeasonInv, OrderInv, OrderTypes
<1>6. ASSUME NEW x \in Orders
      PROVE  Priced(x)'
  <2>1. Amount([s \in seatIds[x] |-> price[s]])' = Amount([s \in seatIds[x] |-> price[s]])
    BY <1>1, <1>2
  <2>2. Priced(x)
    BY DEF SeasonInv, OrderInv
  <2> QED  BY <2>1, <2>2, <1>1, <1>2, <1>4 DEF Priced
<1>7. \A h \in Handlers : CancelInv(cancel[h])'
  BY <1>2, <1>4 DEF SeasonInv, OrderInv, CancelInv
<1>8. \A p \in payments' : PaymentInv(p)'
  BY <1>2, <1>4 DEF SeasonInv, OrderInv, PaymentInv
<1>9. \A x \in Orders :
        EverPaid(x)' /\ status'[x] = "CANCELED" => \E p \in payments' : Refunds(x)' = {p}
  BY <1>2, <1>4 DEF SeasonInv, OrderInv, Refunds
<1> QED  BY <1>1, <1>5, <1>6, <1>7, <1>8, <1>9 DEF SeasonInv, OrderInv

\* What the steps of a cancellation leave alone, and what follows for the rest: they
\* only cancel paid orders, and only add to what was returned and what is on record.
LEMMA CancelFrame ==
  ASSUME SeasonInv,
         UNCHANGED stockVars,
         now' \in Times,
         UNCHANGED <<total, seatIds, item, itemPrice, approved>>,
         DOMAIN cancel' = Handlers,
         DOMAIN returned' = Orders,
         refusals' \in 0..MaxRefusals,
         status' \in [Orders -> {"NONE", "PENDING", "PAID", "FAILED", "CANCELED"}],
         \A o \in Orders : \/ status'[o] = status[o]
                           \/ status[o] = "PAID" /\ status'[o] = "CANCELED",
         \A o \in Orders : returned[o] \subseteq returned'[o]
  PROVE  /\ StockInv'
         /\ OrderTypes'
         /\ \A o \in Orders : Priced(o)'
         /\ \A h \in Handlers : cancel'[h] = cancel[h] => CancelInv(cancel[h])'
         /\ \A p \in payments : PaymentInv(p)'
<1>1. StockInv' /\ OnSale' = OnSale /\ price' = price
  BY StockStays
<1>2. OrderTypes'
  BY <1>1 DEF SeasonInv, OrderInv, OrderTypes
<1>3. \A o \in Orders : (EverPaid(o)' <=> EverPaid(o)) /\ (status'[o] = "NONE" <=> status[o] = "NONE")
  BY DEF EverPaid
<1>4. ASSUME NEW o \in Orders
      PROVE  Priced(o)'
  <2>1. Amount([s \in seatIds[o] |-> price[s]])' = Amount([s \in seatIds[o] |-> price[s]])
    BY <1>1
  <2> QED  BY <2>1, <1>1, <1>3 DEF SeasonInv, OrderInv, Priced
<1>5. ASSUME NEW h \in Handlers, cancel'[h] = cancel[h]
      PROVE  CancelInv(cancel[h])'
  BY <1>3, <1>5 DEF SeasonInv, OrderInv, CancelInv
<1>6. ASSUME NEW p \in payments
      PROVE  PaymentInv(p)'
  BY <1>3 DEF SeasonInv, OrderInv, PaymentInv
<1> QED  BY <1>1, <1>2, <1>4, <1>5, <1>6

\* cancel() looks at the order and the date.
LEMMA AskStep ==
  ASSUME SeasonInv, NEW h \in Handlers, NEW o \in Orders, Ask(h, o)
  PROVE  SeasonInv'
<1> DEFINE c == [order |-> o, at |-> now, refunded |-> FALSE,
                 fee |-> CancelFee(total[o], now, StartsAt)]
<1>1. /\ status[o] = "PAID" /\ o \in approved /\ ~CancelClosed(now, StartsAt)
      /\ cancel' = [cancel EXCEPT ![h] = c]
      /\ UNCHANGED stockVars
      /\ UNCHANGED <<now, status, total, seatIds, item, itemPrice, approved, payments,
                     returned, refusals>>
  BY DEF Ask, orderVars, moneyVars
<1> HIDE DEF c
<1>2. /\ StockInv' /\ OrderTypes' /\ \A x \in Orders : Priced(x)'
      /\ \A g \in Handlers : cancel'[g] = cancel[g] => CancelInv(cancel[g])'
      /\ \A p \in payments : PaymentInv(p)'
  BY <1>1, CancelFrame DEF SeasonInv, OrderInv, OrderTypes
<1>3. cancel'[h] = c /\ \A g \in Handlers \ {h} : cancel'[g] = cancel[g]
  BY <1>1 DEF SeasonInv, OrderInv, OrderTypes
<1>4. CancelInv(cancel[h])'
  BY <1>1, <1>3 DEF CancelInv, EverPaid, c, SeasonInv, OrderInv, OrderTypes
<1>5. \A g \in Handlers : CancelInv(cancel[g])'
  BY <1>2, <1>3, <1>4
<1> QED  BY <1>1, <1>2, <1>5 DEF SeasonInv, OrderInv, Refunds, EverPaid

\* The PG gives back what is left after the fee.
LEMMA RefundStep ==
  ASSUME SeasonInv, NEW h \in Handlers, Refund(h)
  PROVE  SeasonInv'
<1> DEFINE c == cancel[h]
           d == [c EXCEPT !.refunded = TRUE]
<1>1. /\ c # NoCancel
      /\ returned' = [returned EXCEPT ![c.order] = @ \union {total[c.order] - c.fee}]
      /\ cancel' = [cancel EXCEPT ![h].refunded = TRUE]
      /\ UNCHANGED stockVars
      /\ UNCHANGED <<now, status, total, seatIds, item, itemPrice, approved, payments,
                     refusals>>
  BY DEF Refund, orderVars
<1>2. CancelInv(c) /\ c.order \in Orders
  BY <1>1 DEF SeasonInv, OrderInv, CancelInv
<1>3. /\ cancel'[h] = d /\ \A g \in Handlers \ {h} : cancel'[g] = cancel[g]
      /\ DOMAIN cancel' = Handlers /\ DOMAIN returned' = Orders
      /\ \A o \in Orders : returned[o] \subseteq returned'[o]
      /\ total[c.order] - c.fee \in returned'[c.order]
  BY <1>1, <1>2 DEF SeasonInv, OrderInv, OrderTypes
<1>4. /\ StockInv' /\ OrderTypes' /\ \A x \in Orders : Priced(x)'
      /\ \A g \in Handlers : cancel'[g] = cancel[g] => CancelInv(cancel[g])'
      /\ \A p \in payments : PaymentInv(p)'
  BY <1>1, <1>3, CancelFrame DEF SeasonInv, OrderInv, OrderTypes
<1>5. CancelInv(cancel[h])'
  <2>1. /\ EverPaid(c.order)' /\ c.at \in Times /\ ~CancelClosed(c.at, StartsAt)
        /\ c.fee = CancelFee(total'[c.order], c.at, StartsAt)
        /\ total'[c.order] - c.fee \in returned'[c.order]
    BY <1>1, <1>2, <1>3 DEF CancelInv, EverPaid
  <2>2. cancel'[h].order = c.order /\ cancel'[h].at = c.at /\ cancel'[h].fee = c.fee
    BY <1>3
  <2> QED  BY <1>2, <2>1, <2>2 DEF CancelInv
<1>6. \A g \in Handlers : CancelInv(cancel[g])'
  BY <1>3, <1>4, <1>5
<1> QED  BY <1>1, <1>4, <1>6 DEF SeasonInv, OrderInv, Refunds, EverPaid

\* The row that a cancellation writes.
LEMMA RowOK ==
  ASSUME SeasonInv, NEW h \in Handlers, cancel[h] # NoCancel,
         NEW result \in {"FAILED", "REFUNDED"}
  PROVE  LET c == cancel[h]
             r == Row(c, result)
         IN  /\ r.order = c.order /\ r.result = result /\ c.order \in Orders
             /\ r.at \in Times /\ ~CancelClosed(r.at, StartsAt)
             /\ r.fee = CancelFee(total[r.order], r.at, StartsAt)
             /\ r.amount = total[r.order] - r.fee
             /\ EverPaid(r.order)
             /\ c.refunded => r.amount \in returned[r.order]
BY DEF SeasonInv, OrderInv, CancelInv, Row

\* A failed refund leaves the order as it was.
LEMMA RefundFailedStep ==
  ASSUME SeasonInv, NEW h \in Handlers, RefundFailed(h)
  PROVE  SeasonInv'
<1> DEFINE c == cancel[h]
<1>0. PICK r : r = Row(c, "FAILED")
  OBVIOUS
<1>1. /\ c # NoCancel
      /\ refusals < MaxRefusals /\ refusals' = refusals + 1
      /\ payments' = payments \union {r}
      /\ \/ UNCHANGED returned
         \/ returned' = [returned EXCEPT ![c.order] = @ \union {total[c.order] - c.fee}]
      /\ cancel' = [cancel EXCEPT ![h] = NoCancel]
      /\ UNCHANGED stockVars
      /\ UNCHANGED <<now, status, total, seatIds, item, itemPrice, approved>>
  BY <1>0 DEF RefundFailed, orderVars
<1>2. /\ r.order = c.order /\ r.result = "FAILED" /\ c.order \in Orders
      /\ r.at \in Times /\ ~CancelClosed(r.at, StartsAt)
      /\ r.fee = CancelFee(total[r.order], r.at, StartsAt)
      /\ r.amount = total[r.order] - r.fee
      /\ EverPaid(r.order)
  BY <1>0, <1>1, RowOK
<1>3. /\ cancel'[h] = NoCancel /\ \A g \in Handlers \ {h} : cancel'[g] = cancel[g]
      /\ DOMAIN cancel' = Handlers /\ DOMAIN returned' = Orders
      /\ \A o \in Orders : returned[o] \subseteq returned'[o]
      /\ refusals' \in 0..MaxRefusals
  BY <1>1, <1>2, TimesOK DEF SeasonInv, OrderInv, OrderTypes
<1>4. /\ StockInv' /\ OrderTypes' /\ \A x \in Orders : Priced(x)'
      /\ \A g \in Handlers : cancel'[g] = cancel[g] => CancelInv(cancel[g])'
      /\ \A p \in payments : PaymentInv(p)'
  BY <1>1, <1>3, CancelFrame DEF SeasonInv, OrderInv, OrderTypes
<1>5. \A g \in Handlers : CancelInv(cancel[g])'
  BY <1>3, <1>4, NoCancelIs DEF CancelInv
<1>6. PaymentInv(r)'
  BY <1>1, <1>2 DEF PaymentInv, EverPaid
<1>7. \A o \in Orders : Refunds(o)' = Refunds(o)
  BY <1>1, <1>2 DEF Refunds
<1> QED  BY <1>1, <1>4, <1>5, <1>6, <1>7 DEF SeasonInv, OrderInv, EverPaid

\* The order was PAID, and so there is no row of a refund before this one.
LEMMA RecordCanceledStep ==
  ASSUME SeasonInv, NEW h \in Handlers, RecordCanceled(h)
  PROVE  SeasonInv'
<1> DEFINE c == cancel[h]
<1>0. PICK r : r = Row(c, "REFUNDED")
  OBVIOUS
<1>1. /\ c.refunded /\ status[c.order] = "PAID"
      /\ status' = [status EXCEPT ![c.order] = "CANCELED"]
      /\ payments' = payments \union {r}
      /\ cancel' = [cancel EXCEPT ![h] = NoCancel]
      /\ UNCHANGED stockVars
      /\ UNCHANGED <<now, total, seatIds, item, itemPrice, approved, returned, refusals>>
  BY <1>0 DEF RecordCanceled
<1>2. /\ r.order = c.order /\ r.result = "REFUNDED" /\ c.order \in Orders
      /\ r.at \in Times /\ ~CancelClosed(r.at, StartsAt)
      /\ r.fee = CancelFee(total[r.order], r.at, StartsAt)
      /\ r.amount = total[r.order] - r.fee
      /\ EverPaid(r.order)
      /\ r.amount \in returned[r.order]
  BY <1>0, <1>1, RowOK, NoCancelIs
<1>3. /\ cancel'[h] = NoCancel /\ \A g \in Handlers \ {h} : cancel'[g] = cancel[g]
      /\ DOMAIN cancel' = Handlers
      /\ status' \in [Orders -> {"NONE", "PENDING", "PAID", "FAILED", "CANCELED"}]
      /\ status'[c.order] = "CANCELED"
      /\ \A o \in Orders \ {c.order} : status'[o] = status[o]
  BY <1>1, <1>2 DEF SeasonInv, OrderInv, OrderTypes
<1>4. /\ StockInv' /\ OrderTypes' /\ \A x \in Orders : Priced(x)'
      /\ \A g \in Handlers : cancel'[g] = cancel[g] => CancelInv(cancel[g])'
      /\ \A p \in payments : PaymentInv(p)'
  BY <1>1, <1>3, CancelFrame DEF SeasonInv, OrderInv, OrderTypes
<1>5. \A g \in Handlers : CancelInv(cancel[g])'
  BY <1>3, <1>4, NoCancelIs DEF CancelInv
<1>6. PaymentInv(r)'
  BY <1>1, <1>2, <1>3 DEF PaymentInv, EverPaid
<1>7. Refunds(r.order) = {}
  BY <1>1, <1>2 DEF Refunds, SeasonInv, OrderInv, PaymentInv
<1>8. /\ Refunds(r.order)' = {r}
      /\ \A o \in Orders \ {r.order} : Refunds(o)' = Refunds(o)
  BY <1>1, <1>2, <1>7 DEF Refunds
<1>9. \A o \in Orders :
        EverPaid(o)' /\ status'[o] = "CANCELED" => \E p \in payments' : Refunds(o)' = {p}
  BY <1>1, <1>2, <1>3, <1>8 DEF SeasonInv, OrderInv, EverPaid
<1>10. \A p \in payments' : PaymentInv(p)'
  BY <1>1, <1>4, <1>6
<1> QED  BY <1>4, <1>5, <1>9, <1>10 DEF SeasonInv, OrderInv

\* Time passes, or cancel() finds its order canceled already.
LEMMA QuietStep ==
  ASSUME SeasonInv, (\E h \in Handlers : CanceledBefore(h)) \/ Tick
  PROVE  SeasonInv'
<1>1. /\ now' \in Times
      /\ UNCHANGED stockVars
      /\ UNCHANGED <<status, total, seatIds, item, itemPrice, approved, payments, returned,
                     refusals>>
  BY DEF CanceledBefore, Tick, orderVars, moneyVars, SeasonInv, OrderInv, OrderTypes
<1>2. /\ \A g \in Handlers : cancel'[g] = cancel[g] \/ cancel'[g] = NoCancel
      /\ DOMAIN cancel' = Handlers
  BY DEF CanceledBefore, Tick, SeasonInv, OrderInv, OrderTypes
<1>3. /\ StockInv' /\ OrderTypes' /\ \A x \in Orders : Priced(x)'
      /\ \A g \in Handlers : cancel'[g] = cancel[g] => CancelInv(cancel[g])'
      /\ \A p \in payments : PaymentInv(p)'
  BY <1>1, <1>2, CancelFrame DEF SeasonInv, OrderInv, OrderTypes
<1>4. \A g \in Handlers : CancelInv(cancel[g])'
  BY <1>2, <1>3, NoCancelIs DEF CancelInv
<1> QED  BY <1>1, <1>3, <1>4 DEF SeasonInv, OrderInv, Refunds, EverPaid

-----------------------------------------------------------------------------
\* Every step keeps SeasonInv.
LEMMA SeasonStep ==
  ASSUME SeasonInv, [Next]_vars
  PROVE  SeasonInv'
<1>1. CASE StockNext /\ UNCHANGED <<now, orderVars, cancel, moneyVars>>
  BY <1>1, SellStep
<1>2. CASE \E o \in Orders, S \in SUBSET Seats : OpenOrder(o, S)
  BY <1>2, OpenOrderStep
<1>3. CASE \E o \in Orders :
             ConfirmPaid(o) \/ CloseUnpaid(o, "FAILED") \/ CloseUnpaid(o, "CANCELED")
  BY <1>3, ConfirmPaidStep, CloseUnpaidStep
<1>4. CASE \E h \in Handlers, o \in Orders : Ask(h, o)
  BY <1>4, AskStep
<1>5. CASE \E h \in Handlers : Refund(h) \/ RefundFailed(h) \/ RecordCanceled(h)
  BY <1>5, RefundStep, RefundFailedStep, RecordCanceledStep
<1>6. CASE (\E h \in Handlers : CanceledBefore(h)) \/ Tick
  BY <1>6, QuietStep
<1>7. CASE UNCHANGED vars
  BY <1>7, SellStep DEF vars
<1> QED  BY <1>1, <1>2, <1>3, <1>4, <1>5, <1>6, <1>7 DEF Next

\* The inductive invariant: what is on sale, what every order, cancellation and
\* payment has seen of it, and that none of it changes under them.
THEOREM SeasonInvariant == Spec => []SeasonInv
BY SeasonStart, SeasonStep, PTL DEF Spec

\* What the schema promises (schedule_seats, orders, order_items, payments).
THEOREM Types == Spec => []TypeOK
<1>1. SeasonInv => TypeOK
  <2> SUFFICES ASSUME SeasonInv PROVE TypeOK
    OBVIOUS
  <2>1. /\ physical \subseteq Seats /\ price \in [Seats -> Nat] /\ OnSale \subseteq physical
        /\ DOMAIN opening = Openers /\ created \in Nat /\ expanded \subseteq Layouts
    BY RowsOK DEF SeasonInv, StockInv, StockTypes
  <2>2. ASSUME NEW p \in Openers
        PROVE  OpeningOK(opening[p])
    <3>1. /\ opening[p].layout \in Layouts \union {NoLayout}
          /\ opening[p].new \in [Seats -> Nat]
      BY RowsOK DEF SeasonInv, StockInv, StockTypes
    <3> QED  BY <3>1, WrittenOK DEF OpeningOK, SeasonInv, StockInv, OpeningInv
  <2>3. /\ now \in Times
        /\ status \in [Orders -> {"NONE", "PENDING", "PAID", "FAILED", "CANCELED"}]
        /\ total \in [Orders -> Nat] /\ seatIds \in [Orders -> SUBSET OnSale]
        /\ item \in [Seats -> Orders \union {NoOrder}] /\ itemPrice \in [Seats -> Nat]
        /\ approved \subseteq Orders
        /\ refusals \in 0..MaxRefusals
    BY RowsOK DEF SeasonInv, OrderInv, OrderTypes
  <2>4. ASSUME NEW h \in Handlers
        PROVE  LET c == cancel[h] IN
                 /\ c.order \in Orders \union {NoOrder}
                 /\ c.order = NoOrder <=> c = NoCancel
                 /\ c.order # NoOrder => c.at \in Times /\ c.fee \in 0..total[c.order]
    <3>1. CASE cancel[h] = NoCancel
      BY <3>1, NoCancelIs
    <3>2. CASE cancel[h] # NoCancel
      <4>1. /\ cancel[h].order \in Orders /\ cancel[h].at \in Times
            /\ ~CancelClosed(cancel[h].at, StartsAt)
            /\ cancel[h].fee = CancelFee(total[cancel[h].order], cancel[h].at, StartsAt)
        BY <3>2 DEF SeasonInv, OrderInv, CancelInv
      <4>2. total[cancel[h].order] \in Nat
        BY <2>3, <4>1
      <4>3. cancel[h].fee \in 0..total[cancel[h].order]
        BY <4>1, <4>2, FeeRange
      <4> QED  BY <3>2, <4>1, <4>3, SeasonNobody
    <3> QED  BY <3>1, <3>2
  <2> QED  BY <2>1, <2>2, <2>3, <2>4 DEF TypeOK
<1> QED  BY <1>1, SeasonInvariant, PTL

\* After an expansion every seat its layout names is on sale (schedule_service.py:56).
THEOREM WholeLayoutOnSale == Spec => []StockComplete
<1>1. SeasonInv => StockComplete
  BY DEF SeasonInv, StockInv
<1> QED  BY <1>1, SeasonInvariant, PTL

\* No row is made twice, whatever is retried (schedule_service.py:58).
THEOREM RowsMadeOnce == Spec => []CreatedOnce
<1>1. SeasonInv => CreatedOnce
  BY DEF SeasonInv, StockInv
<1> QED  BY <1>1, SeasonInvariant, PTL

\* The charge is what the items cost (open_order, queries.py:488; claim_order_items,
\* queries.py:625).
THEOREM ChargeIsItems == Spec => []ItemsAddUp
<1>1. SeasonInv => ItemsAddUp
  <2> SUFFICES ASSUME SeasonInv, NEW o \in Orders, EverPaid(o)
               PROVE  /\ \A s \in seatIds[o] : item[s] = o
                      /\ total[o] = Amount([s \in seatIds[o] |-> itemPrice[s]])
    BY DEF ItemsAddUp
  <2>1. /\ \A s \in seatIds[o] : item[s] = o /\ itemPrice[s] = price[s]
        /\ total[o] = Amount([s \in seatIds[o] |-> price[s]])
    BY DEF SeasonInv, OrderInv, OrderTypes, Priced, EverPaid
  <2>2. [s \in seatIds[o] |-> itemPrice[s]] = [s \in seatIds[o] |-> price[s]]
    BY <2>1
  <2> QED  BY <2>1, <2>2
<1> QED  BY <1>1, SeasonInvariant, PTL

\* However many cancellations of one order cross, one refund of it is on record, when
\* it was paid and is CANCELED and never otherwise; the PG carried it out, and it is
\* the total less the fee of the time of asking (order_service.py:373).
THEOREM OneRefundOnRecord == Spec => []RefundOnRecord
<1>1. SeasonInv => RefundOnRecord
  <2> SUFFICES ASSUME SeasonInv, NEW o \in Orders
               PROVE  /\ Cardinality(Refunds(o)) =
                           IF EverPaid(o) /\ status[o] = "CANCELED" THEN 1 ELSE 0
                      /\ \A p \in Refunds(o) : /\ p.amount \in returned[o]
                                               /\ p.amount + p.fee = total[o]
                                               /\ p.fee = CancelFee(total[o], p.at, StartsAt)
    BY DEF RefundOnRecord
  <2>1. ASSUME EverPaid(o), status[o] = "CANCELED"
        PROVE  Cardinality(Refunds(o)) = 1
    <3>1. PICK p \in payments : Refunds(o) = {p}
      BY <2>1 DEF SeasonInv, OrderInv
    <3> QED  BY <3>1, FS_Singleton
  <2>2. ASSUME ~(EverPaid(o) /\ status[o] = "CANCELED")
        PROVE  Cardinality(Refunds(o)) = 0
    <3>1. Refunds(o) = {}
      BY <2>2 DEF Refunds, SeasonInv, OrderInv, PaymentInv
    <3> QED  BY <3>1, FS_EmptySet
  <2>3. ASSUME NEW p \in Refunds(o)
        PROVE  /\ p.amount \in returned[o]
               /\ p.amount + p.fee = total[o]
               /\ p.fee = CancelFee(total[o], p.at, StartsAt)
    <3>1. p \in payments /\ p.order = o /\ p.result = "REFUNDED"
      BY DEF Refunds
    <3>2. /\ p.amount \in returned[o] /\ p.amount = total[o] - p.fee
          /\ p.fee = CancelFee(total[o], p.at, StartsAt)
          /\ p.at \in Times /\ ~CancelClosed(p.at, StartsAt)
      BY <3>1 DEF SeasonInv, OrderInv, PaymentInv
    <3>3. total[o] \in Nat
      BY DEF SeasonInv, OrderInv, OrderTypes
    <3>4. p.fee \in 0..total[o]
      BY <3>2, <3>3, FeeRange
    <3> QED  BY <3>2, <3>3, <3>4
  <2> QED  BY <2>1, <2>2, <2>3
<1> QED  BY <1>1, SeasonInvariant, PTL

\* The fee follows the date of the clock that cancel() reads, and waiting does not pay
\* (policy.py:72).
THEOREM FeeFollowsDate == Spec => []FeesByDate
<1>1. SeasonInv => FeesByDate
  <2> SUFFICES ASSUME SeasonInv, NEW p \in payments, NEW q \in payments, p.order = q.order
               PROVE  /\ p.at \div Day = q.at \div Day => p.fee = q.fee
                      /\ p.at <= q.at => p.fee <= q.fee
    BY DEF FeesByDate
  <2>1. /\ p.at \in Nat /\ q.at \in Nat /\ StartsAt \in Nat /\ total[p.order] \in Nat
        /\ ~CancelClosed(p.at, StartsAt) /\ ~CancelClosed(q.at, StartsAt)
        /\ p.fee = CancelFee(total[p.order], p.at, StartsAt)
        /\ q.fee = CancelFee(total[p.order], q.at, StartsAt)
    BY TimesOK DEF SeasonInv, OrderInv, OrderTypes, PaymentInv
  <2>2. p.at \div Day = q.at \div Day => p.fee = q.fee
    BY <2>1 DEF CancelFee, DaysUntilShow
  <2>3. p.at <= q.at => p.fee <= q.fee
    BY <2>1, FeeOK
  <2> QED  BY <2>2, <2>3
<1> QED  BY <1>1, SeasonInvariant, PTL
=============================================================================
