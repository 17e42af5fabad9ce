------------------------------- MODULE Stock -------------------------------
(***************************************************************************)
(* What is on sale for one schedule: app/service/schedule_service.py with  *)
(* create_venue_seats and expand_schedule_seats of                         *)
(* app/infra/db/queries.py.  Opening a schedule is retried, and may run    *)
(* twice at the same time, with another layout too.                        *)
(***************************************************************************)
EXTENDS Integers, Sequences, FiniteSets

CONSTANTS
  Rows,       \* pairs of zone and row label
  MaxWidth,
  MaxPrice,   \* prices are INTEGER columns
  Layouts,    \* sequences of RowSpec: row, width, price (its grade is left out)
  NoLayout,
  Openers     \* transactions that expand the schedule

Seats == Rows \X (1..MaxWidth)

RowSpec == [row : Rows, width : 1..MaxWidth, price : 1..MaxPrice]

ASSUME RowsOK == IsFiniteSet(Rows) /\ MaxWidth \in Nat /\ MaxPrice \in Nat
ASSUME LayoutsOK == Layouts \subseteq Seq(RowSpec) /\ NoLayout \notin Layouts

VARIABLES
  physical,   \* seats
  price,      \* schedule_seats.price, 0 for a seat that has no row
  opening,    \* a transaction: its layout, the seats ahead, the rows it wrote
  created,    \* history: rows that expand_schedule_seats() said it made
  expanded    \* history: layouts whose expansion was committed

stockVars == <<physical, price, opening, created, expanded>>

NoPrices == [s \in Seats |-> 0]
Closed == [layout |-> NoLayout, todo |-> {}, new |-> NoPrices]

StockInit ==
  /\ physical = {}
  /\ price = NoPrices
  /\ opening = [p \in Openers |-> Closed]
  /\ created = 0
  /\ expanded = {}

\* create_venue(): uq_seat_position lets a position in once.
CreateVenue(L) ==
  /\ physical = {}
  /\ physical' = {s \in Seats : \E i \in DOMAIN L : s[1] = L[i].row /\ s[2] <= L[i].width}
  /\ UNCHANGED <<price, opening, created, expanded>>

-----------------------------------------------------------------------------
(* expand_schedule_seats().                                                *)

\* Mutation: the seats of the layout, whether the venue has them or not.
NamedByLayout(L) ==
  {s \in Seats : \E i \in DOMAIN L : L[i].row = s[1] /\ s[2] <= L[i].width}
\* The join: seats of a row the layout names, however wide it says the row is.
Named(L) == {s \in physical : \E i \in DOMAIN L : L[i].row = s[1]}

\* A row that is listed twice offers two prices.
Offers(L, s) == {L[i].price : i \in {j \in DOMAIN L : L[j].row = s[1]}}

Written(rows) == {s \in Seats : rows[s] # 0}
OnSale == Written(price)

BeginExpand(p, L) ==
  /\ opening[p] = Closed
  /\ physical # {}
  /\ opening' = [opening EXCEPT ![p] = [layout |-> L, todo |-> Named(L), new |-> NoPrices]]
  /\ UNCHANGED <<physical, price, created, expanded>>

\* uq_schedule_seat: a row that somebody wrote and has not committed is waited for.
Free(p, s) == \A q \in Openers \ {p} : opening[q].new[s] = 0

\* Mutation: without the unique constraint.
InsertRowAgain(p, s) ==
  /\ s \in opening[p].todo
  /\ \E x \in Offers(opening[p].layout, s) :
       opening' = [opening EXCEPT ![p].todo = @ \ {s}, ![p].new[s] = x]
  /\ UNCHANGED <<physical, price, created, expanded>>
InsertRow(p, s) ==
  /\ s \in opening[p].todo
  /\ Free(p, s) /\ price[s] = 0
  /\ \E x \in Offers(opening[p].layout, s) :
       opening' = [opening EXCEPT ![p].todo = @ \ {s}, ![p].new[s] = x]
  /\ UNCHANGED <<physical, price, created, expanded>>

\* Mutation: DO UPDATE, the last price wins.
SkipRowUpserts(p, s) ==
  /\ s \in opening[p].todo
  /\ Free(p, s) /\ price[s] # 0
  /\ \E x \in Offers(opening[p].layout, s) :
       opening' = [opening EXCEPT ![p].todo = @ \ {s}, ![p].new[s] = x]
  /\ UNCHANGED <<physical, price, created, expanded>>
\* Mutation: what somebody is writing counts as there.
SkipRowUncommitted(p, s) ==
  /\ s \in opening[p].todo
  /\ ~Free(p, s) \/ price[s] # 0
  /\ opening' = [opening EXCEPT ![p].todo = @ \ {s}]
  /\ UNCHANGED <<physical, price, created, expanded>>
\* ON CONFLICT DO NOTHING.
SkipRow(p, s) ==
  /\ s \in opening[p].todo
  /\ Free(p, s) /\ price[s] # 0
  /\ opening' = [opening EXCEPT ![p].todo = @ \ {s}]
  /\ UNCHANGED <<physical, price, created, expanded>>

CommitExpand(p) ==
  /\ opening[p] # Closed /\ opening[p].todo = {}
  /\ LET new == opening[p].new IN
       /\ price' = [s \in Seats |-> IF new[s] # 0 THEN new[s] ELSE price[s]]
       /\ created' = created + Cardinality(Written(new))
  /\ expanded' = expanded \union {opening[p].layout}
  /\ opening' = [opening EXCEPT ![p] = Closed]
  /\ UNCHANGED physical

\* An exception, a lost connection, or the victim of a deadlock.
RollbackExpand(p) ==
  /\ opening[p] # Closed
  /\ opening' = [opening EXCEPT ![p] = Closed]
  /\ UNCHANGED <<physical, price, created, expanded>>

StockNext ==
  \/ \E L \in Layouts : CreateVenue(L)
  \/ \E p \in Openers, L \in Layouts : BeginExpand(p, L)
  \/ \E p \in Openers, s \in Seats : InsertRow(p, s) \/ SkipRow(p, s)
  \/ \E p \in Openers : CommitExpand(p) \/ RollbackExpand(p)

StockSpec == StockInit /\ [][StockNext]_stockVars
=============================================================================
