---------------------------- MODULE SeasonProps ----------------------------
(***************************************************************************)
(* What Season and Stock are checked for.                                  *)
(***************************************************************************)
EXTENDS Season

CONSTANT Offset     \* how far the clock of the hall is ahead of the one of now; only
                    \* NoCancelOnShowDay asks for the date at the hall

OpeningOK(x) ==
  /\ x.layout \in Layouts \union {NoLayout}
  /\ x.todo \subseteq physical
  /\ x.new \in [Seats -> Nat] /\ Written(x.new) \subseteq physical \ x.todo
  /\ x.layout = NoLayout <=> x = Closed

\* Rows have the shape of the schema, only seats of the venue are on sale, and an
\* expansion writes only rows it has come to.
TypeOK ==
  /\ physical \subseteq Seats
  /\ price \in [Seats -> Nat] /\ OnSale \subseteq physical
  /\ DOMAIN opening = Openers /\ \A p \in Openers : OpeningOK(opening[p])
  /\ created \in Nat /\ expanded \subseteq Layouts
  /\ now \in Times
  /\ status \in [Orders -> {"NONE", "PENDING", "PAID", "FAILED", "CANCELED"}]
  /\ total \in [Orders -> Nat] /\ seatIds \in [Orders -> SUBSET OnSale]
  /\ item \in [Seats -> Orders \union {NoOrder}] /\ itemPrice \in [Seats -> Nat]
  /\ approved \subseteq Orders
  /\ \A h \in Handlers : LET c == cancel[h] IN
       /\ c.order \in Orders \union {NoOrder}
       /\ c.order = NoOrder <=> c = NoCancel
       /\ c.order # NoOrder => c.at \in Times /\ c.fee \in 0..total[c.order]
  /\ refusals \in 0..MaxRefusals

\* Whatever runs at the same time or is rolled back, after an expansion every seat
\* its layout names is on sale (schedule_service.py:56).
StockComplete == \A L \in expanded : Named(L) \subseteq OnSale

\* What the expansions say they made adds up to what is there: a retry makes
\* nothing and no row is made twice (schedule_service.py:58).
CreatedOnce == created = Cardinality(OnSale)

EverPaid(o) == o \in approved

\* What was charged is the sum of what the items cost, although the two are read at
\* different times and the schedule may be expanded again in between, with other
\* prices (open_order, queries.py:488; claim_order_items, queries.py:625).  An order
\* that was closed unpaid has a total and no items.
ItemsAddUp ==
  \A o \in Orders : EverPaid(o) =>
    /\ \A s \in seatIds[o] : item[s] = o
    /\ total[o] = Amount([s \in seatIds[o] |-> itemPrice[s]])

\* The fee depends on the date alone, and waiting never makes it less, also for
\* somebody who has to try again (policy.py:72).  Dates are those of the clock of
\* now: the hall may have another date, see NoCancelOnShowDay.
FeesByDate ==
  \A p, q \in payments : p.order = q.order =>
    /\ p.at \div Day = q.at \div Day => p.fee = q.fee
    /\ p.at <= q.at => p.fee <= q.fee

Refunds(o) == {p \in payments : p.order = o /\ p.result = "REFUNDED"}

\* Of however many cancellations of one order, and whatever refund failed before, one
\* refund is put on record, when a paid order becomes CANCELED and never otherwise.
\* The PG carried it out, it is what is left of the total after the fee, and the fee
\* is the one of the day the customer asked, however long the rest took
\* (order_service.py:373).  An order that reconcile() closes unpaid is CANCELED too,
\* without one.
RefundOnRecord ==
  \A o \in Orders :
    /\ Cardinality(Refunds(o)) = IF EverPaid(o) /\ status[o] = "CANCELED" THEN 1 ELSE 0
    /\ \A p \in Refunds(o) : /\ p.amount \in returned[o]
                             /\ p.amount + p.fee = total[o]
                             /\ p.fee = CancelFee(total[o], p.at, StartsAt)

\* The date at the hall.
DateOf(t) == (t + Offset) \div Day

\* What cancel() lets through was asked for before the day of the show, as the hall
\* counts its days (docs/design.md:35).
NoCancelOnShowDay ==
  \A p \in payments : DateOf(p.at) < DateOf(StartsAt)
=============================================================================
