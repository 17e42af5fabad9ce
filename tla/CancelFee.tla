----------------------------- MODULE CancelFee -----------------------------
(***************************************************************************)
(* The cancellation policy: app/domain/policy.py.  Times are numbers, in   *)
(* parts of a day of the clock that now and starts_at are given in (UTC).  *)
(***************************************************************************)
EXTENDS Integers, Sequences

CONSTANT Day    \* how many parts a day has

ASSUME DayOK == Day \in Nat \ {0}

\* CANCEL_FEE_TIERS: days until the show at least, rate in percent.
Tiers == << [days |-> 8, percent |-> 0],
            [days |-> 3, percent |-> 10],
            [days |-> 1, percent |-> 20] >>

\* Mutation: days of twenty-four hours, not dates.
DaysUntilShowByHours(now, startsAt) == (startsAt - now) \div Day
DaysUntilShow(now, startsAt) == startsAt \div Day - now \div Day

\* On the day of the show and later, and where no tier applies.
CancelClosed(now, startsAt) ==
  LET d == DaysUntilShow(now, startsAt) IN
  d < 1 \/ \A i \in DOMAIN Tiers : d < Tiers[i].days

\* The first tier from above that the days reach.
TierOf(d) ==
  CHOOSE i \in DOMAIN Tiers :
    d >= Tiers[i].days /\ \A j \in DOMAIN Tiers : j < i => d < Tiers[j].days

\* int() cuts off what is less than one won.
CancelFee(amount, now, startsAt) ==
  (amount * Tiers[TierOf(DaysUntilShow(now, startsAt))].percent) \div 100
=============================================================================
