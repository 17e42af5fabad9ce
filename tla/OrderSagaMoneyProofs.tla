------------------------ MODULE OrderSagaMoneyProofs ------------------------
(***************************************************************************)
(* What is proved of OrderSaga about money and holds: nobody loses both    *)
(* seat and money, a sold seat comes back only after a refund, and a valid *)
(* hold is not taken by somebody else.                                     *)
(***************************************************************************)
EXTENDS OrderSagaProofs

-----------------------------------------------------------------------------
(* The invariant: what a process knows from its call to the PG is still    *)
(* true when it writes, whoever worked on the order in between.            *)

\* The PG's books and the orders.
LedgerFollowsStatus ==
  \A k \in Orders :
    /\ status[k] = "NONE" => ~charged[k]
    /\ status[k] = "PAID" => charged[k]
    /\ status[k] \in {"FAILED", "CANCELED"} /\ charged[k] => refunds[k] > 0

\* An order is too old to be charged.
TooOld(k) == status[k] # "NONE" /\ age[k] > PendingLimit

\* What a process has been told about its order is still so: charged, refunded,
\* or not charged; while place() waits for the PG nobody closes its order before
\* that is too old; and reconcile() works on old orders only.
Informed(p) ==
  /\ pc[p] \in {"confirm", "book", "refund", "record_refunded", "record_failed"} => charged[job[p]]
  /\ pc[p] \in {"record_refunded", "cancel_commit"} => refunds[job[p]] > 0
  /\ pc[p] \in {"approve", "close"} => ~charged[job[p]]
  /\ pc[p] = "approve" =>
       p \in Handlers /\ (status[job[p]] = "PENDING" \/ TooOld(job[p]))
  /\ job[p] # NoOrder => status[job[p]] # "NONE"
  /\ p \in Reconcilers => \A k \in Orders : k \in todo[p] \/ k = job[p] => TooOld(k)

\* One request places an order (the idempotency key), and it alone asks the PG.
OnePlacer ==
  \A p, q \in Handlers :
    /\ p # q
    /\ pc[p] \in {"approve", "close"} /\ pc[q] \in {"approve", "close"}
    => job[p] # job[q]

MoneyInv ==
  /\ LedgerFollowsStatus
  /\ \A p \in Procs : Informed(p)
  /\ OnePlacer

\* The ledger and the orders only move on.
MovesOn ==
  \A k \in Orders :
    /\ status[k] # "NONE" => status'[k] # "NONE" /\ age[k] <= age'[k]
    /\ charged[k] => charged'[k]
    /\ refunds[k] <= refunds'[k]

\* The order of a process that needs one.
LEMMA JobTyped ==
  ASSUME TypeOK, NEW p \in Procs, pc[p] \notin {"idle", "inquire"}
  PROVE  job[p] \in Orders /\ job[p] # NoOrder
BY SentinelsOK DEF TypeOK, ProcsTyped

\* An order that is too old stays so.
LEMMA StaysOld ==
  ASSUME TypeOK, MovesOn, NEW k \in Orders, TooOld(k),
         age' \in [Orders -> 0..PendingLimit + 1]
  PROVE  TooOld(k)'
BY TimesOK DEF TypeOK, OrdersTyped, MovesOn, TooOld

\* The process q is not part of the step, or only loses its work.
Bystander(q) ==
  /\ \/ pc'[q] = pc[q] /\ job'[q] = job[q]
     \/ pc'[q] \in {"idle", "inquire"} /\ job'[q] = NoOrder
  /\ todo'[q] \subseteq todo[q]
  /\ pc'[q] \in {"approve", "close"} => charged'[job[q]] = charged[job[q]]
  /\ pc'[q] = "approve" => status'[job[q]] = status[job[q]] \/ TooOld(job[q])

\* What a bystander was told stays true.
LEMMA BystanderInformed ==
  ASSUME TypeOK, TypeOK', MovesOn, NEW q \in Procs, Informed(q), Bystander(q)
  PROVE  Informed(q)'
<1>. /\ age' \in [Orders -> 0..PendingLimit + 1] /\ refunds \in [Orders -> Nat]
     /\ refunds' \in [Orders -> Nat] /\ NoOrder \notin Orders
  BY SentinelsOK DEF TypeOK, OrdersTyped
<1>1. CASE pc'[q] = pc[q] /\ job'[q] = job[q]
  <2>1. ASSUME pc[q] \notin {"idle", "inquire"}
        PROVE  Informed(q)'
    <3>. PICK k \in Orders : k = job[q]
      BY <2>1, JobTyped
    <3>1. /\ charged[k] => charged'[k]
          /\ refunds[k] > 0 => refunds'[k] > 0
          /\ status[k] # "NONE" => status'[k] # "NONE"
          /\ TooOld(k) => TooOld(k)'
      BY StaysOld DEF MovesOn
    <3>2. q \in Reconcilers => \A j \in Orders : j \in todo'[q] \/ j = job'[q] => TooOld(j)'
      BY <1>1, StaysOld DEF Informed, Bystander
    <3>3. /\ pc'[q] \in {"confirm", "book", "refund", "record_refunded", "record_failed"}
               => charged'[job'[q]]
          /\ pc'[q] \in {"record_refunded", "cancel_commit"} => refunds'[job'[q]] > 0
          /\ job'[q] # NoOrder => status'[job'[q]] # "NONE"
      BY <1>1, <3>1 DEF Informed
    <3>4. pc'[q] \in {"approve", "close"} => ~charged'[job'[q]]
      BY <1>1 DEF Informed, Bystander
    <3>5. pc'[q] = "approve" =>
            q \in Handlers /\ (status'[job'[q]] = "PENDING" \/ TooOld(job[q])')
      BY <1>1, <3>1 DEF Informed, Bystander
    <3>6. TooOld(job[q])' <=> status'[job'[q]] # "NONE" /\ age'[job'[q]] > PendingLimit
      BY <1>1 DEF TooOld
    <3>. QED BY <3>2, <3>3, <3>4, <3>5, <3>6 DEF Informed, TooOld
  <2>2. ASSUME pc[q] \in {"idle", "inquire"}
        PROVE  Informed(q)'
    <3>1. job[q] = NoOrder
      BY <2>2 DEF TypeOK, ProcsTyped
    <3>2. q \in Reconcilers => \A j \in Orders : j \in todo'[q] \/ j = job'[q] => TooOld(j)'
      BY <1>1, StaysOld DEF Informed, Bystander
    <3>. QED BY <1>1, <2>2, <3>1, <3>2 DEF Informed
  <2>. QED BY <2>1, <2>2
<1>2. CASE pc'[q] \in {"idle", "inquire"} /\ job'[q] = NoOrder
  <2>1. q \in Reconcilers => \A j \in Orders : j \in todo'[q] \/ j = job'[q] => TooOld(j)'
    BY <1>2, StaysOld DEF Informed, Bystander
  <2>. QED BY <1>2, <2>1 DEF Informed
<1>. QED BY <1>1, <1>2 DEF Bystander

\* The other processes stand where they stood.
Aside(p) ==
  \A q \in Procs \ {p} : pc'[q] = pc[q] /\ job'[q] = job[q] /\ todo'[q] = todo[q]

\* A step of one process: it has to be informed, and to be the only placer.
LEMMA OneActs ==
  ASSUME TypeOK, TypeOK', MoneyInv, MovesOn, NEW p \in Procs, Aside(p),
         LedgerFollowsStatus', Informed(p)',
         \A q \in Procs \ {p} : Bystander(q),
         p \in Handlers /\ pc'[p] \in {"approve", "close"} =>
           \A q \in Handlers \ {p} : pc[q] \in {"approve", "close"} => job[q] # job'[p]
  PROVE  MoneyInv'
<1>1. \A q \in Procs : Informed(q)'
  BY BystanderInformed DEF MoneyInv
<1>2. OnePlacer'
  BY DEF MoneyInv, OnePlacer, Aside, Procs
<1>. QED BY <1>1, <1>2 DEF MoneyInv

\* Nobody waits for the PG about an order that is charged.
LEMMA ChargedIsKnown ==
  ASSUME TypeOK, MoneyInv, NEW q \in Procs, pc[q] \in {"approve", "close"},
         NEW k \in Orders, charged[k]
  PROVE  job[q] # k
BY DEF MoneyInv, Informed

\* A step that writes neither the orders' statuses nor the PG's books.
LEMMA BooksKept ==
  ASSUME TypeOK, TypeOK', MoneyInv, UNCHANGED <<status, age, charged, refunds>>,
         NEW p \in Procs, Aside(p), Informed(p)',
         p \in Handlers /\ pc'[p] \in {"approve", "close"} =>
           \A q \in Handlers \ {p} : pc[q] \in {"approve", "close"} => job[q] # job'[p]
  PROVE  MoneyInv'
<1>1. MovesOn
  BY TimesOK DEF MovesOn, TypeOK, OrdersTyped
<1>2. \A q \in Procs \ {p} : Bystander(q)
  BY DEF Bystander, Aside
<1>3. LedgerFollowsStatus'
  BY DEF MoneyInv, LedgerFollowsStatus
<1>. QED BY <1>1, <1>2, <1>3, OneActs

\* A process that ends its call, or dies.
LEMMA EndsInformed ==
  ASSUME TypeOK, TypeOK', MovesOn, NEW p \in Procs, Informed(p), Finish(p)
  PROVE  Informed(p)' /\ pc'[p] \in {"idle", "inquire"} /\ Aside(p)
<1>1. /\ pc'[p] \in {"idle", "inquire"} /\ job'[p] = NoOrder
      /\ UNCHANGED todo /\ Aside(p)
  BY DEF Finish, Aside, TypeOK, ProcsTyped
<1>2. Bystander(p)
  BY <1>1 DEF Bystander
<1>. QED BY <1>1, <1>2, BystanderInformed

\* A process goes on with its order.
LEMMA GoesOn ==
  ASSUME TypeOK, NEW p \in Procs, NEW l, Goto(p, l)
  PROVE  pc'[p] = l /\ job'[p] = job[p] /\ todo'[p] = todo[p] /\ Aside(p)
BY DEF Goto, Aside, TypeOK, ProcsTyped

\* Steps that change the status of an order, nothing of the PG's books, and end
\* the call that makes them: the new status has to fit the books, and nobody
\* waits for the PG about an order that is not too old.
LEMMA StatusWritten ==
  ASSUME TypeOK, TypeOK', MoneyInv, UNCHANGED <<age, charged, refunds>>,
         NEW p \in Procs, Finish(p), NEW k \in Orders, status[k] # "NONE",
         NEW st \in Resolved, status' = [status EXCEPT ![k] = st],
         st = "PAID" => charged[k],
         st # "PAID" /\ charged[k] => refunds[k] > 0,
         TooOld(k) \/ (\A q \in Procs \ {p} : pc[q] = "approve" => job[q] # k)
  PROVE  MoneyInv'
<1>1. /\ \A j \in Orders \ {k} : status'[j] = status[j]
      /\ status'[k] = st /\ st # "NONE"
  BY DEF TypeOK, OrdersTyped, Resolved
<1>2. MovesOn
  BY <1>1, TimesOK DEF MovesOn, TypeOK, OrdersTyped
<1>3. LedgerFollowsStatus'
  BY <1>1 DEF MoneyInv, LedgerFollowsStatus, Resolved
<1>4. Informed(p)' /\ pc'[p] \in {"idle", "inquire"} /\ Aside(p)
  BY <1>2, EndsInformed DEF MoneyInv
<1>5. ASSUME NEW q \in Procs \ {p}
      PROVE  Bystander(q)
  <2>1. pc[q] = "approve" => job[q] \in Orders
    BY JobTyped
  <2>. QED BY <1>1, <1>4, <2>1 DEF Bystander, Aside
<1>. QED BY <1>2, <1>3, <1>4, <1>5, OneActs

\* A webhook comes with a charged order.
LEMMA WebhookMoney ==
  ASSUME TypeOK, TypeOK', MoneyInv, NEW p \in Procs, NEW k \in Orders, Webhook(p, k)
  PROVE  MoneyInv'
<1>1. /\ pc'[p] = "book" /\ job'[p] = k /\ todo'[p] = todo[p] /\ Aside(p)
      /\ UNCHANGED <<status, age, charged, refunds>>
      /\ charged[k] /\ status[k] = "PENDING" /\ p \in Webhooks
  BY DEF Webhook, Aside, orderVars, pgVars, TypeOK, ProcsTyped
<1>2. Informed(p)'
  BY <1>1, RolesOK DEF Informed
<1>. QED BY <1>1, <1>2, BooksKept

\* place() opens an order nobody knew of.
LEMMA PlaceMoney ==
  ASSUME TypeOK, TypeOK', MoneyInv, NEW p \in Procs, NEW k \in Orders,
         NEW u \in Users, NEW S \in SUBSET Seats, PlaceOpen(p, k, u, S)
  PROVE  MoneyInv'
<1>1. /\ p \in Handlers /\ pc[p] = "idle" /\ status[k] = "NONE"
      /\ pc'[p] = "approve" /\ job'[p] = k /\ UNCHANGED <<charged, refunds, todo>>
      /\ Aside(p)
      /\ status'[k] = "PENDING" /\ age'[k] = 0
      /\ \A j \in Orders \ {k} : status'[j] = status[j] /\ age'[j] = age[j]
  BY DEF PlaceOpen, pgVars, Aside, TypeOK, OrdersTyped, ProcsTyped
<1>2. MovesOn
  <2>1. ASSUME NEW j \in Orders
        PROVE  age[j] \in Int /\ refunds[j] \in Int /\ refunds'[j] = refunds[j]
    BY <1>1, TimesOK DEF TypeOK, OrdersTyped
  <2>2. ASSUME NEW j \in Orders, status[j] # "NONE"
        PROVE  status'[j] # "NONE" /\ age[j] <= age'[j]
    BY <1>1, <2>1, <2>2
  <2>. QED BY <1>1, <2>1, <2>2 DEF MovesOn
<1>3. LedgerFollowsStatus'
  BY <1>1 DEF MoneyInv, LedgerFollowsStatus
<1>4. \A q \in Procs : job[q] # k
  BY <1>1, SentinelsOK DEF MoneyInv, Informed
<1>5. ASSUME NEW q \in Procs \ {p}
      PROVE  Bystander(q)
  <2>1. pc[q] = "approve" => job[q] \in Orders \ {k}
    BY <1>4, JobTyped
  <2>. QED BY <1>1, <2>1 DEF Bystander, Aside
<1>6. Informed(p)'
  <2>1. ~charged'[k]
    BY <1>1 DEF MoneyInv, LedgerFollowsStatus
  <2>2. p \notin Reconcilers
    BY <1>1, RolesOK
  <2>. QED BY <1>1, <2>1, <2>2 DEF Informed
<1>. QED BY <1>1, <1>2, <1>3, <1>4, <1>5, <1>6, OneActs DEF Procs

\* The PG takes the money only of an order that is not too old: its placer is
\* still waiting, nobody has closed it and nobody is about to.
LEMMA ChargeMoney ==
  ASSUME PromptPG, TypeOK, TypeOK', MoneyInv, NEW p \in Procs, Approve(p)
  PROVE  MoneyInv'
<1>. PICK k \in Orders : k = job[p] /\ k # NoOrder
  BY JobTyped DEF Approve
<1>1. pc[p] = "approve" /\ UNCHANGED <<status, age, refunds>>
  BY DEF Approve, orderVars
<1>2. p \in Handlers /\ p \notin Reconcilers /\ ~charged[k]
      /\ (status[k] = "PENDING" \/ TooOld(k))
  BY <1>1, RolesOK DEF MoneyInv, Informed
<1>3. ASSUME NEW q \in Procs \ {p}, pc[q] \in {"approve", "close"}, job[q] = k
      PROVE  TooOld(k)
  <2>1. q \in Reconcilers
    BY <1>1, <1>2, <1>3 DEF MoneyInv, OnePlacer, Procs, TypeOK, ProcsTyped
  <2>. QED BY <1>3, <2>1 DEF MoneyInv, Informed
<1>4. CASE UNCHANGED charged /\ (Finish(p) \/ Goto(p, "close"))
  <2>1. MovesOn
    BY <1>1, <1>4, TimesOK DEF MovesOn, TypeOK, OrdersTyped
  <2>2. CASE Finish(p)
    BY <1>1, <1>4, <2>1, <2>2, EndsInformed, BooksKept DEF MoneyInv
  <2>3. CASE Goto(p, "close")
    <3>1. pc'[p] = "close" /\ job'[p] = k /\ Aside(p)
      BY <2>3, GoesOn
    <3>4. status'[k] # "NONE"
      BY <1>1, <1>2 DEF TooOld
    <3>5. Informed(p)'
      BY <1>1, <1>2, <1>4, <3>1, <3>4 DEF Informed
    <3>6. \A q \in Handlers \ {p} : pc[q] \in {"approve", "close"} => job[q] # k
      BY <1>1, <1>2 DEF MoneyInv, OnePlacer
    <3>. QED BY <1>1, <1>4, <3>1, <3>5, <3>6, BooksKept
  <2>. QED BY <1>4, <2>2, <2>3
<1>5. CASE /\ MayCharge(k) /\ charged' = [charged EXCEPT ![k] = TRUE]
           /\ Goto(p, "confirm") \/ Finish(p)
  <2>1. ~TooOld(k) /\ status[k] = "PENDING"
    BY <1>2, <1>5, TimesOK DEF MayCharge, TooOld, TypeOK, OrdersTyped
  <2>2. charged'[k] /\ \A j \in Orders \ {k} : charged'[j] = charged[j]
    BY <1>5 DEF TypeOK, OrdersTyped
  <2>3. MovesOn
    BY <1>1, <2>2, TimesOK DEF MovesOn, TypeOK, OrdersTyped
  <2>4. LedgerFollowsStatus'
    BY <1>1, <2>1, <2>2 DEF MoneyInv, LedgerFollowsStatus
  <2>5. Informed(p)' /\ Aside(p) /\ pc'[p] \notin {"approve", "close"}
    <3>1. CASE Finish(p)
      BY <2>3, <3>1, EndsInformed DEF MoneyInv
    <3>2. CASE Goto(p, "confirm")
      <4>1. pc'[p] = "confirm" /\ job'[p] = k /\ Aside(p)
        BY <3>2, GoesOn
      <4>. QED BY <1>1, <1>2, <2>1, <2>2, <4>1 DEF Informed
    <3>. QED BY <1>5, <3>1, <3>2
  <2>6. ASSUME NEW q \in Procs \ {p}
        PROVE  Bystander(q)
    <3>1. pc[q] \in {"approve", "close"} => job[q] \in Orders \ {k}
      BY <1>3, <2>1, JobTyped
    <3>. QED BY <1>1, <2>2, <2>5, <3>1 DEF Bystander, Aside
  <2>. QED BY <2>3, <2>4, <2>5, <2>6, OneActs
<1>. QED BY <1>4, <1>5 DEF Approve

\* A refund moves only the PG's books, and tells the process that it did.
LEMMA RefundMoney ==
  ASSUME TypeOK, TypeOK', MoneyInv, NEW p \in Procs, Refund(p) \/ CancelRefund(p)
  PROVE  MoneyInv'
<1>. PICK k \in Orders : k = job[p] /\ k # NoOrder
  BY JobTyped DEF Refund, CancelRefund
<1>1. /\ UNCHANGED <<status, age, charged>>
      /\ pc[p] = "refund" => charged[k]
      /\ status[k] # "NONE"
      /\ p \in Reconcilers => \A j \in Orders : j \in todo[p] \/ j = k => TooOld(j)
  BY DEF Refund, CancelRefund, orderVars, MoneyInv, Informed
<1>2. /\ refunds' = [refunds EXCEPT ![k] = @ + 1] \/ UNCHANGED refunds
      /\ \/ pc[p] = "refund" /\ pc'[p] \in {"record_refunded", "record_failed"}
         \/ pc[p] = "cancel_refund" /\ pc'[p] \in {"cancel_commit", "cancel_failed"}
      /\ pc'[p] \in {"record_refunded", "cancel_commit"} =>
           refunds' = [refunds EXCEPT ![k] = @ + 1]
      /\ job'[p] = k /\ todo'[p] = todo[p] /\ Aside(p)
  <2>1. CASE Refund(p)
    BY <2>1, GoesOn DEF Refund, PgRefund
  <2>2. CASE CancelRefund(p)
    BY <2>2, GoesOn DEF CancelRefund, PgRefund
  <2>. QED BY <2>1, <2>2
<1>3. \A j \in Orders : refunds[j] \in Nat /\ refunds'[j] \in Nat /\ refunds[j] <= refunds'[j]
  <2>. refunds \in [Orders -> Nat]
    BY DEF TypeOK, OrdersTyped
  <2>1. ASSUME NEW j \in Orders
        PROVE  refunds'[j] = refunds[j] \/ refunds'[j] = refunds[j] + 1
    BY <1>2, <2>1
  <2>. QED BY <2>1
<1>4. pc'[p] \in {"record_refunded", "cancel_commit"} => refunds'[k] > 0
  BY <1>2 DEF TypeOK, OrdersTyped
<1>5. MovesOn
  BY <1>1, <1>3, TimesOK DEF MovesOn, TypeOK, OrdersTyped
<1>6. LedgerFollowsStatus'
  BY <1>1, <1>3 DEF MoneyInv, LedgerFollowsStatus
<1>7. Informed(p)'
  BY <1>1, <1>2, <1>4 DEF Informed, TooOld
<1>8. \A q \in Procs \ {p} : Bystander(q)
  BY <1>1, <1>2 DEF Bystander, Aside
<1>. QED BY <1>2, <1>5, <1>6, <1>7, <1>8, OneActs

\* reconcile() asks about old orders, and what the PG says is so.
LEMMA ReconcileMoney ==
  ASSUME TypeOK, TypeOK', MoneyInv, NEW p \in Procs, Scan(p) \/ Inquire(p)
  PROVE  MoneyInv'
<1>1. UNCHANGED <<status, age, charged, refunds>> /\ p \in Reconcilers /\ p \notin Handlers
  BY RolesOK DEF Scan, Inquire, Conclusive, Inconclusive, orderVars, pgVars, TypeOK, ProcsTyped, Procs
<1>2. Aside(p)
  BY DEF Scan, Inquire, Conclusive, Inconclusive, Aside, TypeOK, ProcsTyped
<1>3. CASE Scan(p)
  <2>1. PICK T \in Oldest(Unresolved, ReconcileBatch, [k \in Orders |-> -age[k]]) :
          todo' = [todo EXCEPT ![p] = T]
    BY <1>3 DEF Scan
  <2>2. \A k \in T : TooOld(k)
    BY <2>1, OldestSubset DEF Unresolved, TooOld
  <2>3. pc'[p] = "inquire" /\ job'[p] = NoOrder /\ todo'[p] = T
    BY <1>3, <2>1 DEF Scan, TypeOK, ProcsTyped
  <2>4. Informed(p)'
    BY <1>1, <2>2, <2>3, SentinelsOK DEF Informed, TooOld
  <2>. QED BY <1>1, <1>2, <2>4, BooksKept
<1>4. CASE Inquire(p)
  <2>1. PICK k \in todo[p] :
          /\ todo' = [todo EXCEPT ![p] = @ \ {k}]
          /\ \/ /\ pc' = [pc EXCEPT ![p] = IF charged[k] THEN "confirm" ELSE "close"]
                /\ job' = [job EXCEPT ![p] = k]
             \/ /\ pc' = [pc EXCEPT ![p] = IF todo[p] = {k} THEN "idle" ELSE "inquire"]
                /\ UNCHANGED job
    BY <1>4 DEF Inquire, Conclusive, Inconclusive
  <2>2. k \in Orders /\ todo'[p] \subseteq todo[p] /\ pc[p] = "inquire" /\ job[p] = NoOrder
    BY <1>4, <2>1 DEF Inquire, Conclusive, Inconclusive, TypeOK, ProcsTyped
  <2>3. \A j \in Orders : j \in todo[p] => TooOld(j)
    BY <1>1 DEF MoneyInv, Informed
  <2>4. \/ pc'[p] = (IF charged[k] THEN "confirm" ELSE "close") /\ job'[p] = k
        \/ pc'[p] \in {"idle", "inquire"} /\ job'[p] = NoOrder
    BY <2>1, <2>2 DEF TypeOK, ProcsTyped
  <2>5. Informed(p)'
    BY <1>1, <2>1, <2>2, <2>3, <2>4, SentinelsOK DEF Informed, TooOld
  <2>. QED BY <1>1, <1>2, <2>5, BooksKept
<1>. QED BY <1>3, <1>4

\* The transactions that end an unpaid order find the PG without the money, or
\* have given it back.
LEMMA CloseMoney ==
  ASSUME TypeOK, TypeOK', MoneyInv, NEW p \in Procs, Close(p)
  PROVE  MoneyInv'
<1>. PICK k \in Orders : k = job[p] /\ k # NoOrder
  BY JobTyped DEF Close
<1>1. /\ pc[p] = "close" /\ Finish(p) /\ ~charged[k] /\ status[k] # "NONE"
      /\ UNCHANGED <<age, charged, refunds>>
  BY DEF Close, CloseUnpaid, pgVars, orderVars, MoneyInv, Informed
<1>2. CASE status[k] = "PENDING"
  <2>1. PICK st \in {"FAILED", "CANCELED"} : status' = [status EXCEPT ![k] = st]
    BY <1>2 DEF Close, CloseUnpaid
  <2>2. TooOld(k) \/ (\A q \in Procs \ {p} : pc[q] = "approve" => job[q] # k)
    <3>1. CASE p \in Reconcilers
      BY <3>1 DEF MoneyInv, Informed
    <3>2. CASE p \in Handlers
      BY <1>1, <3>2 DEF MoneyInv, Informed, OnePlacer
    <3>. QED BY <1>1, <3>1, <3>2 DEF Procs, TypeOK, ProcsTyped
  <2>. QED BY <1>1, <2>1, <2>2, StatusWritten DEF Resolved
<1>3. CASE status[k] # "PENDING"
  <2>1. UNCHANGED status
    BY <1>3 DEF Close, CloseUnpaid, orderVars
  <2>2. MovesOn
    BY <1>1, <2>1, TimesOK DEF MovesOn, TypeOK, OrdersTyped
  <2>. QED BY <1>1, <2>1, <2>2, EndsInformed, BooksKept DEF MoneyInv
<1>. QED BY <1>2, <1>3

\* The transaction after a refund.
LEMMA RecordMoney ==
  ASSUME TypeOK, TypeOK', MoneyInv, NEW p \in Procs,
         RecordRefunded(p) \/ RecordFailed(p) \/ CancelFailed(p)
  PROVE  MoneyInv'
<1>. PICK k \in Orders : k = job[p] /\ k # NoOrder
  BY JobTyped DEF RecordRefunded, PutOnRecord, RecordFailed, CancelFailed
<1>1. Finish(p) /\ UNCHANGED <<age, charged, refunds>> /\ status[k] # "NONE"
  BY DEF RecordRefunded, PutOnRecord, RecordFailed, CancelFailed, pgVars, orderVars,
         MoneyInv, Informed
<1>2. CASE RecordRefunded(p) /\ status[k] = "PENDING"
  <2>1. refunds[k] > 0 /\ charged[k] /\ status' = [status EXCEPT ![k] = "FAILED"]
    BY <1>2 DEF RecordRefunded, PutOnRecord, MoneyInv, Informed, TypeOK, OrdersTyped
  <2>2. \A q \in Procs : pc[q] = "approve" => job[q] # k
    BY <2>1, ChargedIsKnown
  <2>. QED BY <1>1, <2>1, <2>2, StatusWritten DEF Resolved
<1>3. CASE ~(RecordRefunded(p) /\ status[k] = "PENDING")
  <2>1. UNCHANGED status
    <3>1. CASE RecordRefunded(p)
      BY <1>3, <3>1 DEF RecordRefunded, PutOnRecord, TypeOK, OrdersTyped
    <3>2. CASE RecordFailed(p) \/ CancelFailed(p)
      BY <3>2 DEF RecordFailed, CancelFailed, orderVars
    <3>. QED BY <3>1, <3>2
  <2>2. MovesOn
    BY <1>1, <2>1, TimesOK DEF MovesOn, TypeOK, OrdersTyped
  <2>. QED BY <1>1, <2>1, <2>2, EndsInformed, BooksKept DEF MoneyInv
<1>. QED BY <1>2, <1>3

\* confirm_paid(): the PG has the money, whether the order is confirmed, was
\* concluded by somebody else, or has to be refunded.
LEMMA ConfirmMoney ==
  ASSUME TypeOK, TypeOK', MoneyInv, NEW p \in Procs, Confirm(p) \/ BookSeats(p)
  PROVE  MoneyInv'
<1>. PICK k \in Orders : k = job[p] /\ k # NoOrder
  BY JobTyped DEF Confirm, BookSeats
<1>1. /\ pc[p] \in {"confirm", "book"} /\ charged[k] /\ status[k] # "NONE"
      /\ UNCHANGED <<age, charged, refunds>>
  BY DEF Confirm, BookSeats, ConfirmCommit, pgVars, orderVars, MoneyInv, Informed
<1>2. CASE ConfirmCommit(k) /\ Finish(p)
  <2>1. status' = [status EXCEPT ![k] = "PAID"]
    BY <1>2 DEF ConfirmCommit
  <2>2. \A q \in Procs : pc[q] = "approve" => job[q] # k
    BY <1>1, ChargedIsKnown
  <2>. QED BY <1>1, <1>2, <2>1, <2>2, StatusWritten DEF Resolved
<1>3. CASE UNCHANGED status /\ Finish(p)
  <2>2. MovesOn
    BY <1>1, <1>3, TimesOK DEF MovesOn, TypeOK, OrdersTyped
  <2>. QED BY <1>1, <1>3, <2>2, EndsInformed, BooksKept DEF MoneyInv
<1>4. CASE UNCHANGED status /\ (Goto(p, "book") \/ Goto(p, "refund"))
  <2>1. /\ pc'[p] \in {"book", "refund"} /\ job'[p] = k /\ todo'[p] = todo[p]
        /\ Aside(p)
    BY <1>4, GoesOn
  <2>2. p \in Reconcilers => \A j \in Orders : j \in todo[p] \/ j = k => TooOld(j)
    BY DEF MoneyInv, Informed
  <2>3. Informed(p)'
    BY <1>1, <1>4, <2>1, <2>2 DEF Informed, TooOld
  <2>. QED BY <1>1, <1>4, <2>1, <2>3, BooksKept
<1>. QED BY <1>2, <1>3, <1>4 DEF Confirm, BookSeats, HoldExpired, orderVars

\* The last transaction of cancel() comes after its refund.
LEMMA CancelMoney ==
  ASSUME TypeOK, TypeOK', MoneyInv, NEW p \in Procs, CancelCommit(p)
  PROVE  MoneyInv'
<1>. PICK k \in Orders : k = job[p] /\ k # NoOrder
  BY JobTyped DEF CancelCommit
<1>1. Finish(p) /\ UNCHANGED <<age, charged, refunds>> /\ refunds[k] > 0 /\ status[k] # "NONE"
  BY DEF CancelCommit, pgVars, orderVars, MoneyInv, Informed
<1>2. CASE status[k] = "PAID"
  <2>1. status' = [status EXCEPT ![k] = "CANCELED"]
    BY <1>2 DEF CancelCommit
  <2>2. charged[k]
    BY <1>2 DEF MoneyInv, LedgerFollowsStatus
  <2>3. \A q \in Procs : pc[q] = "approve" => job[q] # k
    BY <2>2, ChargedIsKnown
  <2>. QED BY <1>1, <2>1, <2>3, StatusWritten DEF Resolved
<1>3. CASE status[k] # "PAID"
  <2>1. UNCHANGED status
    BY <1>3 DEF CancelCommit, orderVars
  <2>2. MovesOn
    BY <1>1, <2>1, TimesOK DEF MovesOn, TypeOK, OrdersTyped
  <2>. QED BY <1>1, <2>1, <2>2, EndsInformed, BooksKept DEF MoneyInv
<1>. QED BY <1>2, <1>3

\* Every step keeps MoneyInv.
LEMMA MoneyStep == PromptPG /\ TypeOK /\ MoneyInv /\ [Next]_vars => MoneyInv'
<1>. SUFFICES ASSUME PromptPG, TypeOK, MoneyInv, [Next]_vars PROVE MoneyInv'
  OBVIOUS
<1>. TypeOK'
  BY TypeStep
<1>1. ASSUME UNCHANGED <<status, age, charged, refunds, pc, job, todo>>
      PROVE  MoneyInv'
  BY <1>1 DEF MoneyInv, LedgerFollowsStatus, Informed, OnePlacer, TooOld
<1>2. ASSUME NEW u \in Users, NEW S \in SUBSET Seats, Hold(u, S) \/ Release(u, S)
      PROVE  MoneyInv'
  BY <1>1, <1>2 DEF Hold, Release, orderVars, pgVars, procVars
<1>3. CASE Sweep \/ UNCHANGED vars
  BY <1>1, <1>3 DEF Sweep, SweepFrom, vars, orderVars, pgVars, procVars
<1>4. CASE Tick
  <2>1. UNCHANGED <<status, charged, refunds, pc, job, todo>>
    BY <1>4 DEF Tick, pgVars, procVars
  <2>2. \A k \in Orders : age[k] <= age'[k]
    BY <1>4, TimesOK DEF Tick, TypeOK, OrdersTyped
  <2>3. MovesOn
    BY <2>1, <2>2 DEF MovesOn, TypeOK, OrdersTyped
  <2>4. \A q \in Procs : Bystander(q)
    BY <2>1 DEF Bystander
  <2>5. \A q \in Procs : Informed(q)'
    BY <2>3, <2>4, BystanderInformed DEF MoneyInv
  <2>. QED BY <2>1, <2>5 DEF MoneyInv, LedgerFollowsStatus, OnePlacer
<1>5. ASSUME NEW p \in Procs, NEW k \in Orders, CancelStart(p, k)
      PROVE  MoneyInv'
  <2>1. /\ pc'[p] = "cancel_refund" /\ job'[p] = k /\ todo'[p] = todo[p] /\ Aside(p)
        /\ UNCHANGED <<status, age, charged, refunds>> /\ status[k] = "PAID" /\ p \in Handlers
    BY <1>5 DEF CancelStart, Aside, orderVars, pgVars, TypeOK, ProcsTyped
  <2>2. Informed(p)'
    BY <2>1, RolesOK DEF Informed
  <2>. QED BY <2>1, <2>2, BooksKept
<1>6. ASSUME NEW p \in Procs, Crash(p)
      PROVE  MoneyInv'
  <2>1. /\ pc'[p] = "idle" /\ job'[p] = NoOrder /\ todo'[p] = {} /\ Aside(p)
        /\ UNCHANGED <<status, age, charged, refunds>>
    BY <1>6 DEF Crash, Aside, orderVars, pgVars, TypeOK, ProcsTyped
  <2>2. Informed(p)'
    BY <2>1, SentinelsOK DEF Informed
  <2>. QED BY <2>1, <2>2, BooksKept
<1>7. ASSUME NEW p \in Procs, Work(p)
      PROVE  MoneyInv'
  BY <1>7, ChargeMoney, ConfirmMoney, CloseMoney, RefundMoney, RecordMoney,
     ReconcileMoney, CancelMoney DEF Work
<1>. QED BY <1>2, <1>3, <1>4, <1>5, <1>6, <1>7, PlaceMoney, WebhookMoney DEF Next

\* At first nobody has ordered.
LEMMA MoneyInit == Init => MoneyInv
<1>. SUFFICES ASSUME Init PROVE MoneyInv
  OBVIOUS
<1>1. /\ \A k \in Orders : status[k] = "NONE" /\ charged[k] = FALSE
      /\ \A p \in Procs : pc[p] = "idle" /\ job[p] = NoOrder /\ todo[p] = {}
  BY DEF Init
<1>2. LedgerFollowsStatus
  BY <1>1 DEF LedgerFollowsStatus
<1>3. \A p \in Procs : Informed(p)
  BY <1>1, SentinelsOK DEF Informed
<1>4. OnePlacer
  BY <1>1 DEF OnePlacer, Procs
<1>. QED BY <1>2, <1>3, <1>4 DEF MoneyInv

\* For any number of customers, orders, handlers and workers, any order of their
\* steps, and crashes, lost answers and failed refunds: an order that is charged
\* ends with its seats or with a refund, as long as the PG charges no order that
\* reconcile() has given up (order_service.py:55-60).
THEOREM NobodyLosesMoney == ASSUME PromptPG PROVE Spec => []MoneyFollowsSeats
<1>1. Init => TypeOK /\ MoneyInv
  BY TypeInit, MoneyInit
<1>2. (TypeOK /\ MoneyInv) /\ [Next]_vars => (TypeOK /\ MoneyInv)'
  BY TypeStep, MoneyStep
<1>3. TypeOK /\ MoneyInv => MoneyFollowsSeats
  BY DEF MoneyInv, LedgerFollowsStatus, MoneyFollowsSeats
<1>. QED BY <1>1, <1>2, <1>3, PTL DEF Spec

-----------------------------------------------------------------------------
(* Holds and refunds, step by step.                                        *)

\* Whoever is about to record a refund or to give seats back has been told that
\* the PG carried the refund out, however late the PG may charge.
RefundDone ==
  \A p \in Procs : pc[p] \in {"record_refunded", "cancel_commit"} => refunds[job[p]] > 0

\* No step takes a refund back, and a process comes there only by one.
LEMMA RefundDoneStep == TypeOK /\ RefundDone /\ [Next]_vars => RefundDone'
<1>. SUFFICES ASSUME TypeOK, RefundDone, [Next]_vars PROVE RefundDone'
  OBVIOUS
<1>. USE DEF TypeOK
<1>1. ASSUME UNCHANGED refunds,
             \A q \in Procs : pc'[q] \in {"record_refunded", "cancel_commit"} =>
               pc[q] = pc'[q] /\ job'[q] = job[q]
      PROVE  RefundDone'
  BY <1>1 DEF RefundDone
<1>2. ASSUME NEW u \in Users, NEW S \in SUBSET Seats, Hold(u, S) \/ Release(u, S)
      PROVE  RefundDone'
  BY <1>1, <1>2 DEF Hold, Release, pgVars, procVars
<1>3. CASE Sweep \/ Tick \/ UNCHANGED vars
  BY <1>1, <1>3 DEF Sweep, SweepFrom, Tick, vars, pgVars, procVars
<1>4. ASSUME NEW p \in Procs, NEW k \in Orders, NEW u \in Users, NEW S \in SUBSET Seats,
             PlaceOpen(p, k, u, S)
      PROVE  RefundDone'
  BY <1>1, <1>4 DEF PlaceOpen, pgVars, ProcsTyped
<1>6. ASSUME NEW p \in Procs, NEW k \in Orders, CancelStart(p, k) \/ Webhook(p, k)
      PROVE  RefundDone'
  BY <1>1, <1>6 DEF CancelStart, Webhook, pgVars, ProcsTyped
<1>7. ASSUME NEW p \in Procs, Crash(p)
      PROVE  RefundDone'
  BY <1>1, <1>7 DEF Crash, pgVars, ProcsTyped
<1>8. ASSUME NEW p \in Procs, Refund(p) \/ CancelRefund(p)
      PROVE  RefundDone'
  <2>. PICK k \in Orders : k = job[p]
    BY <1>8, JobTyped DEF Refund, CancelRefund
  <2>1. /\ refunds' = [refunds EXCEPT ![k] = @ + 1] \/ UNCHANGED refunds
        /\ pc'[p] \in {"record_refunded", "cancel_commit"} =>
             refunds' = [refunds EXCEPT ![k] = @ + 1]
        /\ job'[p] = k /\ Aside(p)
    <3>1. CASE Refund(p)
      BY <3>1, GoesOn DEF Refund, PgRefund
    <3>2. CASE CancelRefund(p)
      BY <3>2, GoesOn DEF CancelRefund, PgRefund
    <3>. QED BY <1>8, <3>1, <3>2
  <2>2. refunds \in [Orders -> Nat]
    BY DEF OrdersTyped
  <2>3. \A j \in Orders : refunds[j] > 0 => refunds'[j] > 0
    BY <2>1, <2>2
  <2>4. pc'[p] \in {"record_refunded", "cancel_commit"} => refunds'[job'[p]] > 0
    BY <2>1, <2>2
  <2>5. ASSUME NEW q \in Procs \ {p}, pc'[q] \in {"record_refunded", "cancel_commit"}
        PROVE  refunds'[job'[q]] > 0
    <3>1. pc[q] = pc'[q] /\ job'[q] = job[q]
      BY <2>1 DEF Aside
    <3>. QED BY <2>3, <2>5, <3>1, JobTyped DEF RefundDone
  <2>. QED BY <2>4, <2>5 DEF RefundDone
<1>9. ASSUME NEW p \in Procs, Finish(p), UNCHANGED refunds
      PROVE  RefundDone'
  BY <1>1, <1>9 DEF Finish, ProcsTyped
<1>10. ASSUME NEW p \in Procs,
              Approve(p) \/ Confirm(p) \/ BookSeats(p) \/ Close(p) \/ RecordRefunded(p) \/ RecordFailed(p)
              \/ CancelFailed(p) \/ CancelCommit(p)
       PROVE  RefundDone'
  <2>1. UNCHANGED refunds
    BY <1>10 DEF Approve, Confirm, BookSeats, Close, RecordRefunded, PutOnRecord,
                 RecordFailed, CancelFailed, CancelCommit, pgVars
  <2>2. Finish(p) \/ \E l \in {"confirm", "book", "close", "refund"} : Goto(p, l)
    BY <1>10 DEF Approve, Confirm, BookSeats, HoldExpired, Close, RecordRefunded, PutOnRecord,
                 RecordFailed, CancelFailed, CancelCommit
  <2>. QED BY <1>1, <1>9, <2>1, <2>2 DEF Goto, ProcsTyped
<1>11. ASSUME NEW p \in Procs, Scan(p) \/ Inquire(p)
       PROVE  RefundDone'
  BY <1>1, <1>11 DEF Scan, Inquire, Conclusive, Inconclusive, pgVars, ProcsTyped
<1>. QED BY <1>2, <1>3, <1>4, <1>6, <1>7, <1>8, <1>10, <1>11 DEF Next, Work

\* At first nobody is at work.
LEMMA RefundDoneInit == Init => RefundDone
BY DEF Init, RefundDone

\* However cancellations, the reconciler, late charges and crashes interleave: a
\* seat that was sold comes back only by the cancellation of its own order, after
\* the refund of that order was carried out.
THEOREM SeatsComeBackPaidBack == Spec => RestoreAfterRefund
<1>1. TypeOK /\ SaleInv /\ RefundDone /\ [Next]_vars =>
        [\A s \in Seats :
           seat[s] = "BOOKED" /\ seat'[s] # "BOOKED" =>
             LET k == item[s] IN
               /\ status[k] = "PAID" /\ status'[k] = "CANCELED"
               /\ refunds[k] > 0
               /\ seat'[s] = "AVAILABLE"]_vars
  <2>. SUFFICES ASSUME TypeOK, SaleInv, RefundDone, [Next]_vars,
                       NEW s \in Seats, seat[s] = "BOOKED", seat'[s] # "BOOKED"
                PROVE  /\ status[item[s]] = "PAID" /\ status'[item[s]] = "CANCELED"
                       /\ refunds[item[s]] > 0 /\ seat'[s] = "AVAILABLE"
    OBVIOUS
  <2>. USE DEF TypeOK
  <2>1. PICK p \in Procs : CancelCommit(p)
    <3>1. ASSUME NEW S \in SUBSET Seats, \A x \in S : seat[x] = "HELD", NEW st, EndHold(S, st)
          PROVE  FALSE
      BY <3>1 DEF EndHold, SetOn, SeatsTyped
    <3>2. ASSUME NEW u \in Users, NEW S \in SUBSET Seats, Hold(u, S) \/ Release(u, S)
          PROVE  FALSE
      BY <3>1, <3>2 DEF Hold, SetHold, SetOn, Claimable, ExpiredSeats, SeatsTyped,
                        Release, Releasable
    <3>3. CASE Sweep
      BY <3>1, <3>3, OldestSubset DEF Sweep, SweepFrom, ExpiredSeats
    <3>4. ASSUME NEW k \in Orders, ConfirmCommit(k)
          PROVE  FALSE
      BY <3>1, <3>4 DEF ConfirmCommit, Bookable, OrdersTyped
    <3>5. ASSUME NEW u, NEW S \in SUBSET Seats, EndHold(Releasable(u, S), "AVAILABLE")
          PROVE  FALSE
      BY <3>1, <3>5 DEF Releasable
    <3>6. seat' # seat
      OBVIOUS
    <3>7. ASSUME NEW q \in Procs, BookSeats(q) \/ Close(q) \/ RecordRefunded(q)
          PROVE  FALSE
      <4>1. job[q] \in Orders /\ seatIds[job[q]] \in SUBSET Seats
        BY <3>7, JobTyped DEF BookSeats, Close, RecordRefunded, PutOnRecord, OrdersTyped
      <4>. QED BY <3>4, <3>5, <3>6, <3>7, <4>1
               DEF BookSeats, Close, CloseUnpaid, RecordRefunded, PutOnRecord, seatVars
    <3>8. ASSUME NEW q \in Procs, Work(q)
          PROVE  CancelCommit(q)
      BY <3>6, <3>7, <3>8
      DEF Work, Approve, Confirm, Refund, RecordFailed, Scan, Inquire, Conclusive,
          Inconclusive, CancelRefund, CancelFailed, seatVars
    <3>. QED BY <3>2, <3>3, <3>4, <3>6, <3>8
             DEF Next, Tick, PlaceOpen, Webhook, CancelStart, Crash, vars, seatVars
  <2>2. job[p] \in Orders /\ refunds[job[p]] > 0
    BY <2>1, JobTyped DEF CancelCommit, RefundDone
  <2>3. status[job[p]] = "PAID" /\ Restore(job[p]) /\ status'[job[p]] = "CANCELED"
    BY <2>1, <2>2 DEF CancelCommit, seatVars, OrdersTyped
  <2>4. item[s] = job[p] /\ seat'[s] = "AVAILABLE"
    BY <2>3 DEF Restore, SetOn, SeatsTyped
  <2>. QED BY <2>2, <2>3, <2>4
<1>2. Init => RefundDone
  BY RefundDoneInit
<1>3. TypeOK /\ RefundDone /\ [Next]_vars => RefundDone'
  BY RefundDoneStep
<1>. QED BY <1>1, <1>2, <1>3, SaleInvariant, PTL DEF Spec, RestoreAfterRefund

\* What a step may do to a validly held seat.
SeatKept == \A s \in Seats, u \in Users :
  ValidHold(s, u) =>
    \/ heldBy'[s] = u
    \/ GivesUp(u, s)
    \/ /\ seat'[s] = "BOOKED"
       /\ \E p \in Procs : pc[p] = "book" /\ job[p] = item'[s]

\* An order passes the check of confirm_paid() only with the holds of its buyer.
LEMMA PassesWithHolds ==
  ASSUME TypeOK, [Next]_vars, NEW p \in Procs, pc[p] # "book", pc'[p] = "book"
  PROVE  job'[p] \in Orders /\ Claimed(job'[p])
<1>. USE DEF TypeOK, ProcsTyped
<1>1. ASSUME NEW q \in Procs, Finish(q) PROVE FALSE
  BY <1>1, FinishUnlocks
<1>2. ASSUME NEW q \in Procs, NEW l, l # "book", Goto(q, l) PROVE FALSE
  BY <1>2 DEF Goto
<1>3. ASSUME UNCHANGED pc PROVE FALSE
  BY <1>3
<1>4. ASSUME NEW q \in Procs, NEW k \in Orders, Webhook(q, k)
      PROVE  job'[p] \in Orders /\ Claimed(job'[p])
  <2>1. p = q
    BY <1>4 DEF Webhook
  <2>. QED BY <1>4, <2>1 DEF Webhook
<1>5. ASSUME NEW q \in Procs, Confirm(q)
      PROVE  job'[p] \in Orders /\ Claimed(job'[p])
  <2>1. Goto(q, "book") /\ Claimed(job[q])
    BY <1>1, <1>2, <1>5 DEF Confirm
  <2>2. p = q /\ job' = job
    BY <2>1 DEF Goto
  <2>. QED BY <1>5, <2>1, <2>2 DEF Confirm
<1>6. ASSUME NEW q \in Procs,
             \/ \E k \in Orders, u \in Users, S \in SUBSET Seats : PlaceOpen(q, k, u, S)
             \/ \E k \in Orders : CancelStart(q, k)
             \/ Scan(q) \/ Inquire(q) \/ Crash(q)
      PROVE  FALSE
  BY <1>6 DEF PlaceOpen, CancelStart, Scan, Inquire, Conclusive, Inconclusive, Crash
<1>7. ASSUME NEW q \in Procs,
             \/ Approve(q) \/ BookSeats(q) \/ Close(q) \/ Refund(q) \/ RecordRefunded(q)
             \/ RecordFailed(q) \/ CancelRefund(q) \/ CancelFailed(q) \/ CancelCommit(q)
      PROVE  FALSE
  BY <1>1, <1>2, <1>7
  DEF Approve, BookSeats, HoldExpired, Close, Refund, PgRefund, RecordRefunded, PutOnRecord,
      RecordFailed, CancelRefund, CancelFailed, CancelCommit
<1>8. ASSUME \/ \E u \in Users, S \in SUBSET Seats : Hold(u, S) \/ Release(u, S)
             \/ Sweep \/ Tick \/ UNCHANGED vars
      PROVE  FALSE
  BY <1>3, <1>8 DEF Hold, Release, Sweep, SweepFrom, Tick, vars, procVars
<1>. QED BY <1>4, <1>5, <1>6, <1>7, <1>8 DEF Next, Work

\* Closing an order gives up what its buyer holds, and nothing else.
LEMMA CloseKeeps ==
  ASSUME TypeOK, NEW p \in Procs, NEW k \in Orders, k = job[p],
         pc[p] \in {"close", "record_refunded"},
         EndHold(Releasable(buyer[k], seatIds[k]), "AVAILABLE")
  PROVE  SeatKept
<1>. SUFFICES ASSUME NEW s \in Seats, NEW u \in Users, ValidHold(s, u)
              PROVE  heldBy'[s] = u \/ GivesUp(u, s)
  BY DEF SeatKept
<1>1. CASE s \in Releasable(buyer[k], seatIds[k])
  <2>1. seat'[s] = "AVAILABLE" /\ buyer[k] = u /\ s \in seatIds[k]
    BY <1>1 DEF EndHold, SetOn, Releasable, ValidHold, TypeOK, SeatsTyped
  <2>. QED BY <2>1 DEF GivesUp
<1>2. CASE s \notin Releasable(buyer[k], seatIds[k])
  BY <1>2 DEF EndHold, SetOn, ValidHold, TypeOK, SeatsTyped
<1>. QED BY <1>1, <1>2

\* A confirmation books the seats of the order it works on.
LEMMA BookKeeps ==
  ASSUME TypeOK, NEW p \in Procs, NEW k \in Orders, k = job[p], pc[p] = "book",
         ConfirmCommit(k)
  PROVE  SeatKept
<1>. SUFFICES ASSUME NEW s \in Seats, NEW u \in Users, ValidHold(s, u)
              PROVE  heldBy'[s] = u \/ (seat'[s] = "BOOKED" /\ item'[s] = job[p])
  BY DEF SeatKept
<1>. QED BY DEF ConfirmCommit, EndHold, SetOn, ValidHold, TypeOK, SeatsTyped, OrdersTyped

\* Every step keeps validly held seats for their holders, but for a confirmation
\* that had passed its check before.
LEMMA SeatKeptStep == TypeOK /\ [Next]_vars => SeatKept
<1>. SUFFICES ASSUME TypeOK, [Next]_vars PROVE SeatKept
  OBVIOUS
<1>1. ASSUME UNCHANGED heldBy PROVE SeatKept
  BY <1>1 DEF ValidHold, SeatKept
<1>2. ASSUME NEW v \in Users, NEW S \in SUBSET Seats, Hold(v, S)
      PROVE  SeatKept
  <2>1. SetHold(S, v) /\ \A s \in S : Claimable(s)
    BY <1>2 DEF Hold
  <2>2. ASSUME NEW s \in Seats, NEW u \in Users, ValidHold(s, u)
        PROVE  s \notin S
    BY <2>1, <2>2, TimesOK DEF Claimable, ExpiredSeats, ValidHold, TypeOK, SeatsTyped
  <2>. QED BY <2>1, <2>2 DEF SetHold, SetOn, ValidHold, TypeOK, SeatsTyped, SeatKept
<1>3. ASSUME NEW v \in Users, NEW S \in SUBSET Seats, Release(v, S)
      PROVE  SeatKept
  <2>. SUFFICES ASSUME NEW s \in Seats, NEW u \in Users, ValidHold(s, u)
                PROVE  heldBy'[s] = u \/ GivesUp(u, s)
    BY DEF SeatKept
  <2>1. CASE s \in S
    <3>1. v = u /\ seat'[s] = "AVAILABLE"
      BY <1>3, <2>1 DEF Release, Releasable, EndHold, SetOn, ValidHold, TypeOK, SeatsTyped
    <3>. QED BY <1>3, <2>1, <3>1 DEF GivesUp
  <2>2. CASE s \notin S
    BY <1>3, <2>2 DEF Release, EndHold, SetOn, ValidHold, TypeOK, SeatsTyped
  <2>. QED BY <2>1, <2>2
<1>4. CASE Sweep
  <2>1. PICK S \in Oldest(ExpiredSeats, SweepBatch, left) : EndHold(S, "AVAILABLE")
    BY <1>4 DEF Sweep, SweepFrom
  <2>2. S \subseteq ExpiredSeats
    BY <2>1, OldestSubset
  <2>3. ASSUME NEW s \in Seats, NEW u \in Users, ValidHold(s, u)
        PROVE  s \notin S
    BY <2>2, <2>3 DEF ExpiredSeats, ValidHold, TypeOK, SeatsTyped
  <2>. QED BY <2>1, <2>3 DEF EndHold, SetOn, ValidHold, TypeOK, SeatsTyped, SeatKept
<1>5. ASSUME NEW p \in Procs, BookSeats(p) \/ Close(p) \/ RecordRefunded(p)
      PROVE  SeatKept
  <2>1. job[p] \in Orders
    BY <1>5, JobTyped DEF BookSeats, Close, RecordRefunded, PutOnRecord
  <2>. QED BY <1>1, <1>5, <2>1, BookKeeps, CloseKeeps
           DEF BookSeats, Close, CloseUnpaid, RecordRefunded, PutOnRecord, seatVars
<1>6. ASSUME NEW p \in Procs, Work(p)
      PROVE  SeatKept
  BY <1>1, <1>5, <1>6
  DEF Work, Approve, Confirm, Refund, RecordFailed, Scan, Inquire, Conclusive, Inconclusive,
      CancelRefund, CancelFailed, CancelCommit, Restore, seatVars
<1>. QED BY <1>1, <1>2, <1>3, <1>4, <1>6
         DEF Next, Tick, PlaceOpen, Webhook, CancelStart, Crash, vars, seatVars

\* Whatever runs at the same time: while a hold is valid the seat is its holder's,
\* who may give it up; nobody else holds it and no other order passes the check of
\* confirm_paid().  Only a confirmation that passed it before can book the seat, as
\* the code lets it.
THEOREM HoldsProtect == Spec => HoldProtectsSeat
<1>1. TypeOK /\ [Next]_vars =>
        [\A s \in Seats, u \in Users :
           ValidHold(s, u) =>
             /\ \/ heldBy'[s] = u
                \/ GivesUp(u, s)
                \/ /\ seat'[s] = "BOOKED"
                   /\ \E p \in Procs : pc[p] = "book" /\ job[p] = item'[s]
             /\ \A p \in Procs :
                  pc[p] # "book" /\ pc'[p] = "book" /\ s \in seatIds[job'[p]]
                    => buyer[job'[p]] = u]_vars
  <2>. SUFFICES ASSUME TypeOK, [Next]_vars,
                       NEW s \in Seats, NEW u \in Users, ValidHold(s, u)
                PROVE  /\ \/ heldBy'[s] = u
                          \/ GivesUp(u, s)
                          \/ /\ seat'[s] = "BOOKED"
                             /\ \E p \in Procs : pc[p] = "book" /\ job[p] = item'[s]
                       /\ \A p \in Procs :
                            pc[p] # "book" /\ pc'[p] = "book" /\ s \in seatIds[job'[p]]
                              => buyer[job'[p]] = u
    OBVIOUS
  <2>1. \A p \in Procs :
          pc[p] # "book" /\ pc'[p] = "book" /\ s \in seatIds[job'[p]] => buyer[job'[p]] = u
    BY PassesWithHolds DEF Claimed, ValidHold
  <2>. QED BY <2>1, SeatKeptStep DEF SeatKept
<1>. QED BY <1>1, TypeCorrect, PTL DEF Spec, HoldProtectsSeat
=============================================================================
