--------------------------- MODULE SeatGateProofs ---------------------------
(***************************************************************************)
(* What is proved of SeatGate, for any seats, users and requests: its      *)
(* types, that the gate never decides who gets a seat, and that nobody     *)
(* removes the key of somebody else.                                       *)
(***************************************************************************)
EXTENDS SeatGateProps, TLAPS

-----------------------------------------------------------------------------
(* TypeOK in three parts: keys, rows and requests.                         *)

KeysOK ==
  /\ key \in [Seats -> Users \union {NoUser}]
  /\ keyLeft \in [Seats -> 0..HoldTTL]
  /\ \A s \in Seats : key[s] = NoUser <=> keyLeft[s] = 0

RowsOK ==
  /\ seat \in [Seats -> {"AVAILABLE", "HELD", "BOOKED"}]
  /\ heldBy \in [Seats -> Users \union {NoUser}]
  /\ left \in [Seats -> -1..HoldTTL]
  /\ \A s \in Seats : /\ seat[s] = "HELD" <=> heldBy[s] # NoUser
                      /\ seat[s] # "HELD" => left[s] = 0

RequestsOK ==
  /\ pc \in [Requests -> PCs]
  /\ user \in [Requests -> Users \union {NoUser}]
  /\ want \in [Requests -> SUBSET Seats]
  /\ \A r \in Requests : /\ pc[r] = "idle" <=> user[r] = NoUser
                         /\ pc[r] = "idle" <=> want[r] = {}

FaultsOK == faults \in 0..MaxFaults

\* The parts make up TypeOK, before and after a step.
LEMMA TypeParts ==
  /\ TypeOK <=> KeysOK /\ RowsOK /\ RequestsOK /\ FaultsOK
  /\ TypeOK' <=> KeysOK' /\ RowsOK' /\ RequestsOK' /\ FaultsOK'
BY DEF TypeOK, KeysOK, RowsOK, RequestsOK, FaultsOK

\* The bound on faults is kept by a step that counts one, or none.
LEMMA FaultsKept ==
  ASSUME FaultsOK, Fault \/ NoFault
  PROVE  FaultsOK'
BY BoundsOK DEF FaultsOK, Fault, NoFault

\* A request under way that goes on keeps its user and its seats.
LEMMA GotoOK ==
  ASSUME RequestsOK, NEW r \in Requests, NEW l \in PCs \ {"idle"},
         pc[r] # "idle", Goto(r, l)
  PROVE  RequestsOK'
BY DEF RequestsOK, Goto

\* A request that ends loses them.
LEMMA DoneOK ==
  ASSUME RequestsOK, NEW r \in Requests, Done(r)
  PROVE  RequestsOK'
BY DEF RequestsOK, Done, PCs

\* A request that starts.
LEMMA StartOK ==
  ASSUME RequestsOK, NEW r \in Requests, NEW u \in Users, NEW S \in SUBSET Seats,
         NEW l \in PCs \ {"idle"}, S # {},
         pc' = [pc EXCEPT ![r] = l],
         user' = [user EXCEPT ![r] = u],
         want' = [want EXCEPT ![r] = S]
  PROVE  RequestsOK'
BY NoUserOK DEF RequestsOK

\* The release script removes values together with their expiry.
LEMMA RemoveKeysOK ==
  ASSUME KeysOK, NEW S, RemoveKeys(S)
  PROVE  KeysOK'
BY TimesOK DEF KeysOK, RemoveKeys, SetOn

\* The acquire script sets values together with their expiry.
LEMMA OpenGateOK ==
  ASSUME KeysOK, NEW u \in Users, NEW S \in SUBSET Seats, OpenGate(u, S)
  PROVE  KeysOK'
BY TimesOK, NoUserOK DEF KeysOK, OpenGate, SetOn, KeyTTL

\* A gate found shut only gives keys back.
LEMMA FindShutOK ==
  ASSUME KeysOK, NEW u, NEW S, FindShut(u, S)
  PROVE  KeysOK'
BY RemoveKeysOK DEF FindShut

\* Every statement that ends a hold clears its columns.
LEMMA ClearOK ==
  ASSUME RowsOK, NEW S \in SUBSET Seats, NEW st \in {"AVAILABLE", "BOOKED"},
         Clear(S, st)
  PROVE  RowsOK'
BY TimesOK DEF RowsOK, Clear, SetOn

\* The user of a request that is under way.
LEMMA Busy ==
  ASSUME RequestsOK, NEW r \in Requests, pc[r] # "idle"
  PROVE  user[r] \in Users /\ want[r] \in SUBSET Seats
BY DEF RequestsOK

\* Steps that leave a part alone keep it.
LEMMA KeysUnchanged == KeysOK /\ UNCHANGED gateVars => KeysOK'
BY DEF KeysOK, gateVars

\* The same for the rows,
LEMMA RowsUnchanged == RowsOK /\ UNCHANGED rowVars => RowsOK'
BY DEF RowsOK, rowVars

\* for the requests,
LEMMA RequestsUnchanged == RequestsOK /\ UNCHANGED requestVars => RequestsOK'
BY DEF RequestsOK, requestVars

\* and for the faults.
LEMMA FaultsUnchanged == FaultsOK /\ UNCHANGED faults => FaultsOK'
BY DEF FaultsOK

\* Time runs for keys and holds, and ends keys.
LEMMA TickOK ==
  ASSUME KeysOK, RowsOK, Tick
  PROVE  KeysOK' /\ RowsOK'
<1>1. KeysOK'
  BY TimesOK DEF KeysOK, Tick
<1>2. RowsOK'
  BY TimesOK DEF RowsOK, Tick
<1>. QED BY <1>1, <1>2

\* The first state is typed.
LEMMA TypeInit == Init => TypeOK
BY TimesOK, BoundsOK DEF Init, TypeOK, PCs

\* What a started request does.
LEMMA TypeWork ==
  ASSUME TypeOK, NEW r \in Requests, Work(r)
  PROVE  TypeOK'
<1>. USE TypeParts
<1>1. CASE Gate(r)
  <2>1. user[r] \in Users /\ want[r] \in SUBSET Seats
    BY <1>1, Busy DEF Gate
  <2>2. KeysOK'
    BY <1>1, <2>1, OpenGateOK, FindShutOK, KeysUnchanged DEF Gate
  <2>3. RequestsOK'
    <3>1. CASE Done(r)
      BY <3>1, DoneOK
    <3>2. CASE Goto(r, "gate") \/ Goto(r, "gated") \/ Goto(r, "ungated")
      BY <1>1, <3>2, GotoOK DEF Gate, PCs
    <3>. QED BY <1>1, <3>1, <3>2 DEF Gate
  <2>4. RowsOK'
    BY <1>1, RowsUnchanged DEF Gate
  <2>5. FaultsOK'
    BY <1>1, FaultsKept DEF Gate
  <2>. QED BY <2>2, <2>3, <2>4, <2>5
<1>2. CASE Hold(r)
  <2>1. user[r] \in Users /\ want[r] \in SUBSET Seats
    BY <1>2, Busy DEF Hold
  <2>2. RowsOK'
    BY <1>2, <2>1, TimesOK, NoUserOK DEF RowsOK, Hold, TryClaim, Claim, SetOn
  <2>. QED BY <1>2, <2>2, DoneOK, KeysUnchanged, FaultsUnchanged DEF Hold
<1>3. CASE Refused(r)
  <2>1. RequestsOK'
    <3>1. CASE pc[r] = "gated" /\ Goto(r, "return")
      BY <3>1, GotoOK DEF PCs
    <3>2. CASE pc[r] = "ungated" /\ Done(r)
      BY <3>2, DoneOK
    <3>. QED BY <1>3, <3>1, <3>2 DEF Refused
  <2>. QED BY <1>3, <2>1, KeysUnchanged, RowsUnchanged, FaultsUnchanged DEF Refused
<1>4. CASE Return(r)
  <2>1. KeysOK'
    BY <1>4, RemoveKeysOK, KeysUnchanged DEF Return
  <2>. QED BY <1>4, <2>1, DoneOK, RowsUnchanged, FaultsKept DEF Return
<1>5. CASE ClearGate(r)
  <2>1. KeysOK'
    BY <1>5, RemoveKeysOK, KeysUnchanged DEF ClearGate
  <2>2. RequestsOK'
    BY <1>5, GotoOK DEF ClearGate, PCs
  <2>. QED BY <1>5, <2>1, <2>2, RowsUnchanged, FaultsKept DEF ClearGate
<1>6. CASE CommitRelease(r)
  <2>1. want[r] \in SUBSET Seats
    BY <1>6, Busy DEF CommitRelease
  <2>. QED BY <1>6, <2>1, ClearOK, DoneOK, KeysUnchanged, FaultsUnchanged
           DEF CommitRelease
<1>. QED BY <1>1, <1>2, <1>3, <1>4, <1>5, <1>6 DEF Work

\* Every step keeps TypeOK.
LEMMA TypeStep == TypeOK /\ [Next]_vars => TypeOK'
<1>. SUFFICES ASSUME TypeOK, [Next]_vars PROVE TypeOK'
  OBVIOUS
<1>. USE TypeParts
<1>1. ASSUME NEW r \in Requests, NEW u \in Users, NEW S \in SUBSET Seats,
             Acquire(r, u, S)
      PROVE  TypeOK'
  <2>1. RequestsOK'
    BY <1>1, StartOK DEF Acquire, PCs
  <2>. QED BY <1>1, <2>1, KeysUnchanged, RowsUnchanged, FaultsUnchanged DEF Acquire
<1>2. ASSUME NEW r \in Requests, NEW u \in Users, NEW S \in SUBSET Seats,
             Release(r, u, S)
      PROVE  TypeOK'
  <2>1. RequestsOK'
    BY <1>2, StartOK DEF Release, PCs
  <2>. QED BY <1>2, <2>1, KeysUnchanged, RowsUnchanged, FaultsUnchanged DEF Release
<1>3. ASSUME NEW r \in Requests, Work(r)
      PROVE  TypeOK'
  BY <1>3, TypeWork
<1>4. ASSUME NEW r \in Requests, Crash(r)
      PROVE  TypeOK'
  BY <1>4, DoneOK, KeysUnchanged, RowsUnchanged, FaultsKept DEF Crash
<1>5. ASSUME NEW u \in Users, NEW S \in SUBSET Seats, Book(u, S) \/ CloseUnpaid(u, S)
      PROVE  TypeOK'
  <2>1. RowsOK'
    BY <1>5, ClearOK DEF Book, CloseUnpaid
  <2>. QED BY <1>5, <2>1, KeysUnchanged, RequestsUnchanged, FaultsUnchanged
           DEF Book, CloseUnpaid
<1>6. ASSUME NEW S \in SUBSET Seats, Restore(S)
      PROVE  TypeOK'
  <2>1. RowsOK'
    BY <1>6 DEF RowsOK, Restore, SetOn
  <2>. QED BY <1>6, <2>1, KeysUnchanged, RequestsUnchanged, FaultsUnchanged DEF Restore
<1>7. CASE Sweep
  <2>1. RowsOK'
    BY <1>7, ClearOK DEF Sweep
  <2>. QED BY <1>7, <2>1, KeysUnchanged, RequestsUnchanged, FaultsUnchanged DEF Sweep
<1>8. CASE Tick
  BY <1>8, TickOK, RequestsUnchanged, FaultsUnchanged DEF Tick
<1>9. CASE Flush
  BY <1>9, RemoveKeysOK, RowsUnchanged, RequestsUnchanged, FaultsKept DEF Flush
<1>10. CASE UNCHANGED vars
  BY <1>10, KeysUnchanged, RowsUnchanged, RequestsUnchanged, FaultsUnchanged
     DEF vars, gateVars, rowVars, requestVars
<1>. QED BY <1>1, <1>2, <1>3, <1>4, <1>5, <1>6, <1>7, <1>8, <1>9, <1>10, WishesOK DEF Next

\* Keys, rows and requests keep their domains in every reachable state.
THEOREM GateTypes == Spec => []TypeOK
BY TypeInit, TypeStep, PTL DEF Spec

-----------------------------------------------------------------------------
(* The rows of a release under way: nobody else changes them before its    *)
(* commit.                                                                 *)

Releasing == {"clear", "commit"}

\* A release that has issued its statement still finds its rows HELD by its user,
\* and no two releases have a row in common.
LocksHeld ==
  /\ \A r \in Requests : pc[r] \in Releasing =>
       \A s \in want[r] : seat[s] = "HELD" /\ heldBy[s] = user[r]
  /\ \A r, q \in Requests :
       r # q /\ pc[r] \in Releasing /\ pc[q] \in Releasing
         => want[r] \intersect want[q] = {}

\* A step that starts no release and changes no row of one that goes on.
LEMMA LocksKept ==
  ASSUME LocksHeld,
         \A q \in Requests : pc'[q] \in Releasing =>
           /\ pc[q] \in Releasing /\ want'[q] = want[q] /\ user'[q] = user[q]
           /\ \A s \in want[q] : seat'[s] = seat[s] /\ heldBy'[s] = heldBy[s]
  PROVE  LocksHeld'
BY DEF LocksHeld

\* A seat that is not Locked is in no release.
LEMMA NotLocked ==
  ASSUME NEW S, S \intersect Locked = {}, NEW q \in Requests, pc[q] \in Releasing
  PROVE  want[q] \intersect S = {}
BY DEF Locked, Releasing

\* The rows outside S stay as they are.
OnlyOn(S) == \A s \in Seats \ S : seat'[s] = seat[s] /\ heldBy'[s] = heldBy[s]

\* Every step keeps LocksHeld: whoever else changes a row found it not Locked.
LEMMA LocksStep == TypeOK /\ LocksHeld /\ [Next]_vars => LocksHeld'
<1>. SUFFICES ASSUME TypeOK, LocksHeld, [Next]_vars PROVE LocksHeld'
  OBVIOUS
<1>. /\ KeysOK /\ RowsOK /\ RequestsOK
  BY TypeParts
<1>1. ASSUME UNCHANGED <<seat, heldBy>>,
             \A q \in Requests : pc'[q] \in Releasing =>
               pc[q] \in Releasing /\ want'[q] = want[q] /\ user'[q] = user[q]
      PROVE  LocksHeld'
  BY <1>1, LocksKept
<1>2. ASSUME UNCHANGED requestVars, NEW S, S \intersect Locked = {}, OnlyOn(S)
      PROVE  LocksHeld'
  BY <1>2, NotLocked, LocksKept DEF OnlyOn, requestVars, RequestsOK
<1>3. ASSUME NEW r \in Requests, NEW u \in Users, NEW S \in SUBSET Seats,
             Acquire(r, u, S)
      PROVE  LocksHeld'
  BY <1>3, <1>1 DEF Acquire, rowVars, RequestsOK, Releasing
<1>4. ASSUME NEW r \in Requests, NEW u \in Users, NEW S \in SUBSET Seats,
             Release(r, u, S)
      PROVE  LocksHeld'
  <2>1. \A q \in Requests \ {r} : pc'[q] = pc[q] /\ want'[q] = want[q] /\ user'[q] = user[q]
    BY <1>4 DEF Release, RequestsOK
  <2>2. pc'[r] = "clear" /\ want'[r] = S /\ user'[r] = u
    BY <1>4 DEF Release, RequestsOK
  <2>3. \A s \in S : seat[s] = "HELD" /\ heldBy[s] = u
    BY <1>4 DEF Release, Releasable
  <2>4. UNCHANGED <<seat, heldBy>>
    BY <1>4 DEF Release, rowVars
  <2>5. \A q \in Requests : pc[q] \in Releasing => want[q] \intersect S = {}
    BY <1>4, NotLocked DEF Release
  <2>. QED BY <2>1, <2>2, <2>3, <2>4, <2>5 DEF LocksHeld
<1>5. ASSUME NEW r \in Requests, Gate(r) \/ Refused(r) \/ Return(r) \/ Crash(r)
      PROVE  LocksHeld'
  BY <1>5, <1>1 DEF Gate, Refused, Return, Crash, Goto, Done, rowVars, RequestsOK, Releasing
<1>6. ASSUME NEW r \in Requests, Hold(r)
      PROVE  LocksHeld'
  <2>1. \A q \in Requests : pc'[q] \in Releasing =>
          q # r /\ pc[q] \in Releasing /\ want'[q] = want[q] /\ user'[q] = user[q]
    BY <1>6 DEF Hold, Done, RequestsOK, Releasing
  <2>2. want[r] \intersect Locked = {}
    BY <1>6 DEF Hold, TryClaim
  <2>3. \A s \in Seats \ want[r] : seat'[s] = seat[s] /\ heldBy'[s] = heldBy[s]
    BY <1>6 DEF Hold, TryClaim, Claim, SetOn, RowsOK
  <2>. QED BY <2>1, <2>2, <2>3, NotLocked, LocksKept DEF RequestsOK
<1>7. ASSUME NEW r \in Requests, ClearGate(r)
      PROVE  LocksHeld'
  BY <1>7, <1>1 DEF ClearGate, Goto, rowVars, RequestsOK, Releasing
<1>8. ASSUME NEW r \in Requests, CommitRelease(r)
      PROVE  LocksHeld'
  <2>1. \A q \in Requests : pc'[q] \in Releasing =>
          q # r /\ pc[q] \in Releasing /\ want'[q] = want[q] /\ user'[q] = user[q]
    BY <1>8 DEF CommitRelease, Done, RequestsOK, Releasing
  <2>2. \A q \in Requests : q # r /\ pc[q] \in Releasing => want[q] \intersect want[r] = {}
    BY <1>8 DEF CommitRelease, LocksHeld, Releasing
  <2>3. \A s \in Seats \ want[r] : seat'[s] = seat[s] /\ heldBy'[s] = heldBy[s]
    BY <1>8 DEF CommitRelease, Clear, SetOn, RowsOK
  <2>. QED BY <2>1, <2>2, <2>3, LocksKept DEF RequestsOK
<1>9. ASSUME NEW u \in Users, NEW S \in SUBSET Seats, Book(u, S) \/ CloseUnpaid(u, S)
      PROVE  LocksHeld'
  BY <1>9, <1>2 DEF Book, CloseUnpaid, Clear, SetOn, RowsOK, OnlyOn
<1>10. ASSUME NEW S \in SUBSET Seats, Restore(S)
       PROVE  LocksHeld'
  <2>1. S \intersect Locked = {}
    BY <1>10 DEF Restore, Locked, LocksHeld, Releasing
  <2>. QED BY <1>10, <2>1, <1>2 DEF Restore, SetOn, RowsOK, OnlyOn
<1>11. CASE Sweep
  <2>1. PICK S \in SUBSET {s \in Seats \ Locked : seat[s] = "HELD" /\ left[s] < 0} :
          Clear(S, "AVAILABLE") /\ UNCHANGED requestVars
    BY <1>11 DEF Sweep
  <2>. QED BY <2>1, <1>2 DEF Clear, SetOn, RowsOK, OnlyOn
<1>12. CASE Tick \/ Flush \/ UNCHANGED vars
  BY <1>12, <1>1 DEF Tick, Flush, vars, requestVars, rowVars
<1>. QED BY <1>3, <1>4, <1>5, <1>6, <1>7, <1>8, <1>9, <1>10, <1>11, <1>12, WishesOK
         DEF Next, Work

\* No release is under way at first.
LEMMA LocksInit == Init => LocksHeld
BY DEF Init, LocksHeld, Releasing

\* A release that reaches its commit still ends holds of its own user, and only
\* those (hold_service.py:151-160).
THEOREM LocksAlways == Spec => []LocksHeld
<1>1. TypeOK /\ LocksHeld /\ [Next]_vars => (TypeOK /\ LocksHeld)'
  BY TypeStep, LocksStep
<1>. QED BY <1>1, TypeInit, LocksInit, PTL DEF Spec

-----------------------------------------------------------------------------
(* The gate never decides: SeatGate implements SeatStore.                  *)

\* The mapped variable: whoever has a seat, in a valid hold or by a sale.
Has == [s \in Seats |-> IF seat[s] = "BOOKED" THEN "sold"
                        ELSE IF left[s] > 0 THEN heldBy[s] ELSE NoUser]

\* Steps that leave the rows alone are invisible in the store.
LEMMA SameRows == UNCHANGED rowVars => UNCHANGED Has
BY DEF rowVars, Has

\* Ending holds gives up those that were still valid.
LEMMA ClearGivesUp ==
  ASSUME RowsOK, NEW S \in SUBSET Seats, \A s \in S : seat[s] = "HELD",
         Clear(S, "AVAILABLE")
  PROVE  Store!Next
<1>. PICK V \in SUBSET Seats : V = {s \in S : left[s] > 0}
  OBVIOUS
<1>1. \A s \in V : Has[s] \in Users
  BY DEF RowsOK, Has
<1>2. Has' = [s \in Seats |-> IF s \in V THEN NoUser ELSE Has[s]]
  BY DEF RowsOK, Has, Clear, SetOn
<1>3. Store!GiveUp(V)
  BY <1>1, <1>2 DEF Store!GiveUp, Store!Change, Has
<1>. QED BY <1>3 DEF Store!Next

\* A transaction that takes seats takes free ones.
LEMMA HoldTakes ==
  ASSUME RowsOK, NEW r \in Requests, TryClaim(r),
         NEW u \in Users, u = user[r], NEW S \in SUBSET Seats, S = want[r]
  PROVE  Store!Next
<1>1. \A s \in S : Has[s] = NoUser
  BY DEF RowsOK, Has, TryClaim, Claimable
<1>2. Has' = [s \in Seats |-> IF s \in S THEN u ELSE Has[s]]
  BY TimesOK DEF RowsOK, Has, TryClaim, Claim, SetOn
<1>3. Store!Take(u, S)
  BY <1>1, <1>2 DEF Store!Take, Store!Change, Has
<1>. QED BY <1>3 DEF Store!Next

\* A confirmed order sells the seats its buyer holds.
LEMMA BookSells ==
  ASSUME RowsOK, NEW u \in Users, NEW S \in SUBSET Seats, Book(u, S)
  PROVE  Store!Next
<1>1. \A s \in S : Has[s] = u
  BY DEF Has, Book, ValidHold
<1>2. Has' = [s \in Seats |-> IF s \in S THEN "sold" ELSE Has[s]]
  BY DEF RowsOK, Has, Book, Clear, SetOn
<1>3. Store!Sell(u, S)
  BY <1>1, <1>2 DEF Store!Sell, Store!Change, Has
<1>. QED BY <1>3 DEF Store!Next

\* A cancellation takes sold seats back.
LEMMA RestoreTakesBack ==
  ASSUME RowsOK, NEW S \in SUBSET Seats, Restore(S)
  PROVE  Store!Next
<1>1. \A s \in S : Has[s] = "sold"
  BY DEF Has, Restore
<1>2. Has' = [s \in Seats |-> IF s \in S THEN NoUser ELSE Has[s]]
  BY DEF RowsOK, Has, Restore, SetOn
<1>3. Store!TakeBack(S)
  BY <1>1, <1>2 DEF Store!TakeBack, Store!Change, Has
<1>. QED BY <1>3 DEF Store!Next

\* Time gives up the holds it ends.
LEMMA TickGivesUp ==
  ASSUME RowsOK, Tick
  PROVE  Store!Next
<1>. PICK V \in SUBSET Seats : V = {s \in Seats : seat[s] = "HELD" /\ left[s] = 1}
  OBVIOUS
<1>1. \A s \in V : Has[s] \in Users
  BY DEF RowsOK, Has
<1>2. Has' = [s \in Seats |-> IF s \in V THEN NoUser ELSE Has[s]]
  <2>1. ASSUME NEW s \in Seats
        PROVE  Has'[s] = IF s \in V THEN NoUser ELSE Has[s]
    <3>1. seat'[s] = seat[s] /\ heldBy'[s] = heldBy[s]
      BY DEF Tick
    <3>2. left'[s] = IF seat[s] = "HELD" /\ left[s] > -1 THEN left[s] - 1 ELSE left[s]
      BY DEF Tick
    <3>3. left[s] \in Int
      BY TimesOK DEF RowsOK
    <3>. QED BY <3>1, <3>2, <3>3 DEF RowsOK, Has
  <2>. QED BY <2>1 DEF Has
<1>3. Store!GiveUp(V)
  BY <1>1, <1>2 DEF Store!GiveUp, Store!Change, Has
<1>. QED BY <1>3 DEF Store!Next

\* At first every seat is free in both.
LEMMA StoreInit == Init => Store!Init
BY DEF Init, Store!Init

\* Every step is one of the store, or invisible there.
LEMMA StoreStep == TypeOK /\ LocksHeld /\ [Next]_vars => Store!Next \/ UNCHANGED Has
<1>. SUFFICES ASSUME TypeOK, LocksHeld, [Next]_vars
              PROVE  Store!Next \/ UNCHANGED Has
  OBVIOUS
<1>. RowsOK /\ RequestsOK
  BY TypeParts
<1>1. ASSUME NEW r \in Requests, NEW u \in Users, NEW S \in SUBSET Seats,
             Acquire(r, u, S) \/ Release(r, u, S)
      PROVE  UNCHANGED Has
  BY <1>1, SameRows DEF Acquire, Release
<1>2. ASSUME NEW r \in Requests,
             Gate(r) \/ Refused(r) \/ Return(r) \/ ClearGate(r) \/ Crash(r)
      PROVE  UNCHANGED Has
  BY <1>2, SameRows DEF Gate, Refused, Return, ClearGate, Crash
<1>3. ASSUME NEW r \in Requests, Hold(r)
      PROVE  Store!Next
  <2>1. user[r] \in Users /\ want[r] \in SUBSET Seats
    BY <1>3, Busy DEF Hold
  <2>. QED BY <1>3, <2>1, HoldTakes DEF Hold
<1>4. ASSUME NEW r \in Requests, CommitRelease(r)
      PROVE  Store!Next
  <2>1. want[r] \in SUBSET Seats /\ \A s \in want[r] : seat[s] = "HELD"
    BY <1>4 DEF CommitRelease, RequestsOK, LocksHeld, Releasing
  <2>. QED BY <1>4, <2>1, ClearGivesUp DEF CommitRelease
<1>5. ASSUME NEW u \in Users, NEW S \in SUBSET Seats, Book(u, S)
      PROVE  Store!Next
  BY <1>5, BookSells
<1>6. ASSUME NEW u \in Users, NEW S \in SUBSET Seats, CloseUnpaid(u, S)
      PROVE  Store!Next
  BY <1>6, ClearGivesUp DEF CloseUnpaid, Releasable
<1>7. ASSUME NEW S \in SUBSET Seats, Restore(S)
      PROVE  Store!Next
  BY <1>7, RestoreTakesBack
<1>8. CASE Sweep
  BY <1>8, ClearGivesUp DEF Sweep
<1>9. CASE Tick
  BY <1>9, TickGivesUp
<1>10. CASE Flush \/ UNCHANGED vars
  BY <1>10, SameRows DEF Flush, vars, rowVars
<1>. QED BY <1>1, <1>2, <1>3, <1>4, <1>5, <1>6, <1>7, <1>8, <1>9, <1>10, WishesOK
         DEF Next, Work

\* Seats change hands as in a store without a gate, whatever Redis says, loses
\* or keeps too long, and whoever crashes where (client.py:323).
THEOREM DatabaseDecides == Spec => GateNeverDecides
<1>1. TypeOK /\ LocksHeld /\ [Next]_vars => [Store!Next]_Has
  BY StoreStep
<1>. QED BY <1>1, StoreInit, GateTypes, LocksAlways, PTL
         DEF Spec, GateNeverDecides, Store!Spec, Has

-----------------------------------------------------------------------------
(* Nobody removes the key of somebody else.                                *)

\* What a request's own step does to keys: only those with its own token, and
\* only free ones become its own.
LEMMA OwnKeysOnly ==
  ASSUME KeysOK, NEW r \in Requests, user[r] \in Users, NEW s \in Seats,
         key[s] \notin {user[r], NoUser},
         Gate(r) \/ Return(r) \/ ClearGate(r)
  PROVE  key'[s] = key[s] /\ keyLeft'[s] = keyLeft[s]
<1>. USE DEF KeysOK
<1>1. ASSUME RemoveKeys(Ours(user[r], want[r]))
      PROVE  key'[s] = key[s] /\ keyLeft'[s] = keyLeft[s]
  BY <1>1 DEF RemoveKeys, Ours, SetOn
<1>2. ASSUME FindShut(user[r], want[r])
      PROVE  key'[s] = key[s] /\ keyLeft'[s] = keyLeft[s]
  BY <1>2 DEF FindShut, RemoveKeys, Ours, SetOn
<1>3. ASSUME OpenGate(user[r], want[r])
      PROVE  key'[s] = key[s] /\ keyLeft'[s] = keyLeft[s]
  BY <1>3 DEF OpenGate, Blocking, SetOn
<1>. QED BY <1>1, <1>2, <1>3 DEF Gate, Return, ClearGate, gateVars

\* The key of s belongs to somebody else than the user of r, who is under way.
ForeignKey(s, r) == user[r] # NoUser /\ key[s] \notin {user[r], NoUser}

\* Of all the steps only the request's own move it on, and of these only the
\* scripts touch keys.
LEMMA ForeignKeyStep ==
  ASSUME TypeOK, [Next]_vars, NEW s \in Seats, NEW r \in Requests,
         pc'[r] # pc[r], ForeignKey(s, r)
  PROVE  key'[s] = key[s] /\ keyLeft'[s] = keyLeft[s]
<1>. KeysOK /\ RequestsOK
  BY TypeParts
<1>. USE DEF ForeignKey
<1>1. pc[r] # "idle" /\ user[r] \in Users
  BY DEF RequestsOK
<1>2. ASSUME NEW q \in Requests, q # r, Work(q) \/ Crash(q)
      PROVE  FALSE
  <2>1. \E l : pc' = [pc EXCEPT ![q] = l]
    BY <1>2 DEF Work, Gate, Hold, Refused, Return, ClearGate, CommitRelease, Crash,
                Goto, Done
  <2>. QED BY <1>2, <2>1 DEF RequestsOK
<1>3. ASSUME NEW q \in Requests, NEW u \in Users, NEW S \in SUBSET Seats,
             Acquire(q, u, S) \/ Release(q, u, S)
      PROVE  FALSE
  <2>1. \E l : pc' = [pc EXCEPT ![q] = l] /\ pc[q] = "idle"
    BY <1>3 DEF Acquire, Release
  <2>. QED BY <1>1, <2>1 DEF RequestsOK
<1>4. ASSUME Tick \/ Flush \/ Sweep \/ UNCHANGED vars
      PROVE  FALSE
  BY <1>4 DEF Tick, Flush, Sweep, vars, requestVars
<1>5. ASSUME NEW u \in Users, NEW S \in SUBSET Seats, Book(u, S) \/ CloseUnpaid(u, S)
      PROVE  FALSE
  BY <1>5 DEF Book, CloseUnpaid, requestVars
<1>6. CASE Work(r) \/ Crash(r)
  <2>1. CASE Gate(r) \/ Return(r) \/ ClearGate(r)
    BY <1>1, <2>1, OwnKeysOnly
  <2>2. CASE Hold(r) \/ Refused(r) \/ CommitRelease(r) \/ Crash(r)
    BY <2>2 DEF Hold, Refused, CommitRelease, Crash, gateVars
  <2>. QED BY <1>6, <2>1, <2>2 DEF Work
<1>7. ASSUME NEW S \in SUBSET Seats, Restore(S)
      PROVE  FALSE
  BY <1>7 DEF Restore, requestVars
<1>. QED BY <1>2, <1>3, <1>4, <1>5, <1>6, <1>7, WishesOK DEF Next

\* A request that goes on or ends never touches the key of another user
\* (seat_gate_release.lua:11-14).
THEOREM ForeignKeysSurvive == Spec => ForeignKeySurvives
<1>1. TypeOK /\ [Next]_vars =>
        [\A s \in Seats, r \in Requests :
           pc'[r] # pc[r] /\ user[r] # NoUser /\ key[s] \notin {user[r], NoUser}
             => key'[s] = key[s] /\ keyLeft'[s] = keyLeft[s]]_vars
  BY ForeignKeyStep DEF ForeignKey
<1>. QED BY <1>1, GateTypes, PTL DEF Spec, ForeignKeySurvives

-----------------------------------------------------------------------------
(* The gate ends before the hold, and no request leaves a ghost: as long   *)
(* as no call fails, a key that would outlive what it stands for has a     *)
(* request that is about to renew the hold or to remove the key.           *)

\* Some request of the key's owner has come through the gate and not yet left.
Attended(s) ==
  \E q \in Requests : /\ pc[q] \in {"gated", "return"}
                      /\ s \in want[q] /\ user[q] = key[s]

\* The key lasts as long as the hold, or a release is about to end the hold.
Late(s) ==
  /\ key[s] # NoUser
  /\ \/ seat[s] = "HELD" /\ heldBy[s] = key[s] /\ left[s] <= keyLeft[s]
     \/ \E q \in Requests : pc[q] = "commit" /\ s \in want[q] /\ user[q] = key[s]

ShortKeys == \A s \in Seats : keyLeft[s] <= GateTTL

KeysAttended ==
  faults = 0 =>
    /\ \A r \in Requests : pc[r] # "ungated"
    /\ \A s \in Seats : Late(s) => Attended(s)

\* No script sets a longer expiry than the gate's, and time only shortens it.
LEMMA ShortKeysStep == TypeOK /\ ShortKeys /\ [Next]_vars => ShortKeys'
<1>. SUFFICES ASSUME TypeOK, ShortKeys, [Next]_vars PROVE ShortKeys'
  OBVIOUS
<1>. KeysOK
  BY TypeParts
<1>1. ASSUME NEW S, RemoveKeys(S) PROVE ShortKeys'
  BY <1>1, TimesOK DEF RemoveKeys, SetOn, ShortKeys, KeysOK
<1>2. ASSUME NEW u, NEW S, OpenGate(u, S) PROVE ShortKeys'
  BY <1>2, TimesOK DEF OpenGate, SetOn, KeyTTL, ShortKeys, KeysOK
<1>3. ASSUME NEW u, NEW S, FindShut(u, S) PROVE ShortKeys'
  BY <1>3, <1>1 DEF FindShut
<1>4. CASE UNCHANGED gateVars
  BY <1>4 DEF gateVars, ShortKeys
<1>5. CASE Tick
  BY <1>5, TimesOK DEF Tick, ShortKeys, KeysOK
<1>6. ASSUME NEW r \in Requests, Work(r) PROVE ShortKeys'
  BY <1>6, <1>1, <1>2, <1>3, <1>4
     DEF Work, Gate, Hold, Refused, Return, ClearGate, CommitRelease
<1>7. ASSUME NEW r \in Requests, Crash(r) PROVE ShortKeys'
  BY <1>7, <1>4 DEF Crash
<1>8. ASSUME NEW r \in Requests, NEW u \in Users, NEW S \in Wishes,
             Acquire(r, u, S) \/ Release(r, u, S)
      PROVE  ShortKeys'
  BY <1>8, <1>4 DEF Acquire, Release
<1>9. ASSUME NEW u, NEW S, Book(u, S) \/ CloseUnpaid(u, S) \/ Restore(S)
      PROVE  ShortKeys'
  BY <1>9, <1>4 DEF Book, CloseUnpaid, Restore
<1>10. CASE Sweep \/ UNCHANGED vars
  BY <1>10, <1>4 DEF Sweep, vars, gateVars
<1>11. CASE Flush
  BY <1>11, <1>1 DEF Flush
<1>12. (\E u \in Users, S \in Wishes : Book(u, S) \/ CloseUnpaid(u, S))
         \/ (\E S \in Wishes : Restore(S)) => ShortKeys'
  BY <1>9
<1>. QED BY <1>5, <1>6, <1>7, <1>8, <1>10, <1>11, <1>12 DEF Next

\* A key that became late only by the step must be attended after it; a key that
\* was late before is still, when its attendant goes on waiting.
LEMMA AttendedKept ==
  ASSUME KeysAttended, faults = 0,
         \A q \in Requests : pc'[q] # "ungated",
         \A s \in Seats : Late(s)' =>
           \/ Attended(s)'
           \/ /\ Late(s) /\ key'[s] = key[s]
              /\ \A q \in Requests :
                   pc[q] \in {"gated", "return"} /\ s \in want[q] /\ user[q] = key[s] =>
                     pc'[q] \in {"gated", "return"} /\ want'[q] = want[q] /\ user'[q] = user[q]
  PROVE  KeysAttended'
<1>1. ASSUME NEW s \in Seats, Late(s)' PROVE Attended(s)'
  <2>1. CASE Attended(s)'
    BY <2>1
  <2>2. CASE /\ Late(s) /\ key'[s] = key[s]
             /\ \A q \in Requests :
                  pc[q] \in {"gated", "return"} /\ s \in want[q] /\ user[q] = key[s] =>
                    pc'[q] \in {"gated", "return"} /\ want'[q] = want[q] /\ user'[q] = user[q]
    <3>1. Attended(s)
      BY <2>2 DEF KeysAttended
    <3>2. PICK q \in Requests :
            pc[q] \in {"gated", "return"} /\ s \in want[q] /\ user[q] = key[s]
      BY <3>1 DEF Attended
    <3>. QED BY <2>2, <3>2 DEF Attended
  <2>. QED BY <1>1, <2>1, <2>2
<1>. QED BY <1>1 DEF KeysAttended

\* Steps of the rows alone make no key late when they end holds only.
LEMMA EndingKept ==
  ASSUME KeysAttended, RowsOK, faults = 0, UNCHANGED <<gateVars, requestVars>>,
         \A s \in Seats : seat'[s] = "HELD" =>
           seat[s] = "HELD" /\ heldBy'[s] = heldBy[s] /\ left'[s] = left[s]
  PROVE  KeysAttended'
<1>1. \A q \in Requests : pc'[q] # "ungated"
  BY DEF KeysAttended, requestVars
<1>2. ASSUME NEW s \in Seats, Late(s)'
      PROVE  Late(s) /\ key'[s] = key[s]
  BY <1>2 DEF Late, gateVars, requestVars
<1>. QED BY <1>1, <1>2, AttendedKept DEF requestVars

\* A script that removes keys leaves the others as they are; of its own request
\* no key is left.
LEMMA RemovingKept ==
  ASSUME TypeOK, KeysAttended, faults = 0, NEW r \in Requests, pc[r] # "idle",
         NEW S, S \subseteq Ours(user[r], want[r]), RemoveKeys(S), UNCHANGED rowVars,
         NEW l, Goto(r, l) \/ Done(r), l # "ungated",
         pc[r] \in {"gated", "return"} \/ l = "commit" => S = Ours(user[r], want[r])
  PROVE  KeysAttended'
<1>. KeysOK /\ RowsOK /\ RequestsOK
  BY TypeParts
<1>1. /\ \A q \in Requests \ {r} : pc'[q] = pc[q] /\ want'[q] = want[q] /\ user'[q] = user[q]
      /\ pc'[r] \in {l, "idle"}
      /\ pc'[r] # "idle" => want'[r] = want[r] /\ user'[r] = user[r]
      /\ pc'[r] = "commit" => l = "commit"
  BY DEF Goto, Done, RequestsOK
<1>2. \A s \in Seats : key'[s] = IF s \in S THEN NoUser ELSE key[s]
  BY DEF RemoveKeys, SetOn, KeysOK
<1>3. \A s \in Seats \ S : keyLeft'[s] = keyLeft[s]
  BY DEF RemoveKeys, SetOn, KeysOK
<1>4. \A q \in Requests : pc'[q] # "ungated"
  BY <1>1 DEF KeysAttended
<1>5. ASSUME NEW s \in Seats, Late(s)'
      PROVE  /\ Late(s) /\ key'[s] = key[s]
             /\ \A q \in Requests :
                  pc[q] \in {"gated", "return"} /\ s \in want[q] /\ user[q] = key[s] =>
                    q # r
  <2>1. s \notin S
    BY <1>2, <1>5 DEF Late
  <2>2. key'[s] = key[s] /\ keyLeft'[s] = keyLeft[s] /\ key[s] # NoUser
    BY <1>2, <1>3, <1>5, <2>1 DEF Late
  <2>3. ASSUME NEW q \in Requests, pc'[q] = "commit", s \in want'[q], user'[q] = key'[s]
        PROVE  pc[q] = "commit" /\ s \in want[q] /\ user[q] = key[s]
    <3>1. CASE q = r
      BY <1>1, <2>1, <2>2, <2>3, <3>1 DEF Ours
    <3>2. CASE q # r
      BY <1>1, <2>2, <2>3, <3>2
    <3>. QED BY <3>1, <3>2
  <2>4. Late(s)
    BY <1>5, <2>2, <2>3 DEF Late, rowVars
  <2>5. ~(pc[r] \in {"gated", "return"} /\ s \in want[r] /\ user[r] = key[s])
    BY <2>1 DEF Ours
  <2>. QED BY <2>2, <2>4, <2>5
<1>. QED BY <1>1, <1>4, <1>5, AttendedKept

\* A step that leaves keys and rows alone, while every attendant goes on waiting
\* and no request comes to its commit.
LEMMA WaitingKept ==
  ASSUME KeysAttended, faults = 0, UNCHANGED <<gateVars, rowVars>>,
         \A q \in Requests :
           /\ pc'[q] # "ungated"
           /\ pc[q] \in {"gated", "return"} =>
                pc'[q] \in {"gated", "return"} /\ want'[q] = want[q] /\ user'[q] = user[q]
           /\ pc'[q] = "commit" =>
                pc[q] = "commit" /\ want'[q] = want[q] /\ user'[q] = user[q]
  PROVE  KeysAttended'
<1>1. ASSUME NEW s \in Seats, Late(s)'
      PROVE  Late(s) /\ key'[s] = key[s]
  BY <1>1 DEF Late, gateVars, rowVars
<1>. QED BY <1>1, AttendedKept

\* A request that comes through the gate attends to the keys it has just set.
LEMMA OpeningKept ==
  ASSUME TypeOK, KeysAttended, faults = 0, NEW r \in Requests, pc[r] = "gate",
         OpenGate(user[r], want[r]), Goto(r, "gated"), UNCHANGED rowVars
  PROVE  KeysAttended'
<1>. KeysOK /\ RowsOK /\ RequestsOK
  BY TypeParts
<1>1. /\ \A q \in Requests \ {r} : pc'[q] = pc[q]
      /\ pc'[r] = "gated" /\ UNCHANGED <<user, want>>
  BY DEF Goto, RequestsOK
<1>2. \A q \in Requests : pc'[q] # "ungated"
  BY <1>1 DEF KeysAttended
<1>3. ASSUME NEW s \in Seats, s \in want[r]
      PROVE  Attended(s)'
  BY <1>1, <1>3 DEF Attended, OpenGate, SetOn, KeysOK
<1>4. ASSUME NEW s \in Seats, s \notin want[r], Late(s)'
      PROVE  Late(s) /\ key'[s] = key[s]
  <2>1. key'[s] = key[s] /\ keyLeft'[s] = keyLeft[s]
    BY <1>4 DEF OpenGate, SetOn, KeysOK
  <2>. QED BY <1>1, <1>4, <2>1 DEF Late, rowVars
<1>. QED BY <1>1, <1>2, <1>3, <1>4, AttendedKept

\* A hold that is taken lasts longer than its keys, and no release can be about to
\* end it: its rows were not locked.
LEMMA HoldKept ==
  ASSUME TypeOK, ShortKeys, KeysAttended, faults = 0, NEW r \in Requests, Hold(r)
  PROVE  KeysAttended'
<1>. KeysOK /\ RowsOK /\ RequestsOK
  BY TypeParts
<1>1. /\ \A q \in Requests \ {r} : pc'[q] = pc[q] /\ want'[q] = want[q] /\ user'[q] = user[q]
      /\ pc'[r] = "idle" /\ UNCHANGED gateVars
  BY DEF Hold, Done, RequestsOK
<1>2. \A q \in Requests : pc'[q] # "ungated"
  BY <1>1 DEF KeysAttended
<1>3. /\ want[r] \intersect Locked = {}
      /\ \A s \in want[r] : left'[s] = HoldTTL
      /\ \A s \in Seats \ want[r] :
           seat'[s] = seat[s] /\ heldBy'[s] = heldBy[s] /\ left'[s] = left[s]
  BY DEF Hold, TryClaim, Claim, SetOn, RowsOK, RequestsOK
<1>4. ASSUME NEW s \in Seats, Late(s)'
      PROVE  Late(s) /\ s \notin want[r]
  <2>1. s \notin want[r]
    <3>. SUFFICES ASSUME s \in want[r] PROVE FALSE
      OBVIOUS
    <3>1. ~(left'[s] <= keyLeft'[s])
      BY <1>1, <1>3, TimesOK DEF ShortKeys, KeysOK, gateVars
    <3>2. PICK q \in Requests : pc'[q] = "commit" /\ s \in want'[q]
      BY <1>4, <3>1 DEF Late
    <3>3. q # r /\ pc[q] \in Releasing /\ s \in want[q]
      BY <1>1, <3>2 DEF Releasing
    <3>. QED BY <1>3, <3>3, NotLocked
  <2>. QED BY <1>1, <1>3, <1>4, <2>1 DEF Late, gateVars
<1>5. ASSUME NEW s \in Seats, Late(s)'
      PROVE  /\ Late(s) /\ key'[s] = key[s]
             /\ \A q \in Requests :
                  pc[q] \in {"gated", "return"} /\ s \in want[q] /\ user[q] = key[s] =>
                    pc'[q] \in {"gated", "return"} /\ want'[q] = want[q] /\ user'[q] = user[q]
  BY <1>1, <1>4, <1>5 DEF gateVars
<1>. QED BY <1>2, <1>5, AttendedKept

\* Time takes one from both, or ends the key.
LEMMA TickKept ==
  ASSUME TypeOK, KeysAttended, faults = 0, Tick
  PROVE  KeysAttended'
<1>. KeysOK /\ RowsOK
  BY TypeParts
<1>1. UNCHANGED requestVars /\ UNCHANGED <<seat, heldBy>>
  BY DEF Tick
<1>2. ASSUME NEW s \in Seats, Late(s)'
      PROVE  Late(s) /\ key'[s] = key[s]
  <2>1. key'[s] = (IF keyLeft[s] = 1 THEN NoUser ELSE key[s]) /\ key'[s] # NoUser
    BY <1>2 DEF Tick, Late
  <2>2. key'[s] = key[s] /\ keyLeft[s] \in Int /\ keyLeft[s] > 1
    BY <2>1, TimesOK DEF KeysOK
  <2>3. keyLeft'[s] = keyLeft[s] - 1
    BY <2>2 DEF Tick
  <2>4. left[s] \in Int /\ left[s] >= -1
    BY TimesOK DEF RowsOK
  <2>5. seat[s] = "HELD" => left'[s] = IF left[s] > -1 THEN left[s] - 1 ELSE left[s]
    BY DEF Tick
  <2>6. seat[s] = "HELD" /\ left'[s] <= keyLeft'[s] => left[s] <= keyLeft[s]
    BY <2>2, <2>3, <2>4, <2>5
  <2>. QED BY <1>1, <1>2, <2>1, <2>2, <2>6 DEF Late, requestVars
<1>. QED BY <1>1, <1>2, AttendedKept DEF requestVars, KeysAttended

\* Every step keeps KeysAttended.
LEMMA AttendedStep ==
  TypeOK /\ ShortKeys /\ LocksHeld /\ KeysAttended /\ [Next]_vars => KeysAttended'
<1>. SUFFICES ASSUME TypeOK, ShortKeys, LocksHeld, KeysAttended, [Next]_vars,
                     faults' = 0
              PROVE  KeysAttended'
  BY DEF KeysAttended
<1>. KeysOK /\ RowsOK /\ RequestsOK
  BY TypeParts
<1>0. ~Fault /\ faults = 0
  <2>1. faults \in Nat
    BY BoundsOK DEF TypeOK
  <2>2. ~Fault
    BY <2>1 DEF Fault
  <2>3. UNCHANGED faults
    BY <2>2 DEF Next, Work, Acquire, Release, Gate, Hold, Refused, Return, ClearGate,
                CommitRelease, Crash, Book, CloseUnpaid, Restore, Sweep, Tick, Flush,
                vars, NoFault
  <2>. QED BY <2>2, <2>3
<1>1. ASSUME NEW r \in Requests, NEW u \in Users, NEW S \in Wishes,
             Acquire(r, u, S) \/ Release(r, u, S)
      PROVE  KeysAttended'
  <2>1. pc[r] = "idle" /\ pc'[r] \in {"gate", "clear"}
        /\ UNCHANGED <<gateVars, rowVars>>
        /\ \A q \in Requests \ {r} : pc'[q] = pc[q] /\ want'[q] = want[q] /\ user'[q] = user[q]
    BY <1>1 DEF Acquire, Release, RequestsOK
  <2>. QED BY <1>0, <2>1, WaitingKept DEF KeysAttended
<1>2. ASSUME NEW r \in Requests, Gate(r)
      PROVE  KeysAttended'
  <2>1. pc[r] = "gate" /\ UNCHANGED rowVars
    BY <1>2 DEF Gate
  <2>2. CASE OpenGate(user[r], want[r]) /\ Goto(r, "gated")
    BY <1>0, <2>1, <2>2, OpeningKept
  <2>3. CASE FindShut(user[r], want[r]) /\ Done(r)
    <3>1. PICK S : S \subseteq Ours(user[r], want[r]) /\ RemoveKeys(S)
      BY <2>3 DEF FindShut
    <3>. QED BY <1>0, <2>1, <2>3, <3>1, RemovingKept
  <2>. QED BY <1>0, <1>2, <2>2, <2>3 DEF Gate
<1>3. ASSUME NEW r \in Requests, Hold(r)
      PROVE  KeysAttended'
  BY <1>0, <1>3, HoldKept
<1>4. ASSUME NEW r \in Requests, Refused(r)
      PROVE  KeysAttended'
  <2>1. pc[r] = "gated" /\ Goto(r, "return") /\ UNCHANGED <<gateVars, rowVars>>
    BY <1>0, <1>4 DEF Refused, KeysAttended
  <2>. QED BY <1>0, <2>1, WaitingKept DEF Goto, RequestsOK, KeysAttended
<1>5. ASSUME NEW r \in Requests, Return(r)
      PROVE  KeysAttended'
  <2>1. pc[r] = "return" /\ RemoveKeys(Ours(user[r], want[r])) /\ Done(r) /\ UNCHANGED rowVars
    BY <1>0, <1>5 DEF Return
  <2>. QED BY <1>0, <2>1, RemovingKept
<1>6. ASSUME NEW r \in Requests, ClearGate(r)
      PROVE  KeysAttended'
  <2>1. /\ pc[r] = "clear" /\ RemoveKeys(Ours(user[r], want[r]))
        /\ Goto(r, "commit") /\ UNCHANGED rowVars
    BY <1>0, <1>6 DEF ClearGate
  <2>. QED BY <1>0, <2>1, RemovingKept
<1>7. ASSUME NEW r \in Requests, CommitRelease(r)
      PROVE  KeysAttended'
  <2>1. /\ pc[r] = "commit" /\ pc'[r] = "idle" /\ UNCHANGED gateVars
        /\ \A q \in Requests \ {r} : pc'[q] = pc[q] /\ want'[q] = want[q] /\ user'[q] = user[q]
    BY <1>7 DEF CommitRelease, Done, RequestsOK
  <2>2. \A s \in Seats : seat'[s] = "HELD" =>
          seat[s] = "HELD" /\ heldBy'[s] = heldBy[s] /\ left'[s] = left[s]
    BY <1>7 DEF CommitRelease, Clear, SetOn, RowsOK
  <2>3. ASSUME NEW s \in Seats, Late(s)'
        PROVE  Late(s) /\ key'[s] = key[s]
    BY <2>1, <2>2, <2>3 DEF Late, gateVars
  <2>. QED BY <1>0, <2>1, <2>3, AttendedKept DEF KeysAttended
<1>8. ASSUME NEW u, NEW S, Book(u, S) \/ CloseUnpaid(u, S) \/ Restore(S)
      PROVE  KeysAttended'
  <2>1. \A s \in Seats : seat'[s] = "HELD" =>
          seat[s] = "HELD" /\ heldBy'[s] = heldBy[s] /\ left'[s] = left[s]
    BY <1>8 DEF Book, CloseUnpaid, Restore, Clear, SetOn, RowsOK
  <2>. QED BY <1>0, <1>8, <2>1, EndingKept DEF Book, CloseUnpaid, Restore
<1>9. CASE Sweep
  <2>1. PICK S : Clear(S, "AVAILABLE") /\ UNCHANGED <<gateVars, requestVars>>
    BY <1>9 DEF Sweep
  <2>2. \A s \in Seats : seat'[s] = "HELD" =>
          seat[s] = "HELD" /\ heldBy'[s] = heldBy[s] /\ left'[s] = left[s]
    BY <2>1 DEF Clear, SetOn, RowsOK
  <2>. QED BY <1>0, <2>1, <2>2, EndingKept
<1>10. CASE Tick
  BY <1>0, <1>10, TickKept
<1>11. CASE UNCHANGED vars
  BY <1>0, <1>11, EndingKept DEF vars, gateVars, requestVars
<1>12. (\E u \in Users, S \in Wishes : Book(u, S) \/ CloseUnpaid(u, S))
         \/ (\E S \in Wishes : Restore(S)) => KeysAttended'
  BY <1>8
<1>13. ASSUME NEW r \in Requests, Work(r) \/ Crash(r)
       PROVE  KeysAttended'
  BY <1>0, <1>2, <1>3, <1>4, <1>5, <1>6, <1>7, <1>13 DEF Work, Crash
<1>. QED BY <1>0, <1>1, <1>9, <1>10, <1>11, <1>12, <1>13 DEF Next, Flush

\* At first there are no keys.
LEMMA AttendedInit == Init => ShortKeys /\ KeysAttended
BY TimesOK DEF Init, ShortKeys, KeysAttended, Late

GateInv == TypeOK /\ LocksHeld /\ ShortKeys /\ KeysAttended

\* The invariant behind the two theorems below.
LEMMA GateInvariant == Spec => []GateInv
<1>1. Init => GateInv
  BY TypeInit, LocksInit, AttendedInit DEF GateInv
<1>2. GateInv /\ [Next]_vars => GateInv'
  BY TypeStep, LocksStep, ShortKeysStep, AttendedStep DEF GateInv
<1>. QED BY <1>1, <1>2, PTL DEF Spec

\* For any gate shorter than the hold: as long as no call fails, the key of a held
\* seat runs out before the hold does (policy.py:18).
THEOREM KeysEndFirst == Spec => []KeyEndsFirst
<1>1. GateInv => KeyEndsFirst
  <2>. SUFFICES ASSUME GateInv, NEW s \in Seats, faults = 0, seat[s] = "HELD",
                       key[s] = heldBy[s], ~InFlight(s)
                PROVE  keyLeft[s] < left[s]
    BY DEF KeyEndsFirst
  <2>. KeysOK /\ RowsOK
    BY TypeParts DEF GateInv
  <2>1. ~Late(s)
    BY DEF GateInv, KeysAttended, Attended, InFlight
  <2>2. key[s] # NoUser /\ keyLeft[s] \in Int /\ left[s] \in Int
    BY TimesOK DEF KeysOK, RowsOK
  <2>. QED BY <2>1, <2>2 DEF Late
<1>. QED BY <1>1, GateInvariant, PTL

\* Any number of requests of one user may cross: as long as no call fails, the one
\* that ends leaves no key that nobody answers for (hold_service.py:162).
THEOREM NobodyLeavesGhosts == Spec => NoGhostLeft
<1>1. GateInv /\ [Next]_vars =>
        [\A r \in Requests : pc[r] \in {"gated", "return", "commit"} /\ pc'[r] = "idle" =>
           \A s \in want[r] :
             faults' = 0 /\ ~InFlight(s)' /\ key'[s] = user[r] =>
               seat'[s] = "HELD" /\ heldBy'[s] = user[r]]_vars
  <2>. SUFFICES ASSUME GateInv, [Next]_vars, NEW r \in Requests,
                       pc[r] \in {"gated", "return", "commit"}, pc'[r] = "idle",
                       NEW s \in want[r], faults' = 0, ~InFlight(s)', key'[s] = user[r]
                PROVE  seat'[s] = "HELD" /\ heldBy'[s] = user[r]
    OBVIOUS
  <2>. KeysOK /\ RowsOK /\ RequestsOK
    BY TypeParts DEF GateInv
  <2>0. s \in Seats /\ user[r] \in Users /\ faults \in Nat
    BY BoundsOK DEF RequestsOK, GateInv, TypeOK
  <2>1. ~Fault
    BY <2>0 DEF Fault
  <2>2. \A q \in Requests \ {r} : Work(q) => UNCHANGED <<pc[r]>>
    BY DEF Work, Gate, Hold, Refused, Return, ClearGate, CommitRelease, Goto, Done, RequestsOK
  <2>3. Hold(r) \/ Return(r) \/ CommitRelease(r)
    BY <2>1, <2>2 DEF Next, Work, Crash, Acquire, Release, Gate, Refused, ClearGate, Goto,
                      Book, CloseUnpaid, Restore, Sweep, Tick, Flush, vars, requestVars,
                      RequestsOK
  <2>4. CASE Hold(r)
    BY <2>0, <2>4 DEF Hold, TryClaim, Claim, SetOn, RowsOK
  <2>5. CASE Return(r)
    BY <2>0, <2>1, <2>5, NoUserOK DEF Return, RemoveKeys, Ours, SetOn, KeysOK
  <2>6. CASE CommitRelease(r)
    <3>1. pc[r] = "commit" /\ UNCHANGED <<gateVars, faults>>
      BY <2>6 DEF CommitRelease
    <3>2. Late(s)
      BY <2>0, <3>1, NoUserOK DEF Late, gateVars
    <3>3. PICK q \in Requests : pc[q] \in {"gated", "return"} /\ s \in want[q]
      BY <2>0, <3>1, <3>2 DEF GateInv, KeysAttended, Attended
    <3>4. pc'[q] = pc[q] /\ want'[q] = want[q]
      BY <2>6, <3>1, <3>3 DEF CommitRelease, Done, RequestsOK
    <3>. QED BY <3>3, <3>4 DEF InFlight
  <2>. QED BY <2>3, <2>4, <2>5, <2>6
<1>. QED BY <1>1, GateInvariant, PTL DEF Spec, NoGhostLeft
=============================================================================
