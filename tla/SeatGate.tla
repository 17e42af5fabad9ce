------------------------------ MODULE SeatGate ------------------------------
(***************************************************************************)
(* The Redis gate before the seat rows: app/infra/redis/client.py with the *)
(* scripts seat_gate.lua and seat_gate_release.lua, and the way            *)
(* app/service/hold_service.py goes through it to the database.            *)
(*                                                                         *)
(* A script is one action, for Redis runs it whole.  acquire() is a script *)
(* (again after a timeout), then a transaction, then a second script when  *)
(* the transaction turned it away.  release() is a statement, a script and *)
(* the commit, in that order: the rows stay locked in between.             *)
(***************************************************************************)
EXTENDS Integers, FiniteSets

CONSTANTS
  Seats,      \* of one schedule; numbers, since the script goes by their order
  Wishes,     \* bound: the sets of seats a request or an order may name
  Users, NoUser,
  Requests,   \* requests under way at the same time, several of one user too
  GateTTL, HoldTTL,
  Orders,     \* TRUE: held seats are paid for, given back by a failed payment,
              \* and canceled
  MaxFaults   \* bound: crashes, lost answers, an unreachable or flushed Redis

ASSUME SeatsOrdered == Seats \subseteq Nat /\ IsFiniteSet(Seats)
ASSUME WishesOK == Wishes \subseteq SUBSET Seats
ASSUME NoUserOK == NoUser \notin Users
ASSUME TimesOK == GateTTL \in Nat \ {0} /\ HoldTTL \in Nat /\ GateTTL < HoldTTL
ASSUME BoundsOK == Orders \in BOOLEAN /\ MaxFaults \in Nat

VARIABLES
  key, keyLeft,       \* the gate: whose token a seat's key holds, and its TTL
  seat, heldBy, left, \* schedule_seats; left is hold_expires_at - now()
  pc, user, want,     \* a request: where it stands, for whom, which seats
  faults

gateVars == <<key, keyLeft>>
rowVars == <<seat, heldBy, left>>
requestVars == <<pc, user, want>>
vars == <<key, keyLeft, seat, heldBy, left, pc, user, want, faults>>

PCs == {"idle", "gate", "gated", "ungated", "return", "clear", "commit"}

Init ==
  /\ key = [s \in Seats |-> NoUser]
  /\ keyLeft = [s \in Seats |-> 0]
  /\ seat = [s \in Seats |-> "AVAILABLE"]
  /\ heldBy = [s \in Seats |-> NoUser]
  /\ left = [s \in Seats |-> 0]
  /\ pc = [r \in Requests |-> "idle"]
  /\ user = [r \in Requests |-> NoUser]
  /\ want = [r \in Requests |-> {}]
  /\ faults = 0

SetOn(f, S, v) == [x \in DOMAIN f |-> IF x \in S THEN v ELSE f[x]]

Goto(r, l) == pc' = [pc EXCEPT ![r] = l] /\ UNCHANGED <<user, want>>
Done(r) ==
  /\ pc' = [pc EXCEPT ![r] = "idle"]
  /\ user' = [user EXCEPT ![r] = NoUser]
  /\ want' = [want EXCEPT ![r] = {}]

Fault == faults < MaxFaults /\ faults' = faults + 1
NoFault == UNCHANGED faults

-----------------------------------------------------------------------------
(* The scripts.                                                            *)

\* The keys among S that hold the token of u: what DEL may remove.
\* Mutation: DEL without comparing the token.
OursAnyToken(u, S) == {s \in S : key[s] # NoUser}
Ours(u, S) == {s \in S : key[s] = u}

\* Mutation: the TTL of the hold itself.
KeyTTLOfHold == HoldTTL
\* Mutation: SET without PX, the keys never expire.
KeyTTLNone == 0
KeyTTL == GateTTL

\* Mutation: the value goes, its expiry stays.
RemoveKeysNotTTL(S) ==
  /\ key' = SetOn(key, S, NoUser)
  /\ UNCHANGED keyLeft
RemoveKeys(S) ==
  /\ key' = SetOn(key, S, NoUser)
  /\ keyLeft' = SetOn(keyLeft, S, 0)

Blocking(u, S) == {s \in S : key[s] \notin {u, NoUser}}

\* SET NX PX in the order of the seats; a key with our own token counts as ours
\* and its TTL starts again.
OpenGate(u, S) ==
  /\ Blocking(u, S) = {}
  /\ key' = SetOn(key, S, u)
  /\ keyLeft' = SetOn(keyLeft, S, KeyTTL)

\* At the first key with another token the script gives back what it got before
\* it, keys included that were ours already.
FindShut(u, S) ==
  /\ Blocking(u, S) # {}
  /\ RemoveKeys({s \in S : \A b \in Blocking(u, S) : s < b} \intersect Ours(u, S))

-----------------------------------------------------------------------------
(* acquire().                                                              *)

Claimable(s) == seat[s] = "AVAILABLE" \/ (seat[s] = "HELD" /\ left[s] < 0)
ValidHold(s, u) == seat[s] = "HELD" /\ heldBy[s] = u /\ left[s] > 0

\* Rows a release() has written and not committed yet.
Locked == UNION {want[r] : r \in {q \in Requests : pc[q] \in {"clear", "commit"}}}

Acquire(r, u, S) ==
  /\ pc[r] = "idle"
  /\ S # {}
  /\ pc' = [pc EXCEPT ![r] = "gate"]
  /\ user' = [user EXCEPT ![r] = u]
  /\ want' = [want EXCEPT ![r] = S]
  /\ UNCHANGED <<gateVars, rowVars, faults>>

\* The acquire script.  After a timeout it runs again, whether or not it has run
\* before; at the last timeout the request goes on without a gate.
Gate(r) ==
  /\ pc[r] = "gate"
  /\ \/ OpenGate(user[r], want[r]) /\ Goto(r, "gated") /\ NoFault
     \/ FindShut(user[r], want[r]) /\ Done(r) /\ NoFault
     \/ /\ Fault
        /\ \/ OpenGate(user[r], want[r])
           \/ FindShut(user[r], want[r])
           \/ UNCHANGED gateVars
        /\ Goto(r, "gate") \/ Goto(r, "ungated")
  /\ UNCHANGED rowVars

Claim(r) ==
  /\ seat' = SetOn(seat, want[r], "HELD")
  /\ heldBy' = SetOn(heldBy, want[r], user[r])
  /\ left' = SetOn(left, want[r], HoldTTL)

\* Mutation: whoever came through the gate has the seats.
TryClaimTrustsGate(r) ==
  /\ \A s \in want[r] : pc[r] = "gated" \/ Claimable(s)
  /\ want[r] \intersect Locked = {}
  /\ Claim(r)
\* hold_seats takes all the seats; on rows a release() holds it waits.
TryClaim(r) ==
  /\ \A s \in want[r] : Claimable(s)
  /\ want[r] \intersect Locked = {}
  /\ Claim(r)

\* The transaction commits and keep() leaves the keys in place.
Hold(r) ==
  /\ pc[r] \in {"gated", "ungated"}
  /\ TryClaim(r)
  /\ Done(r)
  /\ UNCHANGED <<gateVars, faults>>

\* The transaction is turned away, by a seat that is not to be had or by the
\* purchase limit (which depends on what else the user has, and is not modelled).
\* A request without a gate has nothing to give back.
Refused(r) ==
  /\ \/ pc[r] = "gated" /\ Goto(r, "return")
     \/ pc[r] = "ungated" /\ Done(r)
  /\ UNCHANGED <<gateVars, rowVars, faults>>

\* The release script on the way out of hold_gate; when Redis is gone, the error
\* is swallowed and the keys stay.
Return(r) ==
  /\ pc[r] = "return"
  /\ \/ RemoveKeys(Ours(user[r], want[r])) /\ NoFault
     \/ UNCHANGED gateVars /\ Fault
  /\ Done(r)
  /\ UNCHANGED rowVars

-----------------------------------------------------------------------------
(* release() and everything else that ends a hold.                         *)

Releasable(u, S) == {s \in S : seat[s] = "HELD" /\ heldBy[s] = u}

Clear(S, st) ==
  /\ seat' = SetOn(seat, S, st)
  /\ heldBy' = SetOn(heldBy, S, NoUser)
  /\ left' = SetOn(left, S, 0)

\* The statement of release(), whose rows are S; the caller commits later.
Release(r, u, S) ==
  /\ pc[r] = "idle"
  /\ S # {} /\ Releasable(u, S) = S
  /\ S \intersect Locked = {}
  /\ pc' = [pc EXCEPT ![r] = "clear"]
  /\ user' = [user EXCEPT ![r] = u]
  /\ want' = [want EXCEPT ![r] = S]
  /\ UNCHANGED <<gateVars, rowVars, faults>>

\* Mutation: release() forgets the gate.
ClearGateNot(r) ==
  /\ pc[r] = "clear"
  /\ Goto(r, "commit")
  /\ UNCHANGED <<gateVars, rowVars, faults>>
\* release_gate().
ClearGate(r) ==
  /\ pc[r] = "clear"
  /\ \/ RemoveKeys(Ours(user[r], want[r])) /\ NoFault
     \/ UNCHANGED gateVars /\ Fault
  /\ Goto(r, "commit")
  /\ UNCHANGED rowVars

CommitRelease(r) ==
  /\ pc[r] = "commit"
  /\ Clear(want[r], "AVAILABLE")
  /\ Done(r)
  /\ UNCHANGED <<gateVars, faults>>

\* hold_sweeper, which skips locked rows.
Sweep ==
  \E S \in SUBSET {s \in Seats \ Locked : seat[s] = "HELD" /\ left[s] < 0} :
    /\ S # {}
    /\ Clear(S, "AVAILABLE")
    /\ UNCHANGED <<gateVars, requestVars, faults>>

\* confirm_paid(), _close_unpaid() and cancel(): none of them looks at the gate.
Book(u, S) ==
  /\ Orders
  /\ S # {} /\ S \intersect Locked = {}
  /\ \A s \in S : ValidHold(s, u)
  /\ Clear(S, "BOOKED")
  /\ UNCHANGED <<gateVars, requestVars, faults>>

CloseUnpaid(u, S) ==
  /\ Orders
  /\ S # {} /\ S \intersect Locked = {}
  /\ Releasable(u, S) = S
  /\ Clear(S, "AVAILABLE")
  /\ UNCHANGED <<gateVars, requestVars, faults>>

Restore(S) ==
  /\ Orders
  /\ S # {} /\ \A s \in S : seat[s] = "BOOKED"
  /\ seat' = SetOn(seat, S, "AVAILABLE")
  /\ UNCHANGED <<heldBy, left, gateVars, requestVars, faults>>

-----------------------------------------------------------------------------
Tick ==
  /\ left' = [s \in Seats |->
                IF seat[s] = "HELD" /\ left[s] > -1 THEN left[s] - 1 ELSE left[s]]
  /\ keyLeft' = [s \in Seats |-> IF keyLeft[s] > 0 THEN keyLeft[s] - 1 ELSE 0]
  /\ key' = [s \in Seats |-> IF keyLeft[s] = 1 THEN NoUser ELSE key[s]]
  /\ UNCHANGED <<seat, heldBy, requestVars, faults>>

\* The process dies: an open transaction is rolled back, the keys stay.
Crash(r) ==
  /\ pc[r] # "idle"
  /\ Done(r)
  /\ Fault
  /\ UNCHANGED <<gateVars, rowVars>>

\* FLUSHALL, or a Redis that comes back empty.
Flush ==
  /\ Fault
  /\ RemoveKeys(Seats)
  /\ UNCHANGED <<rowVars, requestVars>>

\* What a request does once it has started.
Work(r) ==
  \/ Gate(r) \/ Hold(r) \/ Refused(r) \/ Return(r)
  \/ ClearGate(r) \/ CommitRelease(r)

Next ==
  \/ \E r \in Requests, u \in Users, S \in Wishes :
       Acquire(r, u, S) \/ Release(r, u, S)
  \/ \E r \in Requests : Work(r) \/ Crash(r)
  \/ \E u \in Users, S \in Wishes : Book(u, S) \/ CloseUnpaid(u, S)
  \/ \E S \in Wishes : Restore(S)
  \/ Sweep \/ Tick \/ Flush

Spec == Init /\ [][Next]_vars

\* Time passes and a started request goes on.
Fairness == WF_vars(Tick) /\ \A r \in Requests : WF_vars(Work(r))
FairSpec == Spec /\ Fairness
=============================================================================
