------------------------------ MODULE SeatBook ------------------------------
(***************************************************************************)
(* What the transactions on the seats amount to: each of them is one step, *)
(* judged on the rows as they are at that moment.  No statements, locks or *)
(* snapshots, no payments and no processes.                                *)
(*                                                                         *)
(* Two things the code does not promise are left open.  A hold may be up   *)
(* to MaxLag shorter than HoldTTL.  And a confirmation may book a held     *)
(* seat that is not the buyer's any more; unheld remembers which.          *)
(***************************************************************************)
EXTENDS Integers, FiniteSets

CONSTANTS Seats, Users, NoUser, Orders, NoOrder,
          HoldTTL, MinRemaining, MaxSeats, MaxLag

VARIABLES
  seat, heldBy, left,     \* of a seat: its status, its holder and their time
  item,                   \* the order a seat was sold to last
  status, buyer, seatIds, \* of an order
  unheld

vars == <<seat, heldBy, left, item, status, buyer, seatIds, unheld>>

Init ==
  /\ seat = [s \in Seats |-> "AVAILABLE"]
  /\ heldBy = [s \in Seats |-> NoUser]
  /\ left = [s \in Seats |-> 0]
  /\ item \in [Seats -> Orders \union {NoOrder}]
  /\ status \in [Orders -> {"NONE", "CANCELED"}]
  /\ buyer \in [Orders -> Users \union {NoUser}]
  /\ seatIds = [o \in Orders |-> {s \in Seats : item[s] = o}]
  /\ \A s \in Seats : item[s] # NoOrder => status[item[s]] = "CANCELED"
  /\ unheld = {}

Held(s, u) == seat[s] = "HELD" /\ heldBy[s] = u
Valid(s, u) == Held(s, u) /\ left[s] > 0
Expired(s) == seat[s] = "HELD" /\ left[s] < 0
Claimable(s) == seat[s] = "AVAILABLE" \/ Expired(s)
Paid(s, u) ==
  /\ seat[s] = "BOOKED" /\ item[s] # NoOrder
  /\ status[item[s]] = "PAID" /\ buyer[item[s]] = u

Counted(u) == {s \in Seats : Valid(s, u) \/ (Paid(s, u) /\ s \notin unheld)}

Change(f, S, v) == [s \in Seats |-> IF s \in S THEN v ELSE f[s]]

Free(S) ==
  /\ seat' = Change(seat, S, "AVAILABLE")
  /\ heldBy' = Change(heldBy, S, NoUser)
  /\ left' = Change(left, S, 0)

-----------------------------------------------------------------------------
Hold(u, S) ==
  /\ \A s \in S : Claimable(s)
  /\ Cardinality(Counted(u)) + Cardinality(S) <= MaxSeats
  /\ seat' = Change(seat, S, "HELD")
  /\ heldBy' = Change(heldBy, S, u)
  /\ \E late \in 0..MaxLag : left' = Change(left, S, HoldTTL - late)
  /\ UNCHANGED <<item, status, buyer, seatIds, unheld>>

GiveUp(u, S) ==
  /\ \A s \in S : Held(s, u)
  /\ Free(S)
  /\ UNCHANGED <<item, status, buyer, seatIds, unheld>>

Sweep(S) ==
  /\ \A s \in S : Expired(s)
  /\ Free(S)
  /\ UNCHANGED <<item, status, buyer, seatIds, unheld>>

Open(o, u, S) ==
  /\ status[o] = "NONE" /\ S # {}
  /\ \A s \in S : Held(s, u) /\ left[s] > MinRemaining
  /\ status' = [status EXCEPT ![o] = "PENDING"]
  /\ buyer' = [buyer EXCEPT ![o] = u]
  /\ seatIds' = [seatIds EXCEPT ![o] = S]
  /\ UNCHANGED <<seat, heldBy, left, item, unheld>>

Confirm(o) ==
  /\ status[o] = "PENDING"
  /\ \A s \in seatIds[o] : seat[s] = "HELD" /\ item[s] = NoOrder
  /\ seat' = Change(seat, seatIds[o], "BOOKED")
  /\ heldBy' = Change(heldBy, seatIds[o], NoUser)
  /\ left' = Change(left, seatIds[o], 0)
  /\ item' = Change(item, seatIds[o], o)
  /\ status' = [status EXCEPT ![o] = "PAID"]
  /\ unheld' = unheld \union {s \in seatIds[o] : ~Valid(s, buyer[o])}
  /\ UNCHANGED <<buyer, seatIds>>

\* An order that comes to nothing gives up what its buyer holds of it.
Close(o, st, S) ==
  /\ status[o] = "PENDING"
  /\ \A s \in S : Held(s, buyer[o])
  /\ Free(S)
  /\ status' = [status EXCEPT ![o] = st]
  /\ UNCHANGED <<item, buyer, seatIds, unheld>>

Cancel(o) ==
  /\ status[o] = "PAID"
  /\ seat' = Change(seat, {s \in Seats : seat[s] = "BOOKED" /\ item[s] = o}, "AVAILABLE")
  /\ status' = [status EXCEPT ![o] = "CANCELED"]
  /\ UNCHANGED <<heldBy, left, item, buyer, seatIds, unheld>>

Tick ==
  /\ left' = [s \in Seats |-> IF seat[s] = "HELD" /\ left[s] >= -MaxLag
                              THEN left[s] - 1 ELSE left[s]]
  /\ UNCHANGED <<seat, heldBy, item, status, buyer, seatIds, unheld>>

Next ==
  \/ \E S \in SUBSET {s \in Seats : Expired(s)} : Sweep(S)
  \/ \E u \in Users : \E S \in SUBSET {s \in Seats : Held(s, u)} :
       GiveUp(u, S) \/ \E o \in Orders : Open(o, u, S)
  \/ \E S \in SUBSET {s \in Seats : Claimable(s)}, u \in Users : Hold(u, S)
  \/ \E o \in Orders : Confirm(o) \/ Cancel(o)
  \/ \E o \in Orders, st \in {"FAILED", "CANCELED"} :
       \E S \in SUBSET seatIds[o] : Close(o, st, S)
  \/ Tick

Spec == Init /\ [][Next]_vars
=============================================================================
