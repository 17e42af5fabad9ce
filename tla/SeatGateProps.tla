--------------------------- MODULE SeatGateProps ---------------------------
(***************************************************************************)
(* What SeatGate is checked for.                                           *)
(***************************************************************************)
EXTENDS SeatGate

\* Values and rows have the shape the scripts and the CHECK on schedule_seats
\* give them: a key expires exactly when it exists, hold columns are set exactly
\* on HELD rows, and a request has a user and seats while it runs.
TypeOK ==
  /\ key \in [Seats -> Users \union {NoUser}]
  /\ keyLeft \in [Seats -> 0..HoldTTL]
  /\ seat \in [Seats -> {"AVAILABLE", "HELD", "BOOKED"}]
  /\ heldBy \in [Seats -> Users \union {NoUser}]
  /\ left \in [Seats -> -1..HoldTTL]
  /\ pc \in [Requests -> PCs]
  /\ user \in [Requests -> Users \union {NoUser}]
  /\ want \in [Requests -> SUBSET Seats]
  /\ faults \in 0..MaxFaults
  /\ \A s \in Seats : /\ key[s] = NoUser <=> keyLeft[s] = 0
                      /\ seat[s] = "HELD" <=> heldBy[s] # NoUser
                      /\ seat[s] # "HELD" => left[s] = 0
  /\ \A r \in Requests : /\ pc[r] = "idle" <=> user[r] = NoUser
                         /\ pc[r] = "idle" <=> want[r] = {}

\* The database decides.  Whatever the gate says, loses or keeps too long, seats
\* change hands as if there were no gate: nobody takes a seat somebody has
\* (client.py:323: skipping the gate causes no overbooking).
Store == INSTANCE SeatStore WITH
  Free <- NoUser, Sold <- "sold",
  has <- [s \in Seats |-> IF seat[s] = "BOOKED" THEN "sold"
                          ELSE IF left[s] > 0 THEN heldBy[s] ELSE NoUser]
GateNeverDecides == Store!Spec

\* No request that goes on or ends touches the key of another user: one whose own
\* key ran out while it was slow does not remove the key of whoever came after it
\* (seat_gate_release.lua:11-14).
ForeignKeySurvives ==
  [][\A s \in Seats, r \in Requests :
       pc'[r] # pc[r] /\ user[r] # NoUser /\ key[s] \notin {user[r], NoUser}
         => key'[s] = key[s] /\ keyLeft'[s] = keyLeft[s]]_vars

\* A request for the seat is between its script and its end.
InFlight(s) == \E r \in Requests : pc[r] # "idle" /\ s \in want[r]

\* The gate of a held seat ends before the hold (policy.py:18): once the hold is
\* over the next customer finds the gate open.  An unreachable or a lost Redis
\* may shift the two against each other.
KeyEndsFirst ==
  \A s \in Seats :
    faults = 0 /\ seat[s] = "HELD" /\ key[s] = heldBy[s] /\ ~InFlight(s)
      => keyLeft[s] < left[s]

\* As long as no call fails, a request that ends leaves its key only before a seat
\* its user has, however it crossed other requests of the same user
\* (hold_service.py:162, client.py:349).
NoGhostLeft ==
  [][\A r \in Requests : pc[r] \in {"gated", "return", "commit"} /\ pc'[r] = "idle" =>
       \A s \in want[r] :
         faults' = 0 /\ ~InFlight(s)' /\ key'[s] = user[r] =>
           seat'[s] = "HELD" /\ heldBy'[s] = user[r]]_vars

\* What policy.py:19 asks for: as long as no call fails, a key no request is
\* working on stands before a seat its user has.
NoGhost ==
  \A s \in Seats :
    faults = 0 /\ key[s] # NoUser /\ ~InFlight(s) =>
      seat[s] = "BOOKED" \/ (seat[s] = "HELD" /\ heldBy[s] = key[s])

\* A ghost ends: a seat that can be had is not shut for good, whatever was
\* crashed, lost or given back behind the gate's back.
GhostEnds ==
  \A s \in Seats : Claimable(s) /\ key[s] # NoUser ~> ~Claimable(s) \/ key[s] = NoUser
=============================================================================
