CONSTANTS
  u1 = u1  u2 = u2  r1 = r1  r2 = r2  r3 = r3
  Seats = {1, 2}
  Wishes = {{1, 2}, {2}}
  Users = {u1, u2}
  NoUser = NoUser
  Requests = {r1, r2}
  GateTTL = 1
  HoldTTL = 2
  Orders = TRUE
  MaxFaults = 1
SPECIFICATION FairSpec
INVARIANTS
  TypeOK
  KeyEndsFirst
PROPERTIES
  GateNeverDecides
  ForeignKeySurvives
  NoGhostLeft
  GhostEnds
