CONSTANTS
  u1 = u1  u2 = u2  r1 = r1  r2 = r2  r3 = r3
  Seats = {1}
  Wishes = {{1}}
  Users = {u1, u2}
  NoUser = NoUser
  Requests = {r1, r2}
  GateTTL = 1
  HoldTTL = 2
  Orders = TRUE
  MaxFaults = 0
SPECIFICATION Spec
INVARIANT NoGhost
