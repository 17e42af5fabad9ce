CONSTANTS
  s1 = s1  s2 = s2  s3 = s3  u1 = u1  u2 = u2  k1 = k1  k2 = k2
  h1 = h1  h2 = h2  r1 = r1  r2 = r2  w1 = w1
  Seats = {s1}
  Users = {u1}
  Orders = {k1, k2}
  Handlers = {h1}
  Reconcilers = {r1, r2}
  Webhooks = {}
  NoUser = NoUser
  NoOrder = NoOrder
  HoldTTL = 1
  MinRemaining = 0
  PendingLimit = 0
  MaxSeats = 1
  SweepBatch = 1
  ReconcileBatch = 2
  PromptPG = TRUE
  Silent = {k1}
  MaxFaults = 1
SPECIFICATION FairSpec
INVARIANTS
  MoneyFollowsSeats
  RecordsFollowStatus
PROPERTIES
  PendingResolved
  ExpiredHoldReclaimed
