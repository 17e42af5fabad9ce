CONSTANTS
  s1 = s1  s2 = s2  s3 = s3  u1 = u1  u2 = u2  k1 = k1  k2 = k2
  h1 = h1  h2 = h2  r1 = r1  r2 = r2  w1 = w1
  Seats = {s1}
  Users = {u1}
  Orders = {k1}
  Handlers = {h1, h2}
  Reconcilers = {r1}
  Webhooks = {}
  NoUser = NoUser
  NoOrder = NoOrder
  HoldTTL = 2
  MinRemaining = 1
  PendingLimit = 0
  MaxSeats = 1
  SweepBatch = 1
  ReconcileBatch = 1
  PromptPG = TRUE
  Silent = {}
  MaxFaults = 0
SPECIFICATION Spec
INVARIANT RefundsRecorded
