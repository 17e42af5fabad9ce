CONSTANTS
  u1 = u1  u2 = u2  o1 = o1  o2 = o2  t1 = t1  t2 = t2
  Seats = {1}
  Wishes = {{1}}
  Users = {u1, u2}
  NoUser = NoUser
  Orders = {o1}
  NoOrder = NoOrder
  Canceled = {}
  Txs = {t1, t2}
  HoldTTL = 1
  MinRemaining = 0
  MaxSeats = 2
  SweepBatch = 2
  MaxLag = 1
SPECIFICATION Spec
PROPERTY LiveHoldKept
