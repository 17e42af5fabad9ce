CONSTANTS
  a = a  o1 = o1  o2 = o2  h1 = h1  h2 = h2  p1 = p1  p2 = p2
  Rows = {a}
  MaxWidth = 2
  MaxPrice = 20
  Layouts <- HallLayouts
  NoLayout = NoLayout
  Openers = {p1, p2}
  Orders = {o1}
  NoOrder = NoOrder
  Handlers = {h1, h2}
  Day = 2
  Times = {12, 13, 17, 18}
  StartsAt = 18
  Offset = 0
  MaxRefusals = 1
SYMMETRY Symmetry
SPECIFICATION Spec
INVARIANTS
  TypeOK
  StockComplete
  CreatedOnce
  ItemsAddUp
  FeesByDate
  RefundOnRecord
