CONSTANTS
  a = a  o1 = o1  o2 = o2  h1 = h1  h2 = h2  p1 = p1  p2 = p2
  Rows = {a}
  MaxWidth = 2
  MaxPrice = 20
  Layouts <- HallLayouts
  NoLayout = NoLayout
  Openers = {p1}
  Orders = {o1}
  NoOrder = NoOrder
  Handlers = {h1}
  Day = 8
  Times = {62, 71, 74}
  StartsAt = 75
  Offset = 3
  MaxRefusals = 0
SPECIFICATION Spec
INVARIANT NoCancelOnShowDay
