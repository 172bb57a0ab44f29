CONSTANTS
  o1 = o1
  o2 = o2
  NoRoute = NoRoute
  Orders = {o1, o2}
  SquareOrders = {o1}
  Routes = {r1, r2}
  Workers = {w1, w2}
  HeldBack <- OneHeld
SPECIFICATION Spec
PROPERTIES
  Promise
  SettledStays
  NotTrapped
CHECK_DEADLOCK FALSE
