\* Two calls of createOrder on one cart of one product, its line negative, zero
\* or positive, or the two lines of it that a client sends along, beside one
\* reservation and a request that may release it.
CONSTANTS
  p1 = p1
  p2 = p2
  Products = {p1}
  Carts = {c1}
  Sessions = {s1}
  Workers = {}
  Ids = {r1}
  Quantities = {1}
  Stock <- MCStock
  Hold = 1
  Slack = 1
  Extension = 2
  MaxTime = 0
  None = None
  Requests = {q1, q2}
  Fallbacks <- MCFallbacks
  LinesPerProduct = 2
  LineQuantities <- MCLineQuantities
  CartLimit = 1
  MaxOrders = 2
  MaxPutBack = 1
SPECIFICATION PlacementSpec
SYMMETRY MCSymmetry
INVARIANT PlacementTypeOK
INVARIANT SoldIsTaken
INVARIANT OversellBounded
\* The orders and reservations ever made are bounded.
CHECK_DEADLOCK FALSE
