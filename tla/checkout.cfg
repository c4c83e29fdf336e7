\* Two checkouts and a request over a pool of two connections.
CONSTANTS
  Products = {p1, p2}
  Carts = {c1}
  Sessions = {k1, k2, s1}
  Checkouts = {k1, k2}
  Workers = {}
  Ids = {r1, r2}
  Quantities = {1}
  Stock <- MCStock
  Hold = 1
  Slack = 1
  Extension = 2
  MaxTime = 0
  GuestCarts = {g1}
  PoolSize = 2
  UnitLimit = 2
  None = None
SPECIFICATION CheckoutFairSpec
INVARIANT CheckoutTypeOK
INVARIANT OrderedIsExtended
PROPERTY ItemsLeaveWithOrder
PROPERTY CheckoutEnds
