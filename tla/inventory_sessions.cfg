\* Three requests on two carts and one product, and no maintenance worker.
CONSTANTS
  p1 = p1
  p2 = p2
  Products = {p1}
  Carts = {c1, c2}
  Sessions = {s1, s2, s3}
  Workers = {}
  Ids = {r1, r2, r3}
  Quantities = {1, 2}
  Stock <- MCStockOne
  Hold = 1
  Slack = 1
  Extension = 2
  MaxTime = 1
  None = None
SPECIFICATION Spec
SYMMETRY MCSymmetry
INVARIANT LedgerExact
PROPERTY KeepsLedger
PROPERTY ExtendedOnce
\* The clock and the reservations ever made are bounded.
CHECK_DEADLOCK FALSE
