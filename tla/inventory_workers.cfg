\* A request and two overlapping runs of the maintenance job over two products.
CONSTANTS
  p1 = p1
  p2 = p2
  Products = {p1, p2}
  Carts = {c1}
  Sessions = {s1}
  Workers = {w1, w2}
  Ids = {r1, r2}
  Quantities = {1}
  Stock <- MCStock
  Hold = 1
  Slack = 1
  Extension = 2
  MaxTime = 3
  None = None
SPECIFICATION FairSpec
INVARIANT TypeOK
INVARIANT UnitsConserved
INVARIANT NeverOversold
INVARIANT NothingStranded
PROPERTY HoldHonoured
PROPERTY TransactionsEnd
\* The clock and the reservations ever made are bounded.
CHECK_DEADLOCK FALSE
