\* Two clicks at a time on a cart of two products.
CONSTANTS
  Products = {p1, p2}
  Clicks = {k1, k2}
  Typed <- MCTyped
  MaxStock = 2
  MaxOwed = 1
  None = None
SYMMETRY MCSymmetry
SPECIFICATION Spec
INVARIANT OneAtATimeConserves
 
PROPERTY EmptiedAfterOrder
