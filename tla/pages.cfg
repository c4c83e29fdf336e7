\* One product, one order and two filters; two requests to begin with, two more,
\* and those that follow from their answers.
CONSTANTS
  Products = {p1}
  Orders = {o1}
  Filters = {f1, f2}
  None = None
  MaxAsks = 4
SPECIFICATION FairSpec
INVARIANT SettledShowsTruth
PROPERTY LoadingEnds
