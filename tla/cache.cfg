\* Three callers and two keys that change twice.
CONSTANTS
  Keys = {k1, k2}
  Callers = {r1, r2, r3}
  MaxVersion = 2
  PositiveTTL = 2
  NegativeTTL = 1
  None = None
SPECIFICATION FairSpec
INVARIANT TypeOK
INVARIANT SingleFetch
INVARIANT WaitsAreLive
PROPERTY InvalidationSettles
PROPERTY OutdatedIsTransient
PROPERTY GetsAnswered
