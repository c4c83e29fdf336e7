\* Two orders, one of them paid through the gateway; a caller of transition and
\* two reconciliations.
CONSTANTS
    o1 = o1
    o2 = o2
    None = None
    Orders <- MCOrders
    Callers = {p1}
    Jobs = {j1, j2}
    Paying <- MCPaying
SPECIFICATION FairSpec
INVARIANTS
    TypeOK
    JobsTrackFirst
PROPERTIES
    CancellationSettles
    ReconcileEnds
