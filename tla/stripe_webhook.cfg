\* Three deliveries of two events, one of which has an effect.
CONSTANTS
    paid = paid
    other = other
    None = None
    Events <- MCEvents
    Payments <- MCPayments
    Deliveries = {d1, d2, d3}
SPECIFICATION FairSpec
INVARIANTS
    TypeOK
    EffectOnce
PROPERTIES
    AppliesOnce
    DeliveriesEnd
