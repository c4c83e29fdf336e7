\* Two label generations and three events.
CONSTANTS
  Orders = {o1, o2}
  Calls = {c1, c2}
  h1 = h1
  h2 = h2
  h3 = h3
  Handlers = {h1, h2, h3}
  HandlerType <- MCHandlerType
  MaxEvents = 3
  None = None
SPECIFICATION FairSpec
INVARIANT DeliveredInOrder
PROPERTY FailuresAreTold
