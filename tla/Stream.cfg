SPECIFICATION FairSpec
CONSTANTS
  c1 = c1
  c2 = c2
  Clients = {c1, c2}
  Capacity = 2
  MaxEvents = 4
INVARIANTS
  TypeOK
  InOrder
  GapsNeedBacklog
PROPERTIES
  QueuedIsSent
  ReleasedFromLoop
\* Connections and events are bounded, so the instance comes to rest.
CHECK_DEADLOCK FALSE
