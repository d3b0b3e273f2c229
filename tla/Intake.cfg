SPECIFICATION Spec
CONSTANTS
  Procs = {p1, p2}
  NoId = NoId
  NoEvent = NoEvent
  P1 = P1
  P2 = P2
  S1 = S1
  Ids = {P1, P2, S1}
  Events <- MixedEvents
  Secret = TRUE
  Simulation = TRUE
  DatabaseFails = TRUE
  MaxDeliveries = 1
CHECK_DEADLOCK FALSE
INVARIANTS
  TypeOK
  OneRowPerPayment
PROPERTIES
  KeepsTable
