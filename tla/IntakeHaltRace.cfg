SPECIFICATION Spec
CONSTANTS
  Procs = {p1, p2}
  NoId = NoId
  NoEvent = NoEvent
  P1 = P1
  P2 = P2
  S1 = S1
  Ids = {P1, P2, S1}
  Events <- HaltEvents
  Secret = TRUE
  Simulation = FALSE
  DatabaseFails = FALSE
  MaxDeliveries = 1
CHECK_DEADLOCK FALSE
INVARIANTS
  AcknowledgedOnFile
