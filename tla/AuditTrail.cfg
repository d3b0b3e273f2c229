SPECIFICATION Spec
CONSTANTS
  p1 = p1
  w1 = w1
  r1 = r1
  r2 = r2
  Payments = {p1}
  Web = {w1}
  Runners = {r1, r2}
  MaxRetries = 2
  MaxAttempts = 2
  EventStatuses = {"FAILED"}
  Faults = {}
PROPERTY ResultsFinal
