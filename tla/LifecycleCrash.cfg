SPECIFICATION Spec
CONSTANTS
  p1 = p1
  w1 = w1
  w2 = w2
  r1 = r1
  Payments = {p1}
  Web = {w1, w2}
  Runners = {r1}
  MaxRetries = 2
  MaxAttempts = 0
  EventStatuses = {"FAILED", "CAPTURED"}
  Faults = {"crash", "credentials"}
SYMMETRY WebSymmetry
INVARIANTS
  TypeOK
  AttemptsContiguous
  RetryCap
  StatusBackedByRecord
  SuccessIsCaptured
PROPERTIES
  OnlyCrashForgets
  ResultsFinal
  CountedForGood
  AdviceStands
  KeepsPromise
