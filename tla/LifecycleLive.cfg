SPECIFICATION FairSpec
CONSTANTS
  p1 = p1
  w1 = w1
  r1 = r1
  Payments = {p1}
  Web = {w1}
  Runners = {r1}
  MaxRetries = 2
  MaxAttempts = 3
  EventStatuses = {"FAILED"}
  Faults = {}
INVARIANTS
  FailureFollowedUp
PROPERTIES
  EveryAttemptSettles
  RecoveryConcludes
