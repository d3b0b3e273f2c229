SPECIFICATION FairSpec
CONSTANTS
  p1 = p1
  w1 = w1
  r1 = r1
  Payments = {p1}
  Web = {w1}
  Runners = {r1}
  MaxRetries = 1
  MaxAttempts = 1
  EventStatuses = {"FAILED"}
  Faults = {}
PROPERTY WebhookReachesPipeline
