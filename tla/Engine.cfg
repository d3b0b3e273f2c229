SPECIFICATION MeteredFairSpec
CONSTANTS
  f1 = f1
  m1 = m1
  m2 = m2
  f2 = f2
  Failures = {f1, f2}
  Merchants = {m1, m2}
  MaxSize = 2
  TTL = 1
  MaxTries = 3
  Hints = {1}
  MaxTime = 3
INVARIANTS
  TypeOK
  DecisionFitsKey
  ServedFresh
  CacheBounded
  ErrorNamesWorst
  BackoffAtLeast
  CostsAreTrue
  RunCountedOnce
PROPERTIES
  RequestEnds
