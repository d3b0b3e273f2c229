SPECIFICATION FairSpec
CONSTANTS
  w1 = w1
  w2 = w2
  Web = {w1, w2}
  MaxVersion = 3
INVARIANTS
  EvaluatedIsServed
  MetadataNeverAhead
PROPERTIES
  EnsembleStays
  PickedUp
