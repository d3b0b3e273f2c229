SPECIFICATION Spec
CONSTANTS
  MaxRetries = 3
  Times <- EveryTwentyMinutes
  Reports <- MixedReports
\* A payment that is handed over is not asked about again.
CHECK_DEADLOCK FALSE
INVARIANTS
  TypeOK
  OutsideMaintenance
  DelayIsTrue
  PostponedLittle
  DeadCardNotRetried
