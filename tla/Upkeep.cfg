SPECIFICATION MCSpec
CONSTANTS
  MaxSources = 2
  MaxReviews = 2
  FailureLimit = 2
  MaxErrors = 2
  MaxBreaks = 1
  MaxTurns = 2
  BatchSize = 1
  RawTail = 1
  GiveUpAfter = 2
  MaxMishaps = 1
  MaxPrepared = 1
  MaxRestarts = 1
INVARIANTS
  MaintenanceTypeOK
  SettledOnceInOrder
  ClosedWasApplied
  SummaryMatchesHistory
PROPERTIES
  UpkeepSettles
  TurnsAreFiled
CHECK_DEADLOCK FALSE
