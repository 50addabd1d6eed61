SPECIFICATION EpisodeSpec
CONSTANTS
  MaxTurns = 2
  BatchSize = 2
  RawTail = 1
  GiveUpAfter = 2
  MaxMishaps = 0
  MaxPrepared = 1
  MaxRestarts = 0
INVARIANTS
  CompletedNotClaimed
CHECK_DEADLOCK FALSE
