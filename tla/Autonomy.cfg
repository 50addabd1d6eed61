SPECIFICATION MCSpec
CONSTANTS
  Rhythms = {"daily", "interval", "none"}
  Period = 2
  MaxTime = 4
  Short = 3
  MaxQueued = 1
  MaxEdits = 1
  MaxOwner = 1
  MaxPauses = 1
  MaxReboots = 1
  DaysPerWeek = 2
  MaxDate = 3
  MaxManual = 1
  MaxFailures = 1
  MaxOutages = 0
  MaxSlots = 1
  MaxCommands = 1
  MaxEvents = 1
  MaxQuiet = 1
  MaxStops = 1
  MaxCrashes = 1
INVARIANTS
  AutonomyTypeOK
  ClaimsHaveJobs
  SkippedHasRun
  FrozenWeekStands
  SpeaksInformed
  ClosedStaysClosed
PROPERTIES
  DueIsReviewed
  ManualIsRedone
  DueMovesOn
CHECK_DEADLOCK FALSE
