SPECIFICATION GoalSpec
CONSTANTS
  Rhythms = {"daily"}
  Period = 4
  MaxTime = 8
  MaxQueued = 1
  MaxEdits = 0
  MaxOwner = 0
  MaxPauses = 2
  MaxReboots = 0
INVARIANTS
  SlotStillRuns
CHECK_DEADLOCK FALSE
