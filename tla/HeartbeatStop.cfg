SPECIFICATION FairHbSpec
CONSTANTS
  MaxSlots = 2
  MaxCommands = 0
  MaxEvents = 0
  MaxQuiet = 0
  MaxStops = 1
  MaxCrashes = 0
PROPERTIES
  HeartbeatReturns
CHECK_DEADLOCK FALSE
