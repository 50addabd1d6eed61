SPECIFICATION WorkerSpec
CONSTANTS
  WorkerKinds = {"goal"}
  MaxCopies = 1
  MaxInbox = 2
  MaxWrites = 4
INVARIANTS
  StopStops
CHECK_DEADLOCK FALSE
