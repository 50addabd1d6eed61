SPECIFICATION MCSpec
CONSTANTS
  WorkerKinds = {"plan_step", "webhook", "goal"}
  MaxCopies = 1
  MaxInbox = 2
  MaxWrites = 3
  RunShapes <- MCShapes
  MaxRuns = 1
  MaxHalts = 1
  MaxBoots = 0
  MaxPlans = 2
  MaxSteps = 2
  MaxVersions = 2
  MaxResumes = 1
  MaxStarts = 1
  PlanChannels = {"onebot", "weixin"}
  Scopes = {"small"}
INVARIANTS
  StoppedClipStaysBack
CHECK_DEADLOCK FALSE
