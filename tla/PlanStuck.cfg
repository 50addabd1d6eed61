SPECIFICATION PlanSpec
CONSTANTS
  MaxPlans = 1
  MaxSteps = 1
  MaxVersions = 1
  MaxResumes = 1
  MaxStarts = 0
  PlanChannels = {"onebot"}
INVARIANTS
  InterruptedIsPaused
