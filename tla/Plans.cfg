SPECIFICATION ScopedSpec
CONSTANTS
  MaxPlans = 2
  MaxSteps = 2
  MaxVersions = 2
  MaxResumes = 1
  MaxStarts = 1
  PlanChannels = {"onebot", "weixin"}
  Scopes = {"life", "pair", "steps"}
INVARIANTS
  AgreedVersion
  StepTurnFresh
  RunningIsHeld
PROPERTIES
  NoSilentReplay
