SPECIFICATION PlanSpec
CONSTANTS
  MaxPlans = 1
  MaxSteps = 1
  MaxVersions = 3
  MaxResumes = 1
  MaxStarts = 0
  PlanChannels = {"onebot"}
PROPERTIES
  NeverReplayed
