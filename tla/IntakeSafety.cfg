SPECIFICATION FairSpec
CONSTANTS
  MaxEvents = 3
  MaxRestarts = 1
  Channels = {"onebot", "weixin"}
  RecallChannels = {"onebot"}
  PollChannels = {"weixin"}
INVARIANTS
  HeldOnce
  NoOvertaking
  EffectsAccounted
  SameTurnNotRerun
PROPERTIES
  EveryMessageSettles
