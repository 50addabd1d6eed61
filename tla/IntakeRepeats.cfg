SPECIFICATION Spec
CONSTANTS
  MaxEvents = 3
  MaxRestarts = 1
  Channels = {"onebot", "weixin"}
  RecallChannels = {"onebot"}
  PollChannels = {"weixin"}
INVARIANT
  UncertainNotRepeated
