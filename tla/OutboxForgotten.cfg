SPECIFICATION Spec
CONSTANTS
  MaxRows = 1
  MaxRestarts = 0
  Nil = Nil
  Channels = {qq}
  CallChannels = {}
  ConfigChoices = {{qq}}
  OwnerTurns = {}
  HeartbeatTurns = {hb}
  OtherTurns = {}
  Kinds = {"text"}
INVARIANTS
  SeenIsRemembered
