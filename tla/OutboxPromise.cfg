SPECIFICATION FairSpec
CONSTANTS
  MaxRows = 2
  MaxRestarts = 1
  Nil = Nil
  Channels = {qq, call}
  CallChannels = {call}
  ConfigChoices = {{qq, call}, {qq}}
  OwnerTurns = {}
  HeartbeatTurns = {}
  OtherTurns = {w}
  Kinds = {"voice","video"}
PROPERTIES
  WithdrawnNeverSent
  ImplementsCourier
  EveryBubbleSettles
