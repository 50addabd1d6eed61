SPECIFICATION Spec
CONSTANTS
  MaxRows = 2
  MaxRestarts = 1
  Nil = Nil
  Channels = {qq, call}
  CallChannels = {call}
  ConfigChoices = {{qq, call}, {qq}}
  OwnerTurns = {t1}
  HeartbeatTurns = {hb}
  OtherTurns = {}
  Kinds = {"text"}
INVARIANTS
  ChannelOrder
  RecordAgrees
  HonestRecord
