CONSTANTS
  MaxFiles = 2
  Slots = 1
  MsgQueueInit = 1
  MsgQueueCap = 2
  MaxRounds = 2
  ForkMayFail = TRUE
SPECIFICATION Spec
INVARIANTS
  TypeOK
  ChannelOwnership
  Framing
  EachPartOnce
  NoOverrun
  BarrierHolds
