CONSTANTS
  MaxFiles = 1
  Slots = 1
  MsgQueueInit = 1
  MsgQueueCap = 1
  MaxRounds = 1
  ForkMayFail = FALSE
SPECIFICATION Spec
PROPERTY ClosesAfterOutputs
