CONSTANTS
  MaxFiles = 2
  Slots = 2
  MsgQueueInit = 2
  MsgQueueCap = 1
  MaxRounds = 1
  ForkMayFail = FALSE
SPECIFICATION FairSpec
PROPERTIES
  ImplementsDelivery
  RoundEnds
  OutputsWritten
  ChildEnds
