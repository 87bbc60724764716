CONSTANTS
  MaxFiles = 1
  Slots = 1
  MsgQueueInit = 1
  MsgQueueCap = 2
  MaxRounds = 4
  ForkMayFail = FALSE
SPECIFICATION FairSpec
INVARIANTS
  FinitosPileUp
  TornChannels
PROPERTIES
  ImplementsDelivery
  RoundEnds
  RoundsStartAtRest
\* With the queue full of closing messages the server blocks in msgsnd after a
\* round without files, and Client_0 waits for serverOk in the next.
CHECK_DEADLOCK FALSE
