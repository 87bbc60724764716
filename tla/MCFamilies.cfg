SPECIFICATION Spec
CONSTANTS
  p1 = p1
  p2 = p2
  p3 = p3
  Producers = {p1, p2, p3}
  Chunks <- FileChunks
  Unreadable = {p3}
  Capacity = 4
  Times <- Rounds
  MaxTimes = 3
INVARIANTS
  TypeOK
  PipesKeepOrder
  InOrder
  SignalsArrive
PROPERTIES
  EverybodyEnds
\* Every program ends.
CHECK_DEADLOCK FALSE
