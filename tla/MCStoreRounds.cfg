CONSTANTS
  Inputs <- Mixed
  Room <- MixedRoom
  MAX_FILES = 9
  MaxRounds = 3
SPECIFICATION Spec
INVARIANTS
  TypeOK
  RoundWritten
  NameTellsContent
