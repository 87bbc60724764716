CONSTANTS
  Inputs <- OneFile
  Room <- OneRoom
  MAX_FILES = 9
  MaxRounds = 2
SPECIFICATION Spec
INVARIANT OutputsOpen
