CONSTANTS
  Alphabet = {",", " "}
  PayloadSize = 3
  ShortLen = 8
  LongLen = 0
  Texts <- AllTexts
  MaxRounds = 1
SPECIFICATION Spec
INVARIANT FileWhole
