CONSTANTS
  Alphabet = {",", " ", "]"}
  PayloadSize = 3
  ShortLen = 6
  LongLen = 10
  Texts <- DelimiterTexts
  MaxRounds = 1
SPECIFICATION Spec
INVARIANTS
  TypeOK
  SplitWhole
  
