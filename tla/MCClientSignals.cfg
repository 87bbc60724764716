CONSTANT MaxSignals = 5
SPECIFICATION FairSpec
INVARIANTS
  TypeOK
  RoundUndisturbed
PROPERTIES
  SigIntAnswered
  SigUsr1Ends
