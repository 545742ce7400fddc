SPECIFICATION FairSpec
CONSTANTS
  MAXSTRLENG = 3
  MaxLine = 3
INVARIANTS
  TypeOK
  InterruptToCome
  ResultTruthful
  GivesBack
PROPERTIES
  CallEnds
