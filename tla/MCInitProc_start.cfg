SPECIFICATION FairSpec
CONSTANTS
  UPROCMAX = 4
  MAXPROC = 5
INVARIANTS
  TypeOK
  TestLast
  MasterLaw
PROPERTIES
  OnlyFinishedDie
  TestEnds
