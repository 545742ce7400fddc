SPECIFICATION Spec
CONSTANTS
  MAXSTRLENG = 3
  MaxLine = 3
INVARIANTS
  ReturnsToNext
