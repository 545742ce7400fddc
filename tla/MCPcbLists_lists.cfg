SPECIFICATION Spec
CONSTANTS
  MAXPROC = 4
  Key = {1, 2, 3}
  MAXINT = 4
  NULL = NULL
  Caller <- MCCaller
INVARIANTS
  TypeOK
  LinksMatch
  ActiveListInOrder
PROPERTIES
  ImplementsLists
