SPECIFICATION FairSpec
CONSTANTS
  Pcb = {p1, p2, p3}
  NSemd = 3
  UserSem = {s1}
  Dev = {}
  Term = {term}
  Clock = Clock
  NULL = NULL
  AfterSem = "SoftBlocked"
  MaskedIO = TRUE
  SharedTerminals = FALSE
  MaxSem = 1
  MaxSoft = 3
INVARIANTS
  SoftBlockedExact
  DeadlockDetected
  DeviceLaw
PROPERTIES
  WokenByCompletion
  ReadyRuns
  SoftWaitEnds
