SPECIFICATION Spec
CONSTANTS
  Pcb = {p1, p2}
  NSemd = 2
  UserSem = {s1}
  Dev = {}
  Term = {}
  Clock = Clock
  NULL = NULL
  AfterSem = "other"
  MaskedIO = TRUE
  SharedTerminals = FALSE
  MaxSem = 1
  MaxSoft = 2
INVARIANT DeadlockDetected
