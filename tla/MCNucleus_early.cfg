SPECIFICATION Spec
CONSTANTS
  Pcb = {p1, p2}
  NSemd = 2
  UserSem = {}
  Dev = {disk}
  Term = {}
  Clock = Clock
  NULL = NULL
  AfterSem = "SoftBlocked"
  MaskedIO = FALSE
  SharedTerminals = FALSE
  MaxSem = 1
  MaxSoft = 2
INVARIANT BlockedByP
