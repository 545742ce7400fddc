SPECIFICATION FairSpec
CONSTANTS
  Pcb = {p1, p2, p3, p4}
  NSemd = 4
  UserSem = {}
  Dev = {}
  Term = {}
  Clock = Clock
  NULL = NULL
  AfterSem = "SoftBlocked"
  MaskedIO = TRUE
  SharedTerminals = FALSE
  MaxSem = 1
  MaxSoft = 2
PROPERTY OldestFirst
