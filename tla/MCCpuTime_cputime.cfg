SPECIFICATION Spec
CONSTANTS
  Pcb = {p1, p2}
  NULL = NULL
  MaxTime = 3
INVARIANTS
  NotMoreThanRealTime
CHECK_DEADLOCK FALSE
