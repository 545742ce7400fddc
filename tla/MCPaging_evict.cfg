SPECIFICATION Spec
CONSTANTS
  UProc = {u1, u2}
  u1 = u1
  u2 = u2
  Page <- MCPage
  NFrames = 2
  NOPROC = NOPROC
  NULL = NULL
  MaxSpoiled = 0
INVARIANTS
  WriteBackToOwner
