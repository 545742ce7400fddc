SPECIFICATION FairSpec
CONSTANTS
  UProc = {u1, u2}
  u1 = u1
  u2 = u2
  Page <- MCPage
  NFrames = 2
  NOPROC = NOPROC
  NULL = NULL
  MaxSpoiled = 1
INVARIANTS
  TypeOK
  FramesRegistered
  TlbCoherent
  NeverElsewhere
  NoStalePage
  FlashNeverContended
  NothingLeaked
PROPERTIES
  FaultServed
