SPECIFICATION Spec
CONSTANTS
  Pcb = {p1, p2, p3, p4}
  NSemd = 4
  UserSem = {s1}
  Dev = {disk}
  Term = {term}
  Clock = Clock
  NULL = NULL
  AfterSem = "other"
  MaskedIO = TRUE
  SharedTerminals = FALSE
  MaxSem = 1
  MaxSoft = 4
SYMMETRY Symmetry
INVARIANTS
  TypeOK
  OnePlace
  Family
  ProcCountExact
  SoftBlockedCovers
  SemaphoreLaw
  DescriptorsSuffice
  NobodyForgotten
  StopsRightly
PROPERTIES
  ImplementsLife
  KillsOnlySubtree
  OldestFirstUnlessKilled
