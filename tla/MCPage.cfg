SPECIFICATION Spec
CONSTANTS
  Threads = {t1, t2, t3}
  Pages = {p1, p2}
  Names = {n1, n2}
  None = None
SYMMETRY Symmetry
INVARIANTS
  LocksSound
  NamesSound
  WaitersNotLost
  WaitsForItsName
  NoWaitCycle
