SPECIFICATION Spec
CONSTANTS
  Threads = {t1, t2, t3}
  PCF_FANOUT = 3
  NPages = 3
  Requests = {2}
  LargePages = {3}
  MaxWait = 2
  None = None
SYMMETRY Symmetry
INVARIANTS
  PagesCovered
  CountsSound
CHECK_DEADLOCK FALSE
