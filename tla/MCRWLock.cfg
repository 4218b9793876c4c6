SPECIFICATION FairSpec
CONSTANTS
  t1 = t1
  t2 = t2
  t3 = t3
  Threads = {t1, t2, t3}
  Pri <- ThreePris
  PiThreads = {t1}
  OtherPris = {3}
  Panics = TRUE
  None = None
INVARIANTS
  LockSound
  NoLostWakeup
PROPERTIES
  ImplementsAbstractRWLock
  WaiterIsWoken
CHECK_DEADLOCK FALSE
