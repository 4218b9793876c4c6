SPECIFICATION Spec
CONSTANTS
  t1 = t1
  t2 = t2
  t3 = t3
  t4 = t4
  Threads = {t1, t2, t3}
  Clock = Clock
  Mutexes = {1, 2}
  Turnstiles = {s1, s2}
  Pri <- ThreePris
  Panics = TRUE
  None = None
SYMMETRY TsSymmetry
INVARIANTS
  NoLostWakeup
  MutexSound
  InheritedKept
