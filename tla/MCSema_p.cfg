SPECIFICATION Spec
CONSTANTS
  t1 = t1
  t2 = t2
  t3 = t3
  Threads = {t1, t2, t3}
  LwpThreads = {}
  UnsafeThreads = {t1, t2}
  PiThreads = {t1, t2, t3}
  PriocntlThreads = {}
  Pris = {1, 2}
  InitPri <- Ascending
  InitCount = 1
  MaxSupply = 2
  NoThread = NoThread
INVARIANTS
  CountMatchesQueue
  StateSound
PROPERTIES
  ImplementsAbstractSema
