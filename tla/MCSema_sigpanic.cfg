SPECIFICATION Spec
CONSTANTS
  t1 = t1
  t2 = t2
  t3 = t3
  Threads = {t1, t2, t3}
  LwpThreads = {t1, t2}
  UnsafeThreads = {}
  PiThreads = {}
  PriocntlThreads = {}
  Pris = {1}
  InitPri <- AllOne
  InitCount = 1
  MaxSupply = 2
  NoThread = NoThread
INVARIANTS
  NoSemaPanic
