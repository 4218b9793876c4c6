SPECIFICATION Spec
CONSTANTS
  t1 = t1
  t2 = t2
  t3 = t3
  Threads = {t1, t2, t3}
  LwpThreads = {t1, t2}
  UnsafeThreads = {}
  PiThreads = {t1}
  PriocntlThreads = {t2}
  Pris = {1, 2}
  InitPri <- AllOne
  InitCount = 1
  MaxSupply = 2
  NoThread = NoThread
INVARIANTS
  CountAccounts
  QueueSound
  NoLostSignal
