SPECIFICATION FairSpec
CONSTANTS
  w1 = w1
  w2 = w2
  w3 = w3
  cv1 = cv1
  cv2 = cv2
  Waiters = {w1, w2}
  TimedWaiters = {w1, w2}
  SigWaiters = {w2}
  Signallers = {p1}
  CVs = {cv1}
  CvOf <- SameCv
  Delays = {0, 1}
  MaxTime = 1
  PiThreads = {}
  Pris = {1}
  InitPri <- OnePri
  Panics = FALSE
  None = None
INVARIANTS
  TimedSound
  NoStaleSetrun
  TimeoutHonest
  NoSleepOnSignal
PROPERTIES
  TimedWaitReturns
