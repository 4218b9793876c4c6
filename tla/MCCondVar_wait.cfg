SPECIFICATION Spec
CONSTANTS
  w1 = w1
  w2 = w2
  w3 = w3
  cv1 = cv1
  cv2 = cv2
  Waiters = {w1, w2, w3}
  TimedWaiters = {}
  SigWaiters = {}
  Signallers = {p1, p2}
  CVs = {cv1, cv2}
  CvOf <- TwoCvs
  Delays = {}
  MaxTime = 0
  PiThreads = {w1, w2}
  Pris = {1, 2}
  InitPri <- TwoPris
  Panics = TRUE
  None = None
INVARIANTS
  CvSound
  NoMissedWakeup
PROPERTIES
  SignalWakesHighest
