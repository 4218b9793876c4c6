SPECIFICATION SoftcallFairSpec
CONSTANTS
  CPUs = {c1, c2}
  Funcs = {f1}
  NSOFTCALLS = 1
  Driver = Driver
  None = None
INVARIANTS
  NoneStranded
  PendingIsPosted
  OwedIsQueued
  PoolSuffices
PROPERTIES
  RequestIsServed
