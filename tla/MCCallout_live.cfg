SPECIFICATION FairSpec
CONSTANTS
  Clients = {x1}
  UnsafeClients = {x1}
  Executors = {e1}
  Realtime = FALSE
  Structs = {s1}
  Deltas = {0, 1}
  TimeMod = 6
  Buckets = 2
  StartTime = 4
  MaxLag = 1
  Cpr = TRUE
  None = None
PROPERTIES
  ImplementsTimeout
  DueIsRun
  UntimeoutReturns
