SPECIFICATION Spec
CONSTANTS
  Clients = {x1, x2}
  UnsafeClients = {}
  Executors = {e1, e2}
  Realtime = TRUE
  Structs = {s1, s2}
  Deltas = {1}
  TimeMod = 6
  Buckets = 2
  StartTime = 4
  MaxLag = 1
  Cpr = TRUE
  None = None
SYMMETRY Symmetry
INVARIANTS
  GoneAfterUntimeout
  NotEarly
  RunsExactlyOnce
  TableSound
