SPECIFICATION Spec
CONSTANTS
  p1 = p1
  p2 = p2
  a = a
  b = b
  c = c
  None = None
  Proc = {p1}
  JobId = {a, b, c}
  Batches <- Ranked
  Counts = {1, 2}
  Timeouts = {1}
  Extensions = {1}
  NackDelays = {0}
  Base = 1
  Factor = 2
  MaxDelay = 2
  JitterPercent = 50
  Fsync = TRUE
  Ops = {"enqueue", "lease", "nack", "extend", "requeue", "purge", "idle"}
  Faults = {"clock", "abort"}
  Watched = {}
  MaxTime = 2
  MaxEvents = 5
  MaxGen = 0
  MaxFaults = 1
INVARIANTS
  TypeOK
  ReadyCovered
  LeasesBestFirst
CHECK_DEADLOCK FALSE
