SPECIFICATION Spec
CONSTANTS
  p1 = p1
  p2 = p2
  a = a
  b = b
  c = c
  None = None
  Proc = {p1}
  JobId = {a}
  Batches <- Single
  Counts = {1}
  Timeouts = {1}
  Extensions = {1}
  NackDelays = {0}
  Base = 1
  Factor = 2
  MaxDelay = 1
  JitterPercent = 0
  Fsync = TRUE
  Ops = {"enqueue", "lease"}
  Faults = {"raise"}
  Watched = {}
  MaxTime = 2
  MaxEvents = 6
  MaxGen = 0
  MaxFaults = 1
INVARIANTS
  ReadyCovered
CHECK_DEADLOCK FALSE
