SPECIFICATION FairSpec
CONSTANTS
  p1 = p1
  p2 = p2
  a = a
  b = b
  c = c
  None = None
  Proc = {p1, p2}
  JobId = {a}
  Batches <- Single
  Counts = {1}
  Timeouts = {1}
  Extensions = {1}
  NackDelays = {}
  Base = 1
  Factor = 2
  MaxDelay = 1
  JitterPercent = 0
  Fsync = TRUE
  Ops = {"enqueue", "lease", "nack", "compact"}
  Faults = {"kill"}
  Watched = {}
  MaxTime = 7
  MaxEvents = 6
  MaxGen = 1
  MaxFaults = 1
INVARIANTS
  DeliveriesBounded
  LeaseCovered
PROPERTIES
  Settles
CHECK_DEADLOCK FALSE
