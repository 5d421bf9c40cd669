SPECIFICATION Spec
CONSTANTS
  p1 = p1
  p2 = p2
  a = a
  b = b
  c = c
  None = None
  Proc = {p1, p2}
  JobId = {a, b}
  Batches <- Paired
  Counts = {1}
  Timeouts = {1}
  Extensions = {1}
  NackDelays = {0}
  Base = 1
  Factor = 2
  MaxDelay = 1
  JitterPercent = 0
  Fsync = TRUE
  Ops = {"enqueue", "lease", "ack", "read", "stop", "compact"}
  Faults = {"kill", "raise", "power", "interrupt"}
  Watched = {"created", "acked"}
  MaxTime = 1
  MaxEvents = 5
  MaxGen = 1
  MaxFaults = 1
INVARIANTS
  IInv
  CacheOfLog
  NothingLost
  RepliesKept
  SeqUnique
  CompletedStaysCompleted
CHECK_DEADLOCK FALSE
SYMMETRY Symmetry
