SPECIFICATION RSpec
CONSTANTS
  p1 = p1
  p2 = p2
  a = a
  b = b
  c = c
  None = None
  Proc = {p1, p2}
  JobId = {a}
  Batches <- Mixed
  Counts = {1}
  Timeouts = {1}
  Extensions = {1}
  NackDelays = {0}
  Base = 0
  Factor = 2
  MaxDelay = 1
  JitterPercent = 0
  Fsync = TRUE
  Ops = {"enqueue", "lease", "ack", "nack", "extend", "requeue", "purge", "compact", "stop", "read"}
  Faults = {}
  Watched = {"acked"}
  MaxTime = 1
  MaxEvents = 5
  MaxGen = 1
  MaxFaults = 1
  Tokens = {1, 2, 3, 4, 5, 6, 7, 8, 9, 10}
INVARIANTS
  AckFenced
  NoOrphans
  DeliveriesBounded
  LeaseCovered
PROPERTIES
  ImplementsDelivery
CHECK_DEADLOCK FALSE
SYMMETRY Symmetry
