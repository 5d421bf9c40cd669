SPECIFICATION Spec
CONSTANTS
  i1 = i1
  i2 = i2
  w1 = w1
  w2 = w2
  w3 = w3
  x1 = x1
  t1 = t1
  t2 = t2
  Id = {i1}
  Token = {w1, x1}
  OwnTokens = {w1}
  NoToken = NoToken
  NoJob = NoJob
  Limit = 2
  Delays = {0}
  Timeout = 6
  Interval = 1
  BeatTime = 1
  MaxTime = 2
  Deadlines <- UpTo48
  Thread = {t1}
  MaxJobs = 1
  Faults = {"oserror"}
  MaxFaults = 1
PROPERTIES
  RunOneNeverRaises
CHECK_DEADLOCK FALSE
