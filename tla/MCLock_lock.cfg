SPECIFICATION Spec
CONSTANTS
  p1 = p1
  p2 = p2
  t1 = t1
  t2 = t2
  t3 = t3
  d1 = d1
  d2 = d2
  d3 = d3
  Proc = {p1, p2}
  Thread = {t1, t2, t3}
  Home <- Homes
  Desc = {d1, d2, d3}
  None = None
  Gone = Gone
  Forks = "keep"
  Interrupts = TRUE
  MaxCalls = 6
INVARIANTS
  MutualExclusion
  IInv
  NeverLeftBehind
PROPERTIES
  CallsEnd
CHECK_DEADLOCK FALSE
