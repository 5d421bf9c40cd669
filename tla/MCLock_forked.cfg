SPECIFICATION Spec
CONSTANTS
  p1 = p1
  p2 = p2
  t1 = t1
  t2 = t2
  t3 = t3
  d1 = d1
  d2 = d2
  d3 = d3
  Proc = {p1, p2}
  Thread = {t1, t2, t3}
  Home <- Homes
  Desc = {d1, d2, d3}
  None = None
  Gone = Gone
  Forks = "use"
  Interrupts = FALSE
  MaxCalls = 5
INVARIANTS
  MutualExclusion
CHECK_DEADLOCK FALSE
