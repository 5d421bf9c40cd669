SPECIFICATION Spec
CONSTANTS
  i1 = i1
  i2 = i2
  t1 = t1
  t2 = t2
  t3 = t3
  NoToken = NoToken
  Id = {i1, i2}
  Token = {t1, t2, t3}
  Limits = {2}
  Delays = {0}
  Timeouts = {1}
  MaxTime = 3
  Deadlines = {0, 1, 2, 3}
SYMMETRY Symmetry
INVARIANTS IInv Exclusive AttemptsBounded
PROPERTIES LapsedStaysLapsed
