SPECIFICATION Spec
CONSTANTS
  p1 = p1
  p2 = p2
  None = None
  Body <- Bodies
  Proc = {p1, p2}
  Job = {1, 2}
  Chunk = 3
  Chunks = {1, 2, 3}
  Ino = {1, 2, 3, 4, 5, 6, 7}
  Faults = {"kill", "killsync", "raise", "dirsync", "power"}
  MaxGen = 1
  MaxFaults = 2
SYMMETRY Symmetric
INVARIANTS
  TypeOK
  PromisesKept
  WorksOnLiveLog
  ScanIsExact
  IInv
