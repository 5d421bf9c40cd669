SPECIFICATION Spec
CONSTANTS
  p1 = p1
  p2 = p2
  None = None
  Body <- Bodies
  Proc = {p1, p2}
  Job = {1, 2, 3}
  Chunk = 3
  Chunks = {1, 2, 3}
  Ino = {1, 2, 3, 4, 5, 6, 7}
  Faults = {"reopen"}
  MaxGen = 1
  MaxFaults = 1
SYMMETRY Symmetric
INVARIANTS
  PromisesKept
