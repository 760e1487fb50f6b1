CONSTANTS
  p1 = p1
  p2 = p2
  i1 = i1
  i2 = i2
  c1 = c1
  c2 = c2
  Pid = {p1, p2}
  LsmMode = FALSE
  MaxStart = 3
  MaxLive = 2
  Inode = {i1}
  Device = {}
  Category = {c1}
  Level = {1, 2}
  MapCap = 2
  RingCap = 1
  MaxUpdates = 2
SPECIFICATION Spec
SYMMETRY Symmetry
INVARIANTS
  ExitCleansUp
