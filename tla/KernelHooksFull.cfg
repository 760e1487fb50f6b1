CONSTANTS
  p1 = p1
  p2 = p2
  i1 = i1
  i2 = i2
  c1 = c1
  c2 = c2
  Pid = {p1, p2}
  LsmMode = TRUE
  MaxStart = 3
  MaxLive = 2
  Inode = {i1, i2}
  Device = {i2}
  Category = {c1, c2}
  Level = {0, 1, 2}
  MapCap = 2
  RingCap = 0
  MaxUpdates = 2
SPECIFICATION Spec
SYMMETRY Symmetry
INVARIANT UntrustedHasThreshold
