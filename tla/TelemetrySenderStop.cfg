CONSTANTS
  p1 = p1
  p2 = p2
  c1 = c1
  c2 = c2
  e1 = e1
  e2 = e2
  f1 = f1
  f2 = f2
  Producers = {p1}
  Conn = {c1}
  Event = {e1}
  Fd = {f1, f2}
  NoFd = NoFd
  NoThread = NoThread
  NoEvent = NoEvent
  AuthToken = TRUE
SPECIFICATION Spec
INVARIANT StopDisconnects
