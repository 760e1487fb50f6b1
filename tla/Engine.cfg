CONSTANTS
  o1 = o1
  o2 = o2
  o3 = o3
  Obj = {o1, o2, o3}
  Null = Null
SPECIFICATION FairSpec
INVARIANTS
  TypeOK
  PollHasRing
  StopLeavesOnlyFilePermission
  SendersQuiet
  IdleEngineHasNoThreads
  RunningEngineIsHooked
  StrayReadIsLast
PROPERTIES
  StopIsFinal
  StopReturns
