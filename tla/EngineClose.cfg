CONSTANTS
  o1 = o1
  o2 = o2
  o3 = o3
  Obj = {o1}
  Null = Null
SPECIFICATION FairSpec
PROPERTY CloseUnblocksRead
