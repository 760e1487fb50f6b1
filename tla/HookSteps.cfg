SPECIFICATION Spec
CONSTANTS
    t1 = t1
    t2 = t2
    cpu0 = cpu0
    cpu1 = cpu1
    file = file
    device = device
    Task <- MCTask
    Opener <- MCOpener
    Cpu <- MCCpu
    Inode <- MCInode
    Device <- MCDevice
    RingCaps = {1, 2}
    MaxCalls = 3
INVARIANTS
    DeliveredIntact
    DeliveredInOrder
    NumbersWithoutGap
    BusyIsOwned
    AnswerWasDue
CHECK_DEADLOCK FALSE
