SPECIFICATION Spec
CONSTANTS
    t1 = t1
    t2 = t2
    Tid <- MCTid
    MapCap = 1
    RingCap = 1
    MaxReads = 4
    MaxWrites = 1
SYMMETRY MCSymmetry
INVARIANTS
    ReadsPaired
    ReportedOnce
    PendingHasReader
CHECK_DEADLOCK FALSE
