SPECIFICATION Spec
CONSTANTS
    t1 = t1
    t2 = t2
    host = host
    h1 = h1
    h2 = h2
    c1 = c1
    c2 = c2
    Thread <- MCThread
    Producers <- MCProducers
    Handle <- MCHandle
    Conn <- MCConn
    Host <- host
    Invalid = Invalid
    Nobody = Nobody
    NoThread = NoThread
    MaxBuffered = 2
    MaxStarts = 2
INVARIANTS
    TracesOwnSession
    OneConsumer
    HandlesOwned
    ConnectedHasPipe
    WindowsStreams
PROPERTIES
    StoppedStaysDeaf
    CallsReturn
    TraceThreadEnds
CHECK_DEADLOCK FALSE
