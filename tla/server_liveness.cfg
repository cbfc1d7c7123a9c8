\* One worker, two connections: progress of a server nobody stops.
CONSTANTS
    None = None
    w1 = w1
    w2 = w2
    c1 = c1
    c2 = c2
    c3 = c3
    d1 = d1
    Workers <- OneWorker
    Conns <- TwoConns
    Devices <- OneDevice
    DeviceOf <- SameDevice
    MaxSignals = 0
    AcceptMayFail = FALSE
    SqliteMayFail = FALSE
SPECIFICATION Spec
PROPERTIES
    EveryClientServed
    AckedIsStored
\* The server stops for good once it has terminated.
CHECK_DEADLOCK FALSE
