\* SIGINT while handlers are running.
CONSTANTS
    None = None
    w1 = w1
    w2 = w2
    c1 = c1
    c2 = c2
    c3 = c3
    d1 = d1
    Workers <- TwoWorkers
    Conns <- TwoConns
    Devices <- OneDevice
    DeviceOf <- SameDevice
    MaxSignals = 1
    AcceptMayFail = FALSE
    SqliteMayFail = FALSE
SPECIFICATION Spec
SYMMETRY Symmetry
INVARIANTS
    HandlersOutlived
\* The server stops for good once it has terminated.
CHECK_DEADLOCK FALSE
