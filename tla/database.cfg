\* Two callers, three readings, an INSERT that may fail.
CONSTANTS
    None = None
    p1 = p1
    p2 = p2
    r1 = r1
    r2 = r2
    r3 = r3
    Producers <- TwoProducers
    Readings <- ThreeReadings
    SqliteMayFail = TRUE
SPECIFICATION Spec
INVARIANTS
    TakenInOrder
    RowsInOrder
    NoLostWakeup
\* The worker stops for good once the object is destroyed.
CHECK_DEADLOCK FALSE
