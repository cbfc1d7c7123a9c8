\* The destructor against a worker that is about to sleep.
CONSTANTS
    None = None
    p1 = p1
    p2 = p2
    r1 = r1
    r2 = r2
    r3 = r3
    Producers <- TwoProducers
    Readings <- ThreeReadings
    SqliteMayFail = FALSE
SPECIFICATION Spec
PROPERTIES
    DestructorReturns
\* The worker stops for good once the object is destroyed.
CHECK_DEADLOCK FALSE
