CONSTANTS
    Clients = {c1, c2}
    Frames = 3
    Periods = {2}
    MaxRecordings = 2
    MaxDuplicates = 2
SPECIFICATION Spec
INVARIANTS
    HeardIsSent
    AnsweredWasPlayed
PROPERTIES
    WaitsOnlyForLost
\* Without its answer a client waits for ever.
CHECK_DEADLOCK FALSE
