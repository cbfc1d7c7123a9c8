\* Three workers and three tasks, every interleaving of the pool's threads.
CONSTANTS
    None = None
    w1 = w1
    w2 = w2
    w3 = w3
    t1 = t1
    t2 = t2
    t3 = t3
    Workers <- ThreeWorkers
    Tasks <- ThreeTasks
SPECIFICATION Spec
INVARIANTS
    TakenInOrder
    NoLostWakeup
    NoneAsleepAtJoin
    DrainedWhenDestroyed
PROPERTIES
    DestructorReturns
    ImplementsExecutor
\* The pool stops for good once it is destroyed.
CHECK_DEADLOCK FALSE
