SPECIFICATION FairSpec
CONSTANTS
    t1 = t1
    t2 = t2
    t3 = t3
    w1 = w1
    w2 = w2
    Tasks <- MCTasks
    Waiters <- MCWaiters
    MaxConcurrent = 2
    CleanupAfter = 1
INVARIANTS
    StartsAreSpaced
    ReportIsComplete
PROPERTIES
    ImplementsPool
    NoWakeUpIsLost
