SPECIFICATION FairPoolSpec
CONSTANTS
    Workers = {w1, w2}
    NotifyAll = TRUE
    NoTask = NoTask
    Owner = owner
    MaxTasks = 4
INVARIANTS
    PoolDrains
PROPERTIES
    DestructorReturns
    FutureReady
CHECK_DEADLOCK FALSE
