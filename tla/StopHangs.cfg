SPECIFICATION FairSpec
CONSTANTS
    Workers = {w1}
    NotifyAll = FALSE
    NoTask = NoTask
    Clients = {c1}
    TestStopped = TRUE
    MaxTasks = 1
PROPERTIES
    StopReturns
CHECK_DEADLOCK FALSE
