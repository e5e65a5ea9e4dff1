SPECIFICATION FairSpec
CONSTANTS
    Workers = {w1}
    NotifyAll = FALSE
    NoTask = NoTask
    Clients = {c1, c2}
    TestStopped = TRUE
    MaxTasks = 4
INVARIANTS
    EachTaskOnce
    EarlyTasksRun
PROPERTIES
    QuietAfterStop
    StopReturnsOutsideWindow
    ImplementsService
CHECK_DEADLOCK FALSE
