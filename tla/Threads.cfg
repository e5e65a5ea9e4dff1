SPECIFICATION FairSpec
CONSTANTS
    Threads = {0, 1, 2, 3, 4, 5, 6, 7}
    TotalThreads = 3
    ValuesCount = 8
    maxThreadCount = 4
    MinSize = 2
    Loops = 2
    Folowers = 3
    totalPages = 1
    buyerCount = 2
    Calls <- MCCalls
    Sent <- MCSent
    Handlers <- MCHandlers
    Network = 7
    Tests <- MCTests
    PingLength = 2
    Requests = 3
    Callers = {c1, c2}
    Nobody = Nobody
    Worker = worker
    MaxTasks = 3
INVARIANTS
    SumsExact
    HandedOver
    NobodyEarly
    StopRunsTheRest
PROPERTIES
    ProgramsEnd
CHECK_DEADLOCK FALSE
