SPECIFICATION FairSpec
CONSTANTS
    Clients = {c1, c2}
    NoClient = NoClient
    TextLen = 2
    MaxLength = 2
INVARIANTS
    SessionInOrder
    NoDanglingObserver
PROPERTIES
    EverythingParsed
CHECK_DEADLOCK FALSE
