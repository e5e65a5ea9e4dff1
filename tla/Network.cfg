SPECIFICATION FairSpec
CONSTANTS
    Clients = {1, 2}
    MaxRecent = 2
    MaxMsgs = 4
    max_length = 2
    max_body_length = 1
    Wrap = 64
    MaxLines = 2
    Connections = {p1}
    MaxRequests = 2
INVARIANTS
    HearsAStretch
    LinesInOrder
    AnswersInOrder
PROPERTIES
    Heard
    ClientReturns
CHECK_DEADLOCK FALSE
