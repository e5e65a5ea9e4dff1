SPECIFICATION Spec
CONSTANTS
    Streams = {os1, os2}
    Thread <- ThreadEach
    NoNode = NoNode
    MaxSends = 2
INVARIANTS
    StreamIsOwn
CHECK_DEADLOCK FALSE
