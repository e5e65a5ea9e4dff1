SPECIFICATION Spec
CONSTANTS
    Streams = {os1, os2, os3}
    Thread <- OneThread
    NoNode = NoNode
    MaxSends = 2
INVARIANTS
    StreamIsOwn
    NoDanglingHandle
CHECK_DEADLOCK FALSE
