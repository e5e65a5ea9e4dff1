SPECIFICATION VersionsSpec
CONSTANTS
    BulkSize = 2
    Wrap = 16
    Unmatched = TRUE
    MaxLines = 7
INVARIANTS
    TypeOK
    InOrderOnce
    StopDropsOnlyOpenBlock
    BlocksAsDefined
    NestedSaveIsBlock
    CrashNeedsUnmatched
CHECK_DEADLOCK FALSE
