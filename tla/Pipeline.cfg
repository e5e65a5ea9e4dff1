SPECIFICATION FairASpec
CONSTANTS
    BulkSize = 2
    Wrap = 16
    Unmatched = TRUE
    MaxLines = 6
    Processor = processor
    Printer = printer
    Savers = {s1, s2}
    NoTask = NoTask
    Chunks <- SafeChunks
    MaxChunks = 2
INVARIANTS
    DisconnectFlushes
    SavedOnce
PROPERTIES
    ImplementsPrinter
    ParsedAndSaved
CHECK_DEADLOCK FALSE
