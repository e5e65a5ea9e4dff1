SPECIFICATION DataSpec
CONSTANTS
    Inputs <- MCInputs
    Mappers = 3
    Reducers = 2
    Wrap = 64
    Threads = {w1, w2}
    Blocks = {b1, b2, b3}
    NoBlock = NoBlock
    Second = 2
    MaxTime = 9
    RowNums = {1, 2}
    ColNums = {1, 2, 3}
    Items = {0, 7, 8}
    def_val = 0
    Handles = {h1, h2}
    _block_size = 7
    Elems = {1}
    MaxSize = 4
    m_block_size = 2
    Searches <- MCSearches
    Tails <- MCTails
    Byte = 4
    LongLong = 3
    MaxInt = 2
    Bad = Bad
INVARIANTS
    MappedOnce
    AnswerIsMinimal
    SavedBlocksStay
    CellsAgree
    ContentsKept
    DuplicatesFound
    AgreesWithReference
CHECK_DEADLOCK FALSE
