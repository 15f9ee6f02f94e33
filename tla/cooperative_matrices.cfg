SPECIFICATION Spec
CONSTANTS
    Undef = Undef
    Programs <- MCPrograms
    ExecSize = 4
    SDepth = 2
    RCount = 2
    ChannelSize = 4
    MaxCols = 8
    StoreCols = 2
    RowBytes = 16
    NarrowIo = 4
    WideIo = 2
    LoadBytes = 4
    BlockBytes = 8
    MaxVectorStore = 4
    RequiredSgs = 4
    MatTypes <- MCMatTypes
CHECK_DEADLOCK FALSE
INVARIANTS
    ExecutesText
