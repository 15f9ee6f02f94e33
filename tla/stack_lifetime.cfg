SPECIFICATION Spec
CONSTANTS
    Programs <- MCProgramsWithStop
    Buffer <- MCBuffer
    Size <- MCSize
    Alignment <- MCAlignment
CHECK_DEADLOCK FALSE
INVARIANTS
    LiveDisjoint
    Aligned
    Intact
    StopsMatch
    FreedAtEndOfBlock
    ListExact
PROPERTIES
    LowestPlace
