SPECIFICATION Spec
CONSTANTS
    Launches <- Separated
    Result <- MCResult
    Garbage <- MCGarbage
CHECK_DEADLOCK FALSE
INVARIANTS
    SumsInOrder
    NoDataRace
PROPERTIES
    Terminates
