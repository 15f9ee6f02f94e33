SPECIFICATION Spec
CONSTANTS
    Launches <- Fitting
    Garbage <- MCGarbage
CHECK_DEADLOCK FALSE
INVARIANTS
    CumulativeSum
    NoDataRace
PROPERTIES
    Terminates
