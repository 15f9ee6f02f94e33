SPECIFICATION Spec
CONSTANTS
    Launches <- Looping
    Garbage <- MCGarbage
CHECK_DEADLOCK FALSE
INVARIANTS
    CumulativeSum
