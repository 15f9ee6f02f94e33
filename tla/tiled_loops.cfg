SPECIFICATION LoopSpec
CONSTANTS
    Nests <- AllNests
CHECK_DEADLOCK FALSE
INVARIANTS
    FitsDevice
PROPERTIES
    RunsEachOnce
    RunsAll
