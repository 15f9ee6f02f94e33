SPECIFICATION Spec
CONSTANTS
    Programs <- BarrierPrograms
    Value <- MCValue
    SpaceOf <- MCSpaceOf
    Root <- MCRoot
    Stack <- MCStack
CHECK_DEADLOCK FALSE
INVARIANTS
    RaceFreeInOneSpace
    FencesJustified
    OutSettled
