SPECIFICATION Spec
CONSTANTS
    Dynamic = Dynamic
    Params <- MCParams
    Allocas <- MCAllocas
    DefaultAlignment = 8
    Arguments = {1}
    Constants <- MCConstants
    Slices <- MCSlices
    ExpandShapes <- MCExpandShapes
    Strides = {1, 2, 4}
    GroupOffsets = {0}
    MaxSteps = 3
CHECK_DEADLOCK FALSE
INVARIANTS
    ElementsExact
    TypesTellTheTruth
    DivisorsHold
    BlockAccessesAligned
