SPECIFICATION Spec
CONSTANTS
    Texts <- MCTexts
    Levels = {0, 1}
    Devices <- MCDevices
CHECK_DEADLOCK FALSE
INVARIANTS
    SameStores
    NamesBound
    SpmdNesting
    NothingDangling
    NoDeadCode
    ChecksSuffice
    StructuredControlFlow
    Dominance
    IdsResolve
    InterfacesExact
    CapabilitiesDeclared
