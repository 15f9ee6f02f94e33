SPECIFICATION Spec
CONSTANTS
    Programs <- WritesInNestedLoop
    Value <- MCValue
    SpaceOf <- MCSpaceOf
    Root <- MCRoot
    Stack <- MCStack
CHECK_DEADLOCK FALSE
PROPERTIES
    InsertsAutomatically
