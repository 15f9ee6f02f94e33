SPECIFICATION Spec
CONSTANTS
    Use = {u1, u2, u3, u4}
    Value = {v1, v2}
    Null = Null
INVARIANTS
    WellLinked
    HasUsesExact
PROPERTIES
    ReplacementEnds
    ImplementsUses
