SPECIFICATION Spec
CONSTANTS
    Limit = 2
    Window = 2
    Second = 2
    MaxTime = 14
    MaxCalls = 6
INVARIANTS
    TypeOK
    AtMostLimit
    RefusedWithCause
