SPECIFICATION Spec

CONSTANTS
    Calls = {c1, c2}
    MaxCalls = 4
    MaxRows = 3
    MaxTokens = 2
    MaxCodes = 1
    MaxAttempts = 1

SYMMETRY Symmetry

INVARIANTS
    TypeOK
    StaysOut
    SingleUse
    GuessesBounded
PROPERTIES
    NoLateHeir
    TotalUnderLock

\* With the bounds spent no call need begin.
CHECK_DEADLOCK FALSE
