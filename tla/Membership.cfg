SPECIFICATION Spec

CONSTANTS
    Users = {u1, u2, u3}
    Calls = {c1, c2}
    MaxCalls = 3
    MaxUses = 1
    Nobody = Nobody

INVARIANTS
    TypeOK
    PurgeCompletes
PROPERTIES
    OwnerRemains
    OwnersAnswerToOwners
    SpentInvitation
SYMMETRY Symmetry

\* The calls run out.
CHECK_DEADLOCK FALSE
