SPECIFICATION FairSpec

CONSTANTS
    Attempts = {a1, a2, a3, a4}
    Nobody = nobody

INVARIANTS
    HolderOwnsKey
    MutualExclusion
PROPERTY
    OrphansVanish

\* Every attempt is made once; when all are over nothing moves.
CHECK_DEADLOCK FALSE
