SPECIFICATION LedgerSpec
CONSTANTS
    Requests = {r1, r2}
    Ids = {k1, k2}
    Users = {u1}
    Workspace = Workspace
    Nobody = Nobody
    Limit = 3
    Estimate = 2
    Costs = {1, 2}
    MaxAudits = 2
    MaxTurns = 2
INVARIANTS Billed NoFalseRefusal
PROPERTIES AuditRepairs
SYMMETRY Symmetry
\* When every request is over nothing moves.
CHECK_DEADLOCK FALSE
