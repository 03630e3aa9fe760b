SPECIFICATION Spec
CONSTANTS
    Requests = {r1, r2}
    Ids = {k1, k2}
    Users = {u1}
    Workspace = Workspace
    Nobody = Nobody
    Limit = 3
    Estimate = 2
    Costs = {2}
    MaxAudits = 0
    MaxTurns = 0
    Chunks = 3
INVARIANTS TypeOK ReplayIsOneAnswer ChargedOnce DeliveredIsCharged
SYMMETRY Symmetry
\* When every request is over nothing moves.
CHECK_DEADLOCK FALSE
