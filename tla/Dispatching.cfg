SPECIFICATION FairSpec

CONSTANTS
    Jobs = {j1, j2}
    MaxRetries = 1
    MaxResets = 1
    Faults = {"refuse", "crash", "fail"}
    MaxFaults = 2

INVARIANTS
    TypeOK
    PendingIsNeverLost
PROPERTY
    EventuallyProcessed

\* When every job has ended and every fault is spent nothing moves.
CHECK_DEADLOCK FALSE
