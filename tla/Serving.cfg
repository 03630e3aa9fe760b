SPECIFICATION FairSpec

CONSTANTS
    MaxVersion = 1
    MaxRetries = 4
    Ops = {}
    MaxOps = 0
    Faults = {"lose"}
    MaxFaults = 1
    Losable = {"chunk","sync"}
    Overlap = FALSE

PROPERTY
    NewestServed

\* With nothing left to do, no retry and no call, the pipeline rests.
CHECK_DEADLOCK FALSE
