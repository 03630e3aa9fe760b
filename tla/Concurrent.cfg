SPECIFICATION Spec

CONSTANTS
    MaxVersion = 2
    MaxRetries = 0
    Ops = {"version","rollback","retry"}
    MaxOps = 1
    Faults = {"lose","backlog","broker"}
    MaxFaults = 1
    Losable = {"chunk","indexed"}
    Overlap = TRUE

INVARIANTS
    TypeOK
    SingleActiveVersion
PROPERTIES
    ServesVersions
    VersionsNeverRegress

\* With nothing left to do, no retry and no call, the pipeline rests.
CHECK_DEADLOCK FALSE
