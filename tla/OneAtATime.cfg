SPECIFICATION FairSpec

CONSTANTS
    MaxVersion = 2
    MaxRetries = 1
    Ops = {"version", "retry"}
    MaxOps = 2
    Faults = {"retry", "fail", "broker", "qdrant", "lose"}
    MaxFaults = 1
    Losable = {"chunk", "embed", "sync", "embedded", "indexed", "cleanup", "upload"}
    Overlap = FALSE

INVARIANT
    ReadyIsServable
PROPERTY
    Settles

\* With nothing left to do, no retry and no call, the pipeline rests.
CHECK_DEADLOCK FALSE
