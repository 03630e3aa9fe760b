SPECIFICATION Spec

CONSTANTS
    MaxVersion = 2
    MaxRetries = 1
    Ops = {"version", "retry", "reingest", "archive", "restore"}
    MaxOps = 2
    Faults = {"retry", "fail", "broker", "redeliver", "qdrant", "lose"}
    MaxFaults = 1
    Losable = {"ingest", "chunk", "embed", "processed", "chunked", "embedded", "indexed",
               "cleanup", "upload"}
    Overlap = FALSE

INVARIANT
    PointsAreTracked
PROPERTIES
    ArchivedStaysHidden
    FailureIsLocal

\* With nothing left to do, no retry and no call, the pipeline rests.
CHECK_DEADLOCK FALSE
