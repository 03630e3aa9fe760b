SPECIFICATION Spec
CONSTANTS
    Requests = {r1, r2}
    NProviders = 1
    Kinds = {"stream","peek","reset"}
    FailureThreshold = 2
    RecoveryThreshold = 2
    MaxRetries = 1
    MaxFaults = 1
    Nobody = Nobody
    Orphan = Orphan
INVARIANTS TypeOK CanaryIsAlone NoLeak FailuresTrip
SYMMETRY Symmetry
