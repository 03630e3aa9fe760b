SPECIFICATION FairSpec
CONSTANTS
    Requests = {r1}
    NProviders = 2
    Kinds = {"stream","search"}
    FailureThreshold = 2
    RecoveryThreshold = 1
    MaxRetries = 1
    MaxFaults = 0
    Nobody = Nobody
    Orphan = Orphan
PROPERTIES NoStitching Recovers
