SPECIFICATION CasSpec
CONSTANTS
    Keys = {1}
    Values = {v1, v2}
    Expiries = {0, 2}
    Limits = {0}
    Clients = {c1, c2}
    Inputs <- PointInputs
    DefaultRangeLimit = 3
    ExpiryBatchSize = 1
    None = None
    NULL = NULL
    MaxTime = 3
    MaxRevision = 3
    MaxAttempts = 2
PROPERTY OneSwapPerExpected
