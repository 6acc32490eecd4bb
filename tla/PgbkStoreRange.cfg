SPECIFICATION Spec
CONSTANTS
    Keys = {1, 2}
    Values = {v1}
    Expiries = {0, 2}
    Limits = {0, 2}
    Clients = {c1, c2}
    Inputs <- RangeInputs
    DefaultRangeLimit = 1
    ExpiryBatchSize = 1
    None = None
    NULL = NULL
    MaxTime = 2
    MaxRevision = 2
    MaxAttempts = 2
PROPERTY ImplementsBackend
SYMMETRY ClientSymmetry
