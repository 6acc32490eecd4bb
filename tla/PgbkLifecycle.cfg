SPECIFICATION Spec
CONSTANTS
    Callers = {c1, c2}
    Closers = {p1, p2}
    AuthModes = {"", "azure", "ldap"}
    Settings <- SomeSettings
    DefaultChangeFeedInterval = 1
    DefaultChangeFeedBatchSize = 2
    DefaultExpiryInterval = 3
    DefaultExpiryBatchSize = 4
    None = None
INVARIANT TypeOK
INVARIANT RunsWithUsableConfig
INVARIANT FailedStartLeavesNoPool
INVARIANT LoopsStopBeforeTeardown
PROPERTY CloseReturns
CHECK_DEADLOCK FALSE
