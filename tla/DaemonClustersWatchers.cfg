SPECIFICATION Spec
CONSTANTS
    Clusters = {c1, c2}
    Requests = {r1, r2}
    Invalid = Invalid
    None = None
    MaxLogins = 2
    MaxEvents = 1
    StopWatcherFails = FALSE
INVARIANT WatchersFollowSessions
