SPECIFICATION Spec
CONSTANTS
    Keys = {k1, k2}
    Watchers = {w1, w2}
    Capacity = 2
    ChangeFeedBatchSize = 2
    MaxChanges = 4
    None = None
INVARIANT TypeOK
INVARIANT DeliveredInCommitOrder
