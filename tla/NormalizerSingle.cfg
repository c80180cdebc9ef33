SPECIFICATION FairSpec
CONSTANTS
    w1 = w1
    w2 = w2
    p1 = p1
    p2 = p2
    NoWorker = NoWorker
    Workers = {w1}
    Partitions = {p1, p2}
    Payloads <- Mixed
    MaxRows = 2
    FailingStores <- TopicOnly
    MaxLog = 1
    FaultKinds <- AllFaults
    MaxFaults = 2
INVARIANT PoisonIsKept
PROPERTY CommitEndsReplay EventuallyCommitted
CHECK_DEADLOCK FALSE
