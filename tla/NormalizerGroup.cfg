SPECIFICATION Spec
CONSTANTS
    w1 = w1
    w2 = w2
    p1 = p1
    p2 = p2
    NoWorker = NoWorker
    Workers = {w1, w2}
    Partitions = {p1}
    Payloads <- Spans
    MaxRows = 2
    FailingStores = {}
    MaxLog = 3
    FaultKinds <- AllFaults
    MaxFaults = 1
SYMMETRY WorkerSymmetry
INVARIANT StoreInv
PROPERTY CommitNeverRegresses DeliversAtLeastOnce
CHECK_DEADLOCK FALSE
