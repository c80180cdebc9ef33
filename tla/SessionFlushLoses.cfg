SPECIFICATION Spec
CONSTANTS
    Flushes = {TRUE}
    MaxPending = 2
    Ttl = 2
    RefreshAfter = {1}
    MinRetry = 1
    MaxRetry = 3
    BatchSizes = {1, 2}
    MaxSpans = 4
    MaxTime = 4
    MaxTokens = 3
    MaxFaults = 2
INVARIANT EveryLossCounted
CHECK_DEADLOCK FALSE
