SPECIFICATION Spec
CONSTANTS
    Flushes = {TRUE, FALSE}
    MaxPending = 2
    Ttl = 3
    RefreshAfter = {1, 2}
    MinRetry = 1
    MaxRetry = 3
    BatchSizes = {1, 2}
    MaxSpans = 4
    MaxTime = 4
    MaxTokens = 3
    MaxFaults = 2
INVARIANT SpansAccounted RefusedNotRetried
PROPERTY DropsWhatFailed HoldsOnlyWithoutToken
CHECK_DEADLOCK FALSE
