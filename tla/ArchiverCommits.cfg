SPECIFICATION FairSpec
CONSTANTS
    Tenants <- AB
    Partitions = {0}
    Payloads <- MixedPayloads
    MaxMessages = 2
    MaxLog = 3
    MaxHour = 1
    MaxFaults = 2
INVARIANT ArchiveInv
PROPERTY OverwritesAreIdentical EventuallyArchived
CHECK_DEADLOCK FALSE
