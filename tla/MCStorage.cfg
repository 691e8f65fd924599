CONSTANTS
    a = a
    b = b
    Clients <- TwoClients
    MaxIterators = 1
    MaxSnapshots = 1
SPECIFICATION StorageFairSpec
CHECK_DEADLOCK FALSE
INVARIANTS
    ResourcesAccounted
    LimitsHold
    CountedResourcesKeepData
    MetricsReadOpenDatabase
    MemoryBatchesNeverPanic
PROPERTIES
    CloseReturns
