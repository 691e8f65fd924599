CONSTANTS
    a = a
    b = b
    Clients <- TwoClients
    MaxIterators = 1
    MaxSnapshots = 1
SPECIFICATION StorageSpec
CHECK_DEADLOCK FALSE
INVARIANTS
    ActiveResourcesKeepData
