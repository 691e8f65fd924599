CONSTANTS
    a = a
    b = b
    k1 = k1
    k2 = k2
    x1 = x1
    x2 = x2
    MaxVersion = 2
    Hashes <- Contents
    EmptyHash <- EmptyTree
    Updaters <- Updater
    NoUpdater = NoUpdater
    MinVersions <- MCMinVersions
    MaxAges <- MCMaxAges
    MaxClock = 0
    Clients <- OneClient
    NoClient = NoClient
    Keys <- OneKey
    Values <- OneValue
    NoValue = NoValue
    NoKey = NoKey
    SharePending = FALSE
    CommitUntouched = TRUE
SPECIFICATION TreeSpec
INVARIANTS
    ReadsMatchRootHash
