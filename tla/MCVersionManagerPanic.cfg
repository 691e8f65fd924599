CONSTANTS
    h0 = h0
    h1 = h1
    u1 = u1
    noUpdater = noUpdater
    MaxVersion = 3
    Hashes <- MCHashes
    EmptyHash = h0
    Updaters <- MCUpdaters
    NoUpdater = noUpdater
    MinVersions <- MCMinVersions
    MaxAges <- MCMaxAges
    MaxClock = 2
CHECK_DEADLOCK FALSE
SPECIFICATION VMSpec
INVARIANTS
    NeverPanics
