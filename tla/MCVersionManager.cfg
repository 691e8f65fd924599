CONSTANTS
    h0 = h0
    h1 = h1
    u1 = u1
    noUpdater = noUpdater
    MaxVersion = 3
    Hashes <- MCHashes
    EmptyHash = h0
    Updaters <- MCUpdaters
    NoUpdater = noUpdater
    MinVersions <- MCMinVersions
    MaxAges <- MCMaxAges
    MaxClock = 2
SPECIFICATION VMSpec
CHECK_DEADLOCK FALSE
INVARIANTS
    VMTypeOK
    CommittedVersionIsNewest
    LineageIsCommitted
    GCKeepsNewest
PROPERTIES
    VersionsAreImmutable
