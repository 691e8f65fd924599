CONSTANTS
    NibbleBase = 3
    KeySize = 2
    HashSize = 2
    VersionSize = 2
    CountSize = 1
    LengthSize = 2
    Tags <- MCTags
    Entries <- MCEntries
    MaxEntries = 3
    Options <- MCOptions
    Targets <- MCTargets
    MaxKeep = 3
    Timestamp <- MCTimestamp
SPECIFICATION Spec
INVARIANTS
    EnginesAlwaysAgree
    StalePolicyKeepsNewer
    KeepsAtMostN
PROPERTY
    NextLeavesFront
