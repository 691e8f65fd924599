CONSTANTS
    x1 = x1
    x2 = x2
    Radix = 2
    MaxTreeDepth = 3
    Keys <- SpreadKeys
    Values <- TwoValues
    NoValue = NoValue
    ValueSize <- Sizes
    MaxProofSize = 1230
    MaxVersion = 3
    MaxOps = 2
    CommitUntouched = FALSE
    ReadFaults = FALSE
SPECIFICATION Spec
INVARIANTS
    ReadsMatchUpdates
    RootHashIsCanonical
    CommitAccepts
    GeneratedProofsVerify
    ProveThenVerify
    HealthCheckFindsLoss
CHECK_DEADLOCK FALSE
