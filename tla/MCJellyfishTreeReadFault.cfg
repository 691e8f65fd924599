CONSTANTS
    x1 = x1
    x2 = x2
    Radix = 2
    MaxTreeDepth = 3
    Keys <- SpreadKeys
    Values <- OneValue
    NoValue = NoValue
    MaxVersion = 2
    MaxOps = 1
    CommitUntouched = FALSE
    ReadFaults = TRUE
SPECIFICATION Spec
INVARIANTS
    ReadsMatchUpdates
CHECK_DEADLOCK FALSE
