CONSTANTS
    x1 = x1
    x2 = x2
    Radix = 2
    MaxTreeDepth = 3
    Keys <- AdjacentKeys
    Values <- TwoValues
    NoValue = NoValue
    MaxVersion = 2
    MaxOps = 4
    CommitUntouched = FALSE
    ReadFaults = FALSE
SPECIFICATION Spec
INVARIANTS
    ReadsMatchUpdates
CHECK_DEADLOCK FALSE
