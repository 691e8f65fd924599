CONSTANTS
    x1 = x1
    x2 = x2
    Radix = 2
    MaxTreeDepth = 3
    Keys <- SpreadKeys
    Values <- OneValue
    NoValue = NoValue
    MaxVersion = 1
    MaxOps = 1
    CommitUntouched = FALSE
    ReadFaults = FALSE
SPECIFICATION Spec
INVARIANTS
    LeavesAreCompressed
CHECK_DEADLOCK FALSE
