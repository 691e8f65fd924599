CONSTANTS
    x1 = x1
    x2 = x2
    Radix = 2
    MaxTreeDepth = 3
    Keys <- AdjacentKeys
    Values <- OneValue
    NoValue = NoValue
    MaxVersion = 2
    MaxOps = 2
    CommitUntouched = FALSE
    ReadFaults = FALSE
SPECIFICATION Spec
INVARIANTS
    CommitAccepts
CHECK_DEADLOCK FALSE
