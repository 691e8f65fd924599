CONSTANTS
    n = n
    h = h
    x = x
    y = y
    other = other
    cli = cli
    NoValue = NoValue
    Users <- TwoUsers
    Keys <- TwoNames
    Values <- TwoValues
    KeyLists <- MCKeyLists
    LongNames <- OnlyH
    HexOf <- HOfN
    TextOf <- YIsBinary
    BatchFiles <- MCBatchFiles
    Imports <- MCImports
    Scripts <- MCScripts
    MaxVersion = 2
    MaxOps = 2
SPECIFICATION CommandsSpec
PROPERTIES
    AcceptedIsExecuted
