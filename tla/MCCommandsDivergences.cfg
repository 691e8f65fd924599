CONSTANTS
    n = n
    h = h
    x = x
    y = y
    other = other
    cli = cli
    NoValue = NoValue
    Users <- OneUser
    Keys <- OneName
    Values <- TwoValues
    KeyLists <- OneKeyList
    LongNames <- NoLongNames
    HexOf <- NoHex
    TextOf <- YIsBinary
    BatchFiles <- NoFiles
    Imports <- NoFiles
    Scripts <- NoFiles
    MaxVersion = 2
    MaxOps = 2
SPECIFICATION CommandsSpec
PROPERTIES
    ImportRestoresEveryValue
    PromptKeepsVersion
