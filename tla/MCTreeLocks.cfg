CONSTANTS
    a = a
    b = b
    Clients <- TwoClients
    Nobody = Nobody
    Methods <- OrderedMethods
SPECIFICATION LocksSpec
INVARIANTS
    LockOrder
PROPERTIES
    MethodsReturn
