CONSTANTS
    a = a
    b = b
    Clients <- TwoClients
    Nobody = Nobody
    Methods <- ReadAndCollect
SPECIFICATION LocksSpec
INVARIANTS
    NoCircularWait
