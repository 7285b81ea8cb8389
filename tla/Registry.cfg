SPECIFICATION RegistryFairSpec
CONSTANTS
    a1 = a1
    a2 = a2
    b1 = b1
    b2 = b2
    x1 = x1
    CP_A = CP_A
    CP_B = CP_B
    CP_X = CP_X
    Sockets <- MCSockets
    Ids <- MCIds
    IdOf <- MCIdOf
    KnownIds <- MCKnownIds
    OverlappingIds = {CP_A}
    ErrorIds = {CP_B}
    NoSocket = NoSocket
INVARIANTS
    ServedIsRegistered
PROPERTIES
    RefusedOnlyWhileServed
    LostIsRemoved
CHECK_DEADLOCK FALSE
