SPECIFICATION Spec
CONSTANTS
    u1 = u1
    n1 = n1
    n2 = n2
    a1 = a1
    a2 = a2
    Users <- MCUsers
    Nodes <- MCNodes
    Addrs <- MCAddrs
    Directions <- MCUpload
    OwnerOf <- MCOwnerOf
    NoUser = NoUser
    NoNode = NoNode
    NoRow = NoRow
    MaxSent = 2
    MaxReboots = 0
    MaxMoves = 1
INVARIANTS
    UsageExact
    ReferencesKept
    DeviceUsageReachable
    NoUsageLeftUnknown
    LedgersAgree
PROPERTIES
    ImplementsMeter
