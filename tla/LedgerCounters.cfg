SPECIFICATION FairSpec
CONSTANTS
    u1 = u1
    n1 = n1
    n2 = n2
    a1 = a1
    a2 = a2
    Users <- MCUsers
    Nodes <- MCNodes
    Addrs <- OneAddr
    Directions <- MCUpload
    OwnerOf <- MCOwnerOf
    NoUser = NoUser
    NoNode = NoNode
    NoRow = NoRow
    MaxSent = 3
    MaxReboots = 1
    MaxMoves = 1
PROPERTIES
    EverythingBooked
    EventuallyIdentified
INVARIANTS
    TypeOK
    NeverOvercount
