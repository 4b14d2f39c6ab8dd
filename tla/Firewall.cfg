SPECIFICATION FairSpec
CONSTANTS
    a4 = a4
    a6 = a6
    public = public
    Addrs <- MCAddrs
    Families <- MCFamilies
    FamilyOf <- MCFamilyOf
    InRange <- MCInRange
    NoFamily = NoFamily
    Chained = "4"
    Foreign <- MCForeign
    MaxMissed = 1
    MaxMisread = 1
INVARIANTS
    FirewallTypeOK
    CountedOnce
    DropsBeforeCounting
PROPERTIES
    OthersLeftAlone
    ImplementsBlockList
    InstalledWhenDone
    EventuallyDropped
