SPECIFICATION FairSpec
CONSTANTS
    u1 = u1
    d1 = d1
    a4 = a4
    a6 = a6
    Users <- MCUsers
    Devices <- MCDevices
    Addrs <- MCAddrs
    Families <- MCFamilies
    FamilyOf <- MCFamilyOf
    HolderOf <- MCHolderOf
    NoRow = NoRow
    NoRule = NoRule
    Managed <- UserRules
    Limits = {1}
    Durations = {}
    MonthLength = 1
    MaxTime = 1
    MaxUsage = 1
INVARIANTS
    TypeOK
PROPERTIES
    BookedUnderVerdict
    LimitEnforced
    EventuallyReleased
