SPECIFICATION Spec
CONSTANTS
    u1 = u1
    d1 = d1
    a1 = a1
    Users <- OneUser
    Devices <- OneDevice
    Addrs <- OneAddr
    NoRow = NoRow
    NoRule = NoRule
    Managed <- AllRules
    Limits = {1}
    Durations = {1}
    MonthLength = 1
    MaxTime = 1
    MaxUsage = 1
INVARIANTS
    PolicyTypeOK
    ShownIsEnforced
    NoOrphanedState
PROPERTIES
    ReadingIsSound
