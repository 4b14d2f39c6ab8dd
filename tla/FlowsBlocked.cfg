SPECIFICATION Spec
CONSTANTS
    f1 = f1
    a1 = a1
    w1 = w1
    Directions <- MCUpload
    Flows <- MCFlows
    Devices <- MCDevices
    DeviceOf <- MCDeviceOf
    Names <- MCNames
    IP = IP
    NoConn = NoConn
    NoRow = NoRow
    DayLength = 1
    RecentBuckets = 3
    RetentionDays = 1
    MaxTime = 0
    MaxBytes = 1
    MaxConns = 1
INVARIANTS
    BlockedBytesNotBooked
