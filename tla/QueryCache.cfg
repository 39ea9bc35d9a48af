SPECIFICATION CacheSpec
CONSTANTS
    w1 = w1
    w2 = w2
    Workers <- TwoWorkers
    Keys <- TwoKeys
    Ttl <- KeyTtl
    MaxStale = 4
    GcInterval = 2
    QueryTimeout = 1
    MaxTime = 14
INVARIANTS
    BoundedStaleness
    UnusedIsDropped
PROPERTY InUseIsKept
