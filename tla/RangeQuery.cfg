SPECIFICATION FairSpec
CONSTANTS
    c1 = c1
    k1 = k1
    i1 = i1
    i2 = i2
    i3 = i3
    w1 = w1
    w2 = w2
    Callers <- OneCaller
    Keys <- OneKey
    Slices <- ThreeSlices
    NumServers = 2
    Workers <- TwoWorkers
    Home <- OneEach
    QueueCap = 1
    MaxCalls = 1
INVARIANTS
    SuccessIsComplete
    NoSendOnClosedResults
    NoSliceOutlivesCall
PROPERTIES
    ImplementsContract
