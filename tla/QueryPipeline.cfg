SPECIFICATION FairSpec
CONSTANTS
    c1 = c1
    c2 = c2
    c3 = c3
    k1 = k1
    k2 = k2
    w1 = w1
    w2 = w2
    w3 = w3
    Callers <- ThreeCallers
    Keys <- TwoKeys
    NumServers = 2
    Workers <- ThreeWorkers
    Home <- TwoAndOne
    QueueCap = 1
    MaxCalls = 1
INVARIANTS
    SingleFlight
    ResultsHonest
    NoLostWakeup
    RunOnlyOnMiss
PROPERTIES
    ImplementsContract
    ShutsDown
