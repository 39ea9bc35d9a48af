SPECIFICATION FairSpec
CONSTANTS
    p1 = p1
    p2 = p2
    p3 = p3
    p4 = p4
    p5 = p5
    p6 = p6
    p7 = p7
    w1 = w1
    w2 = w2
    w3 = w3
    Entries <- MixedEntries
    Checks <- TwoChecks
    OnlineChecks <- SeriesOnly
    Problems <- AllProblems
    Finds <- MixedFinds
    Broken <- MixedBroken
    CutShort <- MixedCutShort
    Workers <- ThreeWorkers
    ChanCap = 1
INVARIANTS
    ScanComplete
    SummaryHonest
PROPERTIES
    ScanReturns
