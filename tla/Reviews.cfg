SPECIFICATION Spec
CONSTANTS
    Summaries <- MixedSummaries
    NumCommits = 2
    MaxRuns = 3
    MaxOthers = 1
    PageSize = 3
INVARIANTS
    BitBucketRepaired
    CommentsRepaired
    NothingSaidTwice
    VerdictsAgree
