SPECIFICATION CheckSpec
CONSTANTS
    Rules <- SmallRules
    Others <- SmallOthers
    Uptimes <- SmallUptimes
    Window <- TheWindow
    DefaultMinAge = 4
    IgnoreMetrics = {"bar"}
    None = None
INVARIANTS
    FindingsAreFacts
    DeadSelectorsAreReported
