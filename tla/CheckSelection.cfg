SPECIFICATION Spec
CONSTANTS
    LineKinds <- SomeLines
    MaxLines = 4
    Now = 7
    Mappings <- FewKeys
    Configs <- SomeConfigs
INVARIANTS
    IgnoredAsAsked
    KeysDecide
    DisabledStaysOff
    OthersRun
CHECK_DEADLOCK FALSE
