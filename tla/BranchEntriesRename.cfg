SPECIFICATION Spec
CONSTANTS
    a = a  b = b  x = x
    n1 = n1  n2 = n2
    e1 = e1  e2 = e2
    Paths <- ThreePaths
    Allowed <- Included
    Names <- TwoNames
    Exprs <- TwoExprs
    Bases <- ThreeBases
    MaxLog = 3
    MaxLines = 2
    MaxCommits = 3
INVARIANT NewRulesChecked
CHECK_DEADLOCK FALSE
