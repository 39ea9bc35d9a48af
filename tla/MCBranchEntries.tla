------------------------- MODULE MCBranchEntries --------------------------
(* Two included paths and one that is not; the base holds two rules in a   *)
(* file, or nothing but an excluded file.                                  *)
EXTENDS BranchEntries

CONSTANTS a, b, x, n1, n2, e1, e2

ThreePaths == {a, b, x}
Included == {a, b}
TwoNames == {n1, n2}
TwoExprs == {e1, e2}

Was(n, p) == Line(n, e1, 0, p)
Base(p, lines) == [q \in ThreePaths |-> IF q = p THEN File(lines) ELSE Missing]
ThreeBases == {Base(a, <<Was(n1, a), Was(n2, a)>>),
             Base(a, <<Was(n1, a), Line(n1, e2, 0, a)>>),
             Base(x, <<Was(n1, x)>>)}
============================================================================
