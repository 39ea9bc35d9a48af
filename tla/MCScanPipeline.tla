--------------------------- MODULE MCScanPipeline ---------------------------
(* Small instances of ScanPipeline.                                        *)
EXTENDS ScanPipeline, TLC

CONSTANTS p1, p2, p3, p4, p5, p6, p7, w1, w2, w3

ThreeWorkers == {w1, w2, w3}
TwoChecks == {"series", "syntax"}
SeriesOnly == {"series"}
AllProblems == {p1, p2, p3, p4, p5, p6, p7}

Entry(removed, error, checks) ==
    [removed |-> removed, error |-> error, checks |-> checks]

(* A valid rule, one that was removed, one that does not parse, and a      *)
(* second valid rule in which a check finds what it also found elsewhere.  *)
MixedEntries ==
    << Entry(FALSE, "none", <<"syntax", "series">>),
       Entry(TRUE, "none", <<"syntax">>),
       Entry(FALSE, "rule", <<>>),
       Entry(FALSE, "none", <<"series">>) >>

MixedFinds ==
    << [k \in TwoChecks |-> IF k = "series" THEN <<p1, p2>> ELSE <<p1>>],
       [k \in TwoChecks |-> <<p4>>],
       [k \in TwoChecks |-> <<>>],
       [k \in TwoChecks |-> <<p2>>] >>

(* A cancelled check reports that it could not run (p5), or takes samples  *)
(* that were never fetched for missing ones (p6, p7), or says nothing.     *)
MixedCutShort ==
    << [k \in SeriesOnly |-> {<<>>, <<p5>>, <<p1, p6>>}],
       [k \in SeriesOnly |-> {}],
       [k \in SeriesOnly |-> {}],
       [k \in SeriesOnly |-> {<<p7>>}] >>

MixedBroken == <<p4, p4, p3, p4>>
============================================================================
