---------------------------- MODULE MCRangeQuery ----------------------------
(* A small instance of RangeQuery.                                         *)
EXTENDS RangeQuery, TLC

CONSTANTS c1, k1, i1, i2, i3, w1, w2

OneCaller == {c1}
OneKey == {k1}
ThreeSlices == {i1, i2, i3}

(* One worker for each of two servers.                                     *)
TwoWorkers == {w1, w2}
OneEach == w1 :> 1 @@ w2 :> 2
============================================================================
