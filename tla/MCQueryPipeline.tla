-------------------------- MODULE MCQueryPipeline --------------------------
(* A small instance of QueryPipeline.                                      *)
EXTENDS QueryPipeline, TLC

CONSTANTS c1, c2, c3, k1, k2, w1, w2, w3

ThreeCallers == {c1, c2, c3}
TwoKeys == {k1, k2}

(* Two workers that can race on the first server, one on the second.       *)
ThreeWorkers == {w1, w2, w3}
TwoAndOne == w1 :> 1 @@ w2 :> 1 @@ w3 :> 2
============================================================================
