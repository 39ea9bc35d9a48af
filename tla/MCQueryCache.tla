---------------------------- MODULE MCQueryCache ----------------------------
(* Small instances of QueryCache.  One tick stands for two minutes and the *)
(* intervals keep their order: the time to live of an instant query is     *)
(* shorter than maxStale, that of a range slice longer.                    *)
EXTENDS QueryCache, TLC

CONSTANTS w1, w2

TwoWorkers == {w1, w2}
TwoKeys == {"instant", "slice"}
KeyTtl == [instant |-> 2, slice |-> 6]
=============================================================================
