------------------------------ MODULE MCWatch ------------------------------
(* Small instances of Watch.                                               *)
EXTENDS Watch, TLC

CONSTANTS s1, s2

TwoScrapers == {s1, s2}
============================================================================
