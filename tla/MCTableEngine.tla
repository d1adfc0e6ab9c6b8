---------------------------- MODULE MCTableEngine ----------------------------
(***************************************************************************)
(* Instances of TableEngine for TLC.                                       *)
(***************************************************************************)
EXTENDS TableEngine, TLC

CONSTANTS t1, t2, k1, k2
Symmetric == Permutations({k1, k2}) \cup Permutations({t1, t2})
=============================================================================
