---------------------------- MODULE MCHashEngine ----------------------------
(* The hash engine with three buckets: three keys collide, a fourth does   *)
(* not.                                                                    *)
EXTENDS HashEngine, TLC

CONSTANTS k1, k2, k3, k4

MCCharSum == (k1 :> 3) @@ (k2 :> 6) @@ (k3 :> 0) @@ (k4 :> 4)

Symmetry == Permutations(Value) \cup Permutations({k1, k2, k3})
=============================================================================
