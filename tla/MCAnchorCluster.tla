-------------------------- MODULE MCAnchorCluster --------------------------
(* Model-checking instances of AnchorCluster. *)
EXTENDS AnchorCluster, TLC

CONSTANTS a1, a2, t1

NodeSymmetry == Permutations({a1, a2})
=============================================================================
