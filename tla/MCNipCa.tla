------------------------------ MODULE MCNipCa ------------------------------
(* Model-checking instances of NipCa. *)
EXTENDS NipCa, TLC

CONSTANTS agt, grp, s1, s2, k1, k2, tok, x1, x2, x3, x4

CallSymmetry == Permutations({x1, x2, x3, x4}) \union Permutations({k1, k2})
=============================================================================
