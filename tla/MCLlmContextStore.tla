-------------------------- MODULE MCLlmContextStore --------------------------
(* Model-checking instances of LlmContextStore. *)
EXTENDS LlmContextStore, TLC

CONSTANTS o1, o2, k1, k2, c1, c2, r1, r2, r3, b1, b2

AllOps == {"create", "append", "fork", "reset", "release"}

\* Client keys, context ids and reservation ids are interchangeable.
Symmetry ==
  Permutations(Keys) \union Permutations(ContextIds)
    \union Permutations(ReservationIds) \union Permutations(Owners)
=============================================================================
