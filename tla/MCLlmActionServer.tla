------------------------- MODULE MCLlmActionServer -------------------------
(* Model-checking instances of LlmActionServer. *)
EXTENDS LlmActionServer, TLC

CONSTANTS o, k1, k2, c1, c2, c3, x1, x2, x3, b

AllOps == {"create", "append", "fork", "reset", "release"}

Ask(op, key, context, version) ==
  [op |-> op, owner |-> o, key |-> key, binding |-> b, context |-> context,
   base_version |-> version, ttl |-> 0]

MCRelease == [op |-> "release", owner |-> o, key |-> k2, context |-> c1, base_version |-> 1]

MCWorkload ==
  {Ask("create", k1, None, 0), Ask("append", k1, c1, 1), Ask("append", k2, c1, 1), MCRelease}

AllKinds == {"unary", "async", "stream"}

CallSymmetry == Permutations(Calls)
=============================================================================
