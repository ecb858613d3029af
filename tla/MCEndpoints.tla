---------------------------- MODULE MCEndpoints ----------------------------
(* Model-checking instances of three HTTP servers that share nothing with each other: the anchor
   node, the ACME server with its clients, and the standalone CA server. *)
EXTENDS AnchorNode, Acme, NipCaServer

CONSTANTS a1, x1, x2, s1, k1, k2, y1, y2, y3, m1, h1, p1, p2

Rule(incident, exact, severity, count, within) ==
  [incident |-> incident, exact |-> exact, severity |-> severity, count |-> count, within_days |-> within]

\* Any critical incident bans, fraud of moderate severity rejects, two recent incidents throttle.
MCPolicy(enabled, unavailable, cache_ttl, min_assurance) ==
  [enabled |-> enabled,
   ban_on |-> {Rule("*", FALSE, Critical, 1, None)},
   reject_on |-> {Rule("fraud", TRUE, 2, 1, None)},
   throttle_on |-> {Rule("*", FALSE, 1, 2, 1)},
   min_assurance |-> min_assurance, ban_ttl |-> 2, cache_ttl |-> cache_ttl, on_log_unavailable |-> unavailable]

MCPolicies == {MCPolicy(TRUE, "allow", 1, 0), MCPolicy(TRUE, "deny", 1, 1), MCPolicy(FALSE, "allow", 0, 0)}

\* A synchronous read, and a topology write that may also run in the background.
MCActions ==
  [kind \in {"read", "write"} |-> [write |-> kind = "write", async |-> kind = "write",
                                   cgn |-> IF kind = "read" THEN 2 ELSE 0]]

\* /invoke and /subscribe meet in the epoch guard alone, which calls of /query move as well: two
\* requests come to a node with a reputation policy, one and a subscriber to a node without.
MCClients(policy_) == IF policy_.enabled THEN {x1, x2} ELSE {x1, s1}

(* A behaviour is one of a single server; the others keep an initial state. *)
VARIABLE part

all == <<part, vars, acmeVars, serverVars>>

CallSymmetry == Permutations({y1, y2})

MCInit ==
  /\ part \in {"anchor", "acme", "server"}
  /\ Init /\ AcmeInit /\ ServerInit
  /\ part # "anchor" => ~policy.enabled
  /\ part # "server" => table = <<>>
MCNext ==
  \/ part = "anchor" /\ Next /\ UNCHANGED <<part, acmeVars, serverVars>>
  \/ part = "acme" /\ AcmeNext /\ UNCHANGED <<part, vars, serverVars>>
  \/ part = "server" /\ ServerNext /\ UNCHANGED <<part, vars, acmeVars>>
MCSpec == MCInit /\ [][MCNext]_all
=============================================================================
