----------------------------- MODULE MCServices -----------------------------
(* Model-checking instances of eight parts that share nothing with each other: the verifier of
   identities, a client of the reputation log, the portable orchestration profile and its leases,
   frames on a stream, the cache of schemas, the inbound bridge and the shutdown of a daemon. *)
EXTENDS NipVerifier, ReputationLog, NopProfile, FrameCodec, AnchorCache, BridgeInbound, GracefulShutdown

(* The verifier: one NID whose certificates are renewed and revoked, a sound frame and frames
   that differ from it in one respect, revocation sources alone, in pairs and together. *)
CONSTANTS n1, n2, ca, other, kca, kroot, kmid, kleaf

Cert(cn, key, by) ==
  [cn |-> cn, san |-> {cn}, key |-> key, by |-> by, eku |-> "critical",
   level |-> None, roles |-> None, caps |-> None]
RootCert == Cert(ca, kroot, kroot)
MidCert == Cert(ca, kmid, kroot)
Leaf == [Cert(n1, kleaf, kmid) EXCEPT !.level = 1, !.roles = {"memory"}, !.caps = {"read"}]

MCRoots == {RootCert}
MCTrusted == [i \in {ca} |-> kca]

Under(p) == [kind |-> "under", path |-> p]
Exact(p) == [kind |-> "exact", path |-> p]
Everywhere == [kind |-> "any"]

Sound ==
  [nid |-> n1, serial |-> 1, expires |-> 2, issuer |-> ca, by |-> kca, format |-> "v2-x509",
   chain |-> <<Leaf, MidCert>>, level |-> 1, caps |-> {"read"}, roles |-> {"memory"},
   staple |-> <<2>>, scope |-> {Under(<<"a">>)}]
Chained(leaf) == [Sound EXCEPT !.chain = <<leaf, MidCert>>]

MCFrames ==
  {Sound} \union
  {[Sound EXCEPT !.serial = 2, !.expires = 3]} \union
  {[Sound EXCEPT !.expires = e] : e \in {Malformed, 1}} \union
  {[Sound EXCEPT !.issuer = other], [Sound EXCEPT !.by = kmid], [Sound EXCEPT !.format = "v1"],
   [Sound EXCEPT !.nid = n2], [Sound EXCEPT !.level = None], [Sound EXCEPT !.level = 2]} \union
  {[Sound EXCEPT !.chain = c] :
     c \in {Malformed, <<>>, <<Leaf>>, <<Leaf, MidCert, RootCert>>, <<MidCert, Leaf>>}} \union
  {Chained([Leaf EXCEPT !.eku = "plain"]), Chained([Leaf EXCEPT !.level = 3]),
   Chained([Leaf EXCEPT !.level = Malformed]), Chained([Leaf EXCEPT !.roles = Malformed]),
   Chained([Leaf EXCEPT !.roles = None]), Chained([Leaf EXCEPT !.caps = {}])} \union
  {[Sound EXCEPT !.staple = s] : s \in {None, Malformed, <<>>, <<1, 2>>, <<Malformed, 2>>}} \union
  {[Sound EXCEPT !.caps = {}],
   [Sound EXCEPT !.scope = None], [Sound EXCEPT !.scope = {Exact(<<"a">>), Under(<<"b">>)}],
   [Sound EXCEPT !.scope = {Everywhere}]}

MCContexts ==
  {[caps |-> {}, path |-> None], [caps |-> {"read"}, path |-> <<"a", "b">>]}

Sources == {"local_crl", "callback", "ca_store", "ocsp"}
Deployed(sources, open, required, trust, phase3) ==
  [sources |-> sources, fail_open |-> open, required |-> required,
   v2_trust |-> trust, phase3 |-> phase3]
\* fail_open matters only with OCSP, required only without a source.
MCOptions ==
  {Deployed(s, FALSE, FALSE, TRUE, TRUE) :
     s \in {{}, {"local_crl", "callback"}, {"ca_store", "ocsp"}, Sources} \union {{x} : x \in Sources}}
  \union {Deployed(s, TRUE, FALSE, TRUE, TRUE) : s \in {{"ocsp"}, {"ca_store", "ocsp"}}}
  \union {Deployed({}, FALSE, TRUE, TRUE, TRUE), Deployed({"ca_store"}, TRUE, FALSE, TRUE, TRUE),
          Deployed({"ca_store"}, FALSE, FALSE, TRUE, FALSE),
          Deployed({"ocsp"}, FALSE, FALSE, FALSE, FALSE)}

TrustGrant ==
  [complete |-> TRUE, issued |-> 0, expires |-> 2, grantor |-> ca, grantee |-> other,
   grants |-> {"read"}, nodes |-> {Under(<<"a">>)}]
MCTrustFrames ==
  {TrustGrant, [TrustGrant EXCEPT !.complete = FALSE], [TrustGrant EXCEPT !.issued = Malformed],
   [TrustGrant EXCEPT !.expires = Malformed], [TrustGrant EXCEPT !.grantor = other],
   [TrustGrant EXCEPT !.grantee = ca], [TrustGrant EXCEPT !.grants = {"read", "write"}],
   [TrustGrant EXCEPT !.grants = {}], [TrustGrant EXCEPT !.nodes = {Everywhere}]}
MCTrustContexts ==
  [grantors: {{}, {ca}}, grantee: {other}, caps: SUBSET {"read", "write"},
   path: {None, <<"a", "b">>, <<"b">>}]

(* The profile: every graph of three nodes, and a chain, a fork and a join with every option. *)
Plain(deps) ==
  [deps |-> deps, condition |-> <<>>, mapping |-> <<>>, retries |-> Unset, retry_on |-> Unset,
   undoes |-> TRUE]
Graph(deps) == [n \in 1 .. 3 |-> Plain(deps[n])]
Job(nodes) ==
  [nodes |-> nodes, duplicate |-> FALSE, preflight |-> FALSE, cancel_before |-> Unset,
   retries |-> 0, policy |-> "best_effort", aggregate |-> "merge"]

Path(p) == [k |-> "path", v |-> p]
Lit(x) == [k |-> "lit", v |-> x]
Shapes == {<<{}, {1}, {2}>>, <<{}, {1}, {1}>>, <<{}, {}, {1, 2}>>}
FirstIsOne == <<Path(<<1, 1>>), [k |-> "=="], Lit(Num(1))>>

MCTasks ==
  {Job(Graph(d)) : d \in [1 .. 3 -> SUBSET (1 .. 3)]} \union
  {[Job(Graph(d)) EXCEPT !.policy = p, !.nodes[2].undoes = u] :
     d \in Shapes, p \in {Unset, "strict"}, u \in BOOLEAN} \union
  {[Job(Graph(d)) EXCEPT !.retries = 1, !.nodes[2].retries = r, !.nodes[3].retry_on = e] :
     d \in Shapes, r \in {Unset, 0}, e \in {Unset, {"timeout", "refused"}}} \union
  {[Job(Graph(d)) EXCEPT !.aggregate = a, !.cancel_before = c] :
     d \in Shapes, a \in {"all", "merge_all"}, c \in {Unset, 2}} \union
  {[Job(Graph(d)) EXCEPT !.nodes[2].condition = c, !.nodes[3].mapping = m] :
     d \in Shapes, c \in {FirstIsOne, <<[k |-> "bad"]>>}, m \in {<<>>, <<<<2, 1>>>>}} \union
  {[Job(Graph(<<{}, {}, {}>>)) EXCEPT !.preflight = TRUE],
   [Job(Graph(<<{}, {}, {}>>)) EXCEPT !.duplicate = TRUE],
   Job(Graph(<<{}, {}, {4}>>)), Job(<<>>)}

MCValues == {Obj(<<Num(1)>>), Obj(<<Lst(<<Num(2)>>)>>), Num(0)}

MCSample == <<Obj(<<Num(1), Str(2)>>), Num(0)>>
MCAtoms ==
  {FirstIsOne, <<Path(<<2>>)>>, <<Lit(Bool(TRUE))>>,
   <<Path(<<1, 2>>), [k |-> ">"], Lit(Str(1))>>, <<Path(<<1, 2, 1>>)>>}

(* Frames: with three values to a byte of a length, sizes around the limit of the short header. *)
Outbound(id, tier, size, last, vector) ==
  [id |-> id, type |-> 3, tier |-> tier, size |-> size, last |-> last, vector |-> vector]
MCOutgoing ==
  {Outbound(1, "json", 0, TRUE, Absent), Outbound(2, "msgpack", 8, FALSE, Absent),
   Outbound(3, "json", 9, TRUE, Absent), [Outbound(4, "msgpack", 1, TRUE, Absent) EXCEPT !.type = 5],
   Outbound(5, "vector", 2, TRUE, Absent), Outbound(6, "vector", 1, TRUE, <<4, 3>>),
   Outbound(7, "vector", 1, TRUE, <<>>), Outbound(8, "vector", 1, FALSE, <<2, Text>>),
   Outbound(9, "vector", 1, TRUE, <<Huge>>)}

(* Schemas: one twice in different orders, another one. *)
MCSchemas ==
  LET field(n, t) == [name |-> n, type |-> t]
  IN  {<<field(1, "text"), field(2, "number")>>, <<field(2, "number"), field(1, "text")>>,
       <<field(1, "number")>>}

(* The bridge: an action that both nodes have under one bare name, remote nodes alone, a node
   without dispatchers, and a node alone. *)
MCSegment == [a \in {"a.b", "a_b", "c"} |-> IF a = "c" THEN "c" ELSE "a_b"]
Local(role, actions, dispatches) ==
  [name |-> "here", http |-> FALSE, role |-> role, actions |-> actions, dispatches |-> dispatches]
Remote(name, role, actions) ==
  [name |-> name, http |-> TRUE, role |-> role, actions |-> actions, dispatches |-> {}]
MCSites ==
  {[protocols |-> {"mcp", "a2a"},
    nodes |-> <<Local("action", <<"a.b">>, {"invoke"}), Remote("there", "complex", <<"a_b", "c">>)>>],
   [protocols |-> {"mcp", "a2a", "grpc"},
    nodes |-> <<Remote("there", "complex", <<"a.b">>), Remote("far", "memory", <<>>)>>],
   [protocols |-> {"mcp", "grpc"}, nodes |-> <<Local("complex", <<"c">>, {})>>],
   [protocols |-> {"mcp", "grpc"}, nodes |-> <<Local("complex", <<"a_b", "c">>, {"query", "invoke"})>>]}
Asking(via, op, nodes, tools) == [via: {via}, op: op, node: nodes, tool: tools]
MCOrders ==
  Asking("mcp", {"call"}, {Unknown}, {<<"there", "a_b">>, <<"a_b">>, <<"c">>}) \union
  Asking("mcp", {"read"}, {"there"}, {Unknown}) \union
  Asking("mcp", {"list", "resources", "malformed", "other"}, {Unknown}, {Unknown}) \union
  Asking("a2a", {"call"}, {Unknown}, {Unknown, <<"there", "a_b">>, <<"a_b">>}) \union
  Asking("a2a", {"card", "malformed"}, {Unknown}, {Unknown}) \union
  Asking("grpc", {"call"}, {"there", Unknown}, {<<"c">>}) \union
  Asking("grpc", {"call"}, {Unknown}, {Unknown}) \union
  Asking("grpc", {"query", "manifest", "actions"}, {"there", Unknown}, {Unknown})

(* A behaviour is one of a single part; the others keep one of their initial states. *)
CONSTANTS r1, r2, q1, q2
VARIABLE part

all == <<part, vars, logVars, leaseVars, profileVars, codecVars, cacheVars, bridgeVars, shutdownVars>>

MCInit ==
  /\ part \in {"verifier", "log", "leases", "profile", "codec", "cache", "bridge", "shutdown"}
  /\ Init /\ LogInit /\ LeaseInit /\ ProfileInit /\ CodecInit /\ CacheInit /\ BridgeInit /\ ShutdownInit
  /\ part # "verifier" => mark = "last"
  /\ part # "profile" => task = Job(<<>>)
  /\ part # "codec" => limit = DefaultMax /\ ahead = 2
  /\ part # "bridge" => Size = 1 /\ Fronted(1).dispatches = {}
MCNext ==
  \/ part = "verifier" /\ Next /\ UNCHANGED <<part, logVars, leaseVars, profileVars, codecVars, cacheVars, bridgeVars, shutdownVars>>
  \/ part = "log" /\ LogNext /\ UNCHANGED <<part, vars, leaseVars, profileVars, codecVars, cacheVars, bridgeVars, shutdownVars>>
  \/ part = "leases" /\ LeaseNext /\ UNCHANGED <<part, vars, logVars, profileVars, codecVars, cacheVars, bridgeVars, shutdownVars>>
  \/ part = "profile" /\ ProfileNext /\ UNCHANGED <<part, vars, logVars, leaseVars, codecVars, cacheVars, bridgeVars, shutdownVars>>
  \/ part = "codec" /\ CodecNext /\ UNCHANGED <<part, vars, logVars, leaseVars, profileVars, cacheVars, bridgeVars, shutdownVars>>
  \/ part = "cache" /\ CacheNext /\ UNCHANGED <<part, vars, logVars, leaseVars, profileVars, codecVars, bridgeVars, shutdownVars>>
  \/ part = "bridge" /\ BridgeNext /\ UNCHANGED <<part, vars, logVars, leaseVars, profileVars, codecVars, cacheVars, shutdownVars>>
  \/ part = "shutdown" /\ ShutdownNext
       /\ UNCHANGED <<part, vars, logVars, leaseVars, profileVars, codecVars, cacheVars, bridgeVars>>
  \/ phase = "ended" /\ UNCHANGED all
  \/ part = "codec" /\ Len(read) = MaxSent /\ UNCHANGED all
  \/ part = "bridge" /\ (\A c \in Inbound : flow[c].pc = "done") /\ UNCHANGED all
  \/ part = "shutdown" /\ released /\ UNCHANGED all
MCSpec == MCInit /\ [][MCNext]_all

\* What every layer above builds on: frames are read as they were sent (core/codec.py), a schema
\* keeps its meaning while it is cached (core/cache.py), and a daemon drains once and in order
\* (daemon/shutdown.py).
CoreSound == WireFaithful /\ AnchorsKept /\ DrainOrderly
=============================================================================
