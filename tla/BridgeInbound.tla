--------------------------- MODULE BridgeInbound ---------------------------
(* The inbound Bridge (nps_sdk/nwp/inbound): MCP, A2A and gRPC requests served over NWP nodes that
   run in the same process or are reached over HTTP.  Requests run concurrently on one event loop
   and are suspended at every exchange with a remote node; what they share is the descriptor that
   HttpNwpBackend caches.

   A site is the sequence of nodes an instance fronts and the protocols it declares.  A node is
   [name, http, role, actions, dispatches]: its role and actions are what the node itself says,
   which the bridge of a remote node knows only from its answers.  A tool name is <<node, segment>>
   (the qualified form) or <<word>> (a bare action id or segment), letter case aside. *)
EXTENDS Integers, Sequences, SequencesExt, FiniteSets

CONSTANTS
  Sites,      \* the deployments considered
  Inbound,    \* the requests in progress at the same time
  Orders,     \* what a request asks for: [via, op, node, tool]
  Segment,    \* action id -> encode_action_segment: dots and odd characters become "_"
  Codes,      \* the HTTP error codes a node answers with
  Unknown,    \* a field without a value, NwpNodeRole.UNKNOWN
  Unasked     \* of a descriptor that has not been fetched

VARIABLES
  site,       \* the deployment
  descriptor, \* position -> HttpNwpBackend._descriptor's role, or Unasked
  flow,       \* request -> where it stands
  missed,     \* history: positions whose manifest was fetched without success
  did         \* history: request -> what its node was asked: [kind, at, action, answer], or Unknown
bridgeVars == <<site, descriptor, flow, missed, did>>

Fronted(i) == site.nodes[i]
Size == Len(site.nodes)

\* --------------------------------------------------------------------------------------------
\* The error map (error_map.py).
\* --------------------------------------------------------------------------------------------
FromHttp ==
  [k \in {400, 401, 403, 404, 408, 409, 410, 413, 415, 422, 429, 501, 502, 503, 504} |->
     CASE k = 400 -> "bad-param" [] k = 401 -> "unauthenticated" [] k = 403 -> "forbidden"
       [] k = 404 -> "not-found" [] k = 408 -> "timeout" [] k = 409 -> "conflict"
       [] k = 410 -> "gone" [] k = 413 -> "payload" [] k = 415 -> "encoding"
       [] k = 422 -> "unprocessable" [] k = 429 -> "rate" [] k = 501 -> "unsupported"
       [] k = 503 -> "unavailable" [] OTHER -> "downstream"]
FromHttpStatus(code) ==
  CASE code \in DOMAIN FromHttp -> FromHttp[code]
    [] code \notin DOMAIN FromHttp /\ code >= 500 -> "internal"
    [] code \notin DOMAIN FromHttp /\ code \in 400 .. 499 -> "bad-param"
    [] OTHER -> "ok"

MustBeProtocolError(status) ==
  status \in {"unauthenticated", "forbidden", "rate", "budget", "payload", "unsupported", "internal",
              "unavailable", "timeout", "downstream"}

JsonRpcCode(status) ==
  CASE status = "bad-frame" -> -32600
    [] status \in {"bad-param", "unprocessable", "gone"} -> -32602
    [] status = "conflict" -> -32004
    [] status = "unauthenticated" -> -32001
    [] status = "forbidden" -> -32003
    [] status \in {"rate", "budget", "payload"} -> -32005
    [] status = "unsupported" -> -32601
    [] OTHER -> -32603
ToJsonRpc(status, resource_read) ==
  IF status = "not-found" THEN (IF resource_read THEN -32602 ELSE -32601) ELSE JsonRpcCode(status)

ToGrpcStatus(status) ==
  CASE status \in {"bad-frame", "bad-param", "unprocessable"} -> "INVALID_ARGUMENT"
    [] status \in {"not-found", "gone"} -> "NOT_FOUND"
    [] status = "conflict" -> "ABORTED"
    [] status = "unauthenticated" -> "UNAUTHENTICATED"
    [] status = "forbidden" -> "PERMISSION_DENIED"
    [] status \in {"rate", "budget", "payload"} -> "RESOURCE_EXHAUSTED"
    [] status = "unsupported" -> "UNIMPLEMENTED"
    [] status \in {"unavailable", "downstream"} -> "UNAVAILABLE"
    [] status = "timeout" -> "DEADLINE_EXCEEDED"
    [] OTHER -> "INTERNAL"

\* --------------------------------------------------------------------------------------------
\* Nodes and their answers (backend.py).
\* --------------------------------------------------------------------------------------------
IsQueryable(role) == role \in {"memory", "complex"}
IsInvokable(role) == role \in {"action", "complex"}

NwpSuccess == [ok |-> TRUE, status |-> "ok"]
NwpFailure(status) == [ok |-> FALSE, status |-> status]

\* What may come back from a node: over HTTP an answer, an error code, a body that is no JSON, no
\* answer in time or no connection; in the same process a frame, an ErrorFrame (whose status is given
\* by the code that stands for it) or an exception.  The last two are answers of the bridge itself.
Fine == 200
Garbled == 1
Slow == 2
Unreached == 3
Raises == 4
NoDispatcher == 5
NotQueryable == 6
Returns(i) == {Fine} \union Codes \union IF Fronted(i).http THEN {Garbled, Slow, Unreached} ELSE {Raises}

\* _request
HttpResult(answer) ==
  CASE answer = Fine -> NwpSuccess
    [] answer = Slow -> NwpFailure("timeout")
    [] answer \in {Garbled, Unreached} -> NwpFailure("downstream")
    [] OTHER -> NwpFailure(FromHttpStatus(answer))

\* _to_result and dispatch_failed
FrameResult(answer) ==
  CASE answer = Fine -> NwpSuccess
    [] answer = Raises -> NwpFailure("internal")
    [] OTHER -> NwpFailure(FromHttpStatus(answer))

ResultOf(i, answer) == IF Fronted(i).http THEN HttpResult(answer) ELSE FrameResult(answer)

\* self._descriptor of either backend
Described(i) == IF Fronted(i).http THEN descriptor[i] ELSE Fronted(i).role

\* get_actions: what was fetched, or nothing.
ActionsOf(i, answer) ==
  CASE Fronted(i).http -> IF HttpResult(answer).ok THEN Fronted(i).actions ELSE <<>>
    [] OTHER -> IF IsInvokable(Fronted(i).role) THEN Fronted(i).actions ELSE <<>>

\* --------------------------------------------------------------------------------------------
\* Names (mcp_server.py, a2a_server.py).
\* --------------------------------------------------------------------------------------------
ToolName(i, action) == <<Fronted(i).name, Segment[action]>>
Target(i, action) == [at |-> i, action |-> action]

BareMcp(action, name) == name \in {<<action>>, <<Segment[action]>>}
BareA2a(i, action, name) == name \in {ToolName(i, action), <<action>>}

Targets(i, acts, Fits(_)) ==
  LET fit == SelectSeq(acts, Fits) IN [k \in 1 .. Len(fit) |-> Target(i, fit[k])]

\* --------------------------------------------------------------------------------------------
\* Requests.
\* --------------------------------------------------------------------------------------------
Unstarted == [ask |-> Unknown, pc |-> "idle", at |-> 1, pool |-> <<>>, hits |-> <<>>, blind |-> {},
              reply |-> Unknown]

\* A reply: an error with its code (or gRPC's name of it), a list, or a result.
Reply(kind) == [kind |-> kind, code |-> 0, name |-> "", list |-> <<>>]
RpcError(code) == [Reply("error") EXCEPT !.code = code]
GrpcError(name) == [Reply("error") EXCEPT !.name = name]
ListOf(targets) == [Reply("list") EXCEPT !.list = targets]
Refusal(via, status, read) ==
  IF via = "grpc" THEN GrpcError(ToGrpcStatus(status)) ELSE RpcError(ToJsonRpc(status, read))

Goes(c, changes) == flow' = [flow EXCEPT ![c] = changes]
Replies(c, reply) ==
  Goes(c, [flow[c] EXCEPT !.pc = "done", !.reply = reply, !.at = 1, !.pool = <<>>, !.hits = <<>>])

\* What dispatch and the first checks of each handler refuse: a protocol not declared, a method there
\* is not, params without the name, the URI or the id they must have.
McpRefusal(ask) ==
  CASE "mcp" \notin site.protocols -> Refusal("mcp", "unsupported", FALSE)
    [] ask.op = "malformed" -> RpcError(-32602)
    [] ask.op = "other" -> RpcError(-32601)
    [] OTHER -> Unknown

\* The AgentCard is served in any case.
A2aRefusal(ask) ==
  CASE ask.op = "card" -> Unknown
    [] "a2a" \notin site.protocols -> Refusal("a2a", "unsupported", FALSE)
    [] ask.op = "other" -> RpcError(-32601)
    [] ask.op = "malformed" -> RpcError(-32602)
    [] OTHER -> Unknown

\* Invoke looks at the action id before the protocol.
GrpcRefusal(ask) ==
  CASE ask.op = "call" /\ ask.tool = Unknown -> GrpcError("INVALID_ARGUMENT")
    [] "grpc" \notin site.protocols -> Refusal("grpc", "unsupported", FALSE)
    [] OTHER -> Unknown

Dispatch(c, ask) ==
  LET refused == CASE ask.via = "mcp" -> McpRefusal(ask)
                   [] ask.via = "a2a" -> A2aRefusal(ask)
                   [] OTHER -> GrpcRefusal(ask)
  IN  /\ flow[c].pc = "idle"
      /\ Goes(c, [Unstarted EXCEPT !.ask = ask, !.reply = refused,
                                   !.pc = IF refused = Unknown THEN "describe" ELSE "done"])
      /\ UNCHANGED <<site, descriptor, missed, did>>

\* The node a read or a gRPC request names; gRPC may leave the only one unnamed.
Named(ask, i) ==
  ask.node = Fronted(i).name \/ (ask.via = "grpc" /\ ask.node = Unknown /\ Size = 1)

\* What a request does with the descriptor of node i, whose role it was just told: it leaves it for
\* the next one or stays with it.
PassOver(f, i) == [f EXCEPT !.pc = "describe", !.at = i + 1]
Stay(f, i, pc) == [f EXCEPT !.pc = pc, !.at = i]

WeighMcp(f, i, role) ==
  CASE f.ask.op = "read" -> IF Named(f.ask, i) THEN Stay(f, i, "query") ELSE PassOver(f, i)
    [] f.ask.op = "resources"
         -> [PassOver(f, i) EXCEPT !.hits = IF IsQueryable(role) THEN Append(@, Target(i, Unknown)) ELSE @]
    [] OTHER -> IF IsInvokable(role) THEN Stay(f, i, "actions") ELSE PassOver(f, i)

\* _invokable_backends
WeighA2a(f, i, role) == [PassOver(f, i) EXCEPT !.pool = IF IsInvokable(role) THEN Append(@, i) ELSE @]

\* _resolve
WeighGrpc(f, i) == IF Named(f.ask, i) THEN Stay(f, i, f.ask.op) ELSE PassOver(f, i)

Weigh(f, i, role) ==
  CASE f.ask.via = "mcp" -> WeighMcp(f, i, role)
    [] f.ask.via = "a2a" -> WeighA2a(f, i, role)
    [] OTHER -> WeighGrpc(f, i)

\* get_descriptor of a node that runs here or has been asked before; otherwise its manifest is
\* requested, and the request is suspended.
Describe(c) ==
  /\ flow[c].pc = "describe" /\ flow[c].at <= Size
  /\ LET i == flow[c].at
     IN  Goes(c, IF Described(i) = Unasked THEN [flow[c] EXCEPT !.pc = "fetching"]
                 ELSE Weigh(flow[c], i, Described(i)))
  /\ UNCHANGED <<site, descriptor, missed, did>>

\* The manifest arrives, or does not: in any case the descriptor is set, over one that a request
\* which asked at the same time may have set before.
Fetched(c) ==
  /\ flow[c].pc = "fetching"
  /\ \E answer \in Returns(flow[c].at) :
       LET i == flow[c].at
           role == IF HttpResult(answer).ok THEN Fronted(i).role ELSE Unknown
       IN  /\ Goes(c, Weigh(flow[c], i, role))
           /\ descriptor' = [descriptor EXCEPT ![i] = role]
           /\ missed' = IF role = Unknown THEN missed \union {i} ELSE missed
  /\ UNCHANGED <<site, did>>

\* The search for a tool or the list of them goes on: with the next node (MCP), or with the next of
\* the invokable ones (A2A, which has all descriptors by now).
GoesOn(f) == [f EXCEPT !.pc = "describe", !.at = IF f.ask.via = "a2a" THEN Size + 1 ELSE @ + 1]
Chosen(f, t) == [f EXCEPT !.pc = "call", !.at = t.at, !.hits = <<t>>]

\* _list_tools and build_agent_card
Gather(f, i, acts) == LET any(a) == TRUE IN [GoesOn(f) EXCEPT !.hits = @ \o Targets(i, acts, any)]

\* resolve_tool: a qualified name decides at once, bare ones are gathered.
ResolveTool(f, i, acts) ==
  LET exact(a) == ToolName(i, a) = f.ask.tool
      bare(a) == BareMcp(a, f.ask.tool)
      found == Targets(i, acts, exact)
  IN  IF found # <<>> THEN Chosen(f, found[1])
      ELSE [GoesOn(f) EXCEPT !.hits = @ \o Targets(i, acts, bare)]

\* _resolve_action: the first action that fits decides; without a name all are gathered.
ResolveAction(f, i, acts) ==
  LET fits(a) == BareA2a(i, a, f.ask.tool)
      found == Targets(i, acts, fits)
  IN  CASE f.ask.tool = Unknown -> Gather(f, i, acts)
        [] found # <<>> -> Chosen(f, found[1])
        [] OTHER -> GoesOn(f)

\* The actions of the node arrive; of a node that does not answer there are none.
Listed(c) ==
  /\ flow[c].pc = "actions"
  /\ \E answer \in Returns(flow[c].at) :
       LET i == flow[c].at
           acts == ActionsOf(i, answer)
           f == [flow[c] EXCEPT !.blind = IF acts = Fronted(i).actions THEN @ ELSE @ \union {i}]
       IN  CASE f.ask.via = "grpc" -> Replies(c, ListOf(Gather(f, i, acts).hits))
             [] f.ask.op \in {"list", "card"} -> Goes(c, Gather(f, i, acts))
             [] f.ask.via = "mcp" -> Goes(c, ResolveTool(f, i, acts))
             [] OTHER -> Goes(c, ResolveAction(f, i, acts))
  /\ UNCHANGED <<site, descriptor, missed, did>>

\* Without a qualified name only a single action will do.
UnambiguousFirst(hits) == Len(hits) >= 1

Unambiguous(hits) == Len(hits) = 1

\* All nodes have been asked: _call_tool, _list_tools, _list_resources and _read_resource,
Finished(c, via) == flow[c].pc = "describe" /\ flow[c].at > Size /\ flow[c].ask.via = via
ConcludeMcp(c) ==
  /\ Finished(c, "mcp")
  /\ LET f == flow[c]
     IN  CASE f.ask.op \in {"list", "resources"} -> Replies(c, ListOf(f.hits))
           [] f.ask.op = "read" -> Replies(c, RpcError(-32602))
           [] Unambiguous(f.hits) -> Goes(c, Chosen(f, f.hits[1]))
           [] OTHER -> Replies(c, RpcError(-32601))
  /\ UNCHANGED <<site, descriptor, missed, did>>

\* _send_task and build_agent_card, which ask the invokable nodes for their actions one by one,
ConcludeA2a(c) ==
  /\ Finished(c, "a2a")
  /\ LET f == flow[c]
     IN  CASE f.pool # <<>> -> Goes(c, [Stay(f, f.pool[1], "actions") EXCEPT !.pool = Tail(@)])
           [] f.ask.op = "card" -> Replies(c, ListOf(f.hits))
           [] Unambiguous(f.hits) -> Goes(c, Chosen(f, f.hits[1]))
           [] OTHER -> Replies(c, RpcError(-32602))
  /\ UNCHANGED <<site, descriptor, missed, did>>

\* _resolve.  The candidates an error names beside its code are left out of all three.
ConcludeGrpc(c) ==
  /\ Finished(c, "grpc")
  /\ Replies(c, Refusal("grpc", "not-found", FALSE))
  /\ UNCHANGED <<site, descriptor, missed, did>>

\* What becomes of a failure.  Of a call, one of the node itself is an error of the protocol, one of
\* the action is a result that says so; a resource read and gRPC have errors only.
ToolCallFailure(status) ==
  IF MustBeProtocolError(status) THEN Refusal("mcp", status, FALSE)
  ELSE [Reply("failed") EXCEPT !.name = status]
TaskFailure(status) ==
  IF MustBeProtocolError(status) THEN Refusal("a2a", status, FALSE)
  ELSE [Reply("failed") EXCEPT !.name = status]
ReadFailure(status) == Refusal("mcp", status, TRUE)
Ensure(status) == Refusal("grpc", status, FALSE)

Project(ask, result) ==
  CASE result.ok -> Reply("completed")
    [] ask.via = "grpc" -> Ensure(result.status)
    [] ask.via = "a2a" -> TaskFailure(result.status)
    [] ask.op = "read" -> ReadFailure(result.status)
    [] OTHER -> ToolCallFailure(result.status)

\* The node answers (or not) to what it was asked.
Returned(c, kind, action, answer, result) ==
  /\ Replies(c, Project(flow[c].ask, result))
  /\ did' = [did EXCEPT ![c] = [kind |-> kind, answer |-> answer, at |-> flow[c].at, action |-> action]]
  /\ UNCHANGED <<site, descriptor, missed>>

\* invoke
InvokeNode(c) ==
  LET f == flow[c]
      i == f.at
      action == IF f.ask.via = "grpc" THEN f.ask.tool[1] ELSE f.hits[1].action
  IN  /\ f.pc = "call"
      /\ IF Fronted(i).http \/ "invoke" \in Fronted(i).dispatches
           THEN \E answer \in Returns(i) : Returned(c, "invoke", action, answer, ResultOf(i, answer))
           ELSE Returned(c, "invoke", action, NoDispatcher, NwpFailure("internal"))

\* query: the role is the one cached now, whatever it was when the node was found.
QueryNode(c) ==
  LET i == flow[c].at
  IN  /\ flow[c].pc = "query"
      /\ CASE ~IsQueryable(Described(i))
                -> Returned(c, "query", Unknown, NotQueryable, NwpFailure("unsupported"))
           [] ~Fronted(i).http /\ "query" \notin Fronted(i).dispatches
                -> Returned(c, "query", Unknown, NoDispatcher, NwpFailure("internal"))
           [] OTHER -> \E answer \in Returns(i) :
                         Returned(c, "query", Unknown, answer, ResultOf(i, answer))

\* get_manifest of gRPC, which asks for the manifest again.
ManifestNode(c) ==
  LET i == flow[c].at
  IN  /\ flow[c].pc = "manifest"
      /\ \E answer \in IF Fronted(i).http THEN Returns(i) ELSE {Fine} :
           Returned(c, "manifest", Unknown, answer, ResultOf(i, answer))

BridgeInit ==
  /\ site \in Sites
  /\ descriptor = [i \in 1 .. Size |-> Unasked]
  /\ flow = [c \in Inbound |-> Unstarted]
  /\ missed = {}
  /\ did = [c \in Inbound |-> Unknown]

BridgeNext ==
  \E c \in Inbound :
    \/ \E ask \in Orders : Dispatch(c, ask)
    \/ Describe(c) \/ Fetched(c) \/ Listed(c)
    \/ ConcludeMcp(c) \/ ConcludeA2a(c) \/ ConcludeGrpc(c)
    \/ InvokeNode(c) \/ QueryNode(c) \/ ManifestNode(c)

\* --------------------------------------------------------------------------------------------
\* Properties.
\* --------------------------------------------------------------------------------------------
\* A node a request may not know of: its manifest was once not to be had, or its actions were not
\* to be had for this request.
Hidden(c, i) == i \in missed \union flow[c].blind
Offers(c) ==
  {t \in [at: 1 .. Size, action: DOMAIN Segment] :
     /\ IsInvokable(Fronted(t.at).role) /\ ~Hidden(c, t.at)
     /\ \E k \in DOMAIN Fronted(t.at).actions : Fronted(t.at).actions[k] = t.action}

\* What is invoked is what the request names (resolve_tool, _resolve_action, _resolve): the
\* qualified name, or a bare one that fits nothing else the bridge can see; of A2A the first that
\* fits, and without a name the only action in sight.
RoutedAsNamed ==
  \A c \in Inbound :
    did[c] # Unknown /\ did[c].kind = "invoke" =>
      LET t == Target(did[c].at, did[c].action)
          ask == flow[c].ask
      IN  CASE ask.via = "grpc" -> Named(ask, t.at) /\ ask.tool = <<t.action>>
            [] ask.via = "mcp"
                 -> \/ ask.tool = ToolName(t.at, t.action)
                    \/ /\ BareMcp(t.action, ask.tool)
                       /\ \A u \in Offers(c) \ {t} : ~BareMcp(u.action, ask.tool)
            [] ask.tool = Unknown -> Offers(c) \subseteq {t}
            [] OTHER -> /\ BareA2a(t.at, t.action, ask.tool)
                        /\ \A u \in Offers(c) : BareA2a(u.at, u.action, ask.tool) => u.at >= t.at

\* What every node that has always answered offers is found: a qualified tool is not refused as
\* unknown, no list leaves it out, and a node that can be queried is not refused as one that cannot.
FoundIfAnswering ==
  \A c \in Inbound :
    LET ask == flow[c].ask
    IN  flow[c].pc = "done" /\ ask.via \in site.protocols =>
          /\ ask.via # "grpc" /\ ask.op = "call" /\ did[c] = Unknown =>
               \A t \in Offers(c) : ask.tool # ToolName(t.at, t.action)
          /\ ask.op \in {"list", "card"} =>
               \A t \in Offers(c) : \E k \in DOMAIN flow[c].reply.list : flow[c].reply.list[k] = t
          /\ did[c] # Unknown /\ did[c].answer = NotQueryable =>
               ~IsQueryable(Fronted(did[c].at).role) \/ did[c].at \in missed

\* The class of a failure survives the way from the node to the client (error_map.py): only what
\* succeeded is completed, only a failure of the action itself is a failed result, and the codes for
\* who may not, and for how much, stand for nothing else.
ClassKept ==
  \A c \in Inbound :
    did[c] # Unknown =>
      LET reply == flow[c].reply
          status == IF did[c].answer \in Codes THEN FromHttpStatus(did[c].answer) ELSE "none"
          means(statuses, code, name) ==
            status \in statuses <=> reply = IF flow[c].ask.via = "grpc" THEN GrpcError(name) ELSE RpcError(code)
      IN  /\ reply.kind = "completed" <=> did[c].answer = Fine
          /\ reply.kind = "failed" =>
               status \in {"bad-param", "not-found", "conflict", "gone", "encoding", "unprocessable"}
          /\ means({"unauthenticated"}, -32001, "UNAUTHENTICATED")
          /\ means({"forbidden"}, -32003, "PERMISSION_DENIED")
          /\ means({"rate", "payload"}, -32005, "RESOURCE_EXHAUSTED")

\* The bridge as its callers see it: the node named is the one asked, what answers is found, and a
\* failure keeps its class, in every interleaving of requests over the cached descriptors.
BridgeFaithful == RoutedAsNamed /\ FoundIfAnswering /\ ClassKept
=============================================================================
