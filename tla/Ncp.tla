-------------------------------- MODULE Ncp --------------------------------
(***************************************************************************)
(* The native transport: NcpFailoverConnector (ncp/failover.py) dialling   *)
(* with NcpNativeClient (ncp/client.py), NcpServer and its application's   *)
(* accept loop (ncp/server.py), the negotiation (ncp/handshake_profile.py, *)
(* ncp/encoding_policy.py), and the session behind it (ncp/session.py)     *)
(* served by NwpNativeNodeServer (nwp/native_server.py).                   *)
(*                                                                         *)
(* A connection is two byte streams, here sequences of messages; Eof is    *)
(* the end of a stream whose writer was closed.  A connection breaks for   *)
(* both ends at once and loses what is under way.  Versions are ordered by *)
(* their number.                                                           *)
(***************************************************************************)
EXTENDS Integers, Sequences, FiniteSets

CONSTANTS
  Callers,     \* connectors
  Hosts,       \* where an anchor may listen
  Hellos,      \* HelloFrames of the callers
  Deployments, \* the NcpHandshakeProfile of each host
  MaxHello,    \* max_hello_payload
  MaxAttempts, \* max_attempts of the connector
  MaxFrames,   \* bound on the requests of a session
  None

VARIABLES
  active,    \* what the resolver answers
  listening, \* the hosts whose server is started
  profile,   \* the profile of each host
  caller,    \* the connector and the client of each caller
  conn,      \* one connection per attempt, with its server side
  pending    \* NcpServer._pending of each host

vars == <<active, listening, profile, caller, conn, pending>>

Attempts == Callers \X (1..MaxAttempts)

NoConn == [host |-> None, server |-> "none", policy |-> None, up |-> <<>>, down |-> <<>>, broken |-> FALSE]

Preamble == [type |-> "preamble"]
HelloFrame == [type |-> "hello"]
Eof == [type |-> "eof"]

Init ==
  /\ active \in Hosts /\ listening = Hosts
  /\ profile \in Deployments
  /\ caller \in [Callers -> {[at |-> "resolve", attempt |-> 0, hello |-> h, caps |-> None, policy |-> None,
                              sent |-> <<>>, got |-> <<>>, error |-> None] : h \in Hellos}]
  /\ conn = [k \in Attempts |-> NoConn]
  /\ pending = [h \in Hosts |-> <<>>]

Current(c) == <<c, caller[c].attempt>>
-----------------------------------------------------------------------------
(* Negotiation. *)

Refusal(error) == [action |-> "error_close", error |-> error]

Least(a, b) == IF a < b THEN a ELSE b
Greatest(a, b) == IF a > b THEN a ELSE b

\* negotiate_handshake
Negotiate(server, client) ==
  LET client_min == IF client.min_version = None THEN client.nps_version ELSE client.min_version
      low == Greatest(server.min_version, client_min)
      high == Least(server.nps_version, client.nps_version)
      stable == SelectSeq(client.encodings, LAMBDA e : e \in {"msgpack", "json"} \intersect server.encodings)
      protocols == client.protocols \intersect server.protocols
      vector == "vector" \in server.encodings /\ \E i \in DOMAIN client.encodings : client.encodings[i] = "vector"
  IN  IF client_min > client.nps_version \/ server.min_version > server.nps_version \/ low > high
        THEN Refusal("version")
      ELSE IF stable = <<>> THEN Refusal("encoding")
      ELSE IF \/ "ncp" \notin protocols
              \/ client.max_frame_payload <= 0 \/ server.max_frame_payload <= 0
              \/ client.max_streams <= 0 \/ server.max_streams <= 0 THEN Refusal("version")
      ELSE [action |-> "accept", session_version |-> high, encoding |-> Head(stable), vector |-> vector,
            protocols |-> protocols, ext |-> server.ext /\ client.ext,
            max_frame_payload |-> Least(server.max_frame_payload, client.max_frame_payload),
            max_streams |-> Least(server.max_streams, client.max_streams)]

\* NcpEncodingPolicy
Policy(tier, vector) == [tier |-> tier, vector |-> vector]

\* allows
Allows(policy, frame) ==
  frame.tier = policy.tier \/ (frame.tier = "vector" /\ policy.vector /\ frame.type = "query")
-----------------------------------------------------------------------------
(* NcpFailoverConnector and NcpNativeClient. *)

\* connect() raises: an OSError is answered by another attempt, everything else goes to the caller
\* (no error of this client carries the protocol_error_code of a mismatched NID).
Raise(c, error) ==
  caller' = [caller EXCEPT ![c].at = IF error = "os" /\ caller[c].attempt < MaxAttempts
                                     THEN "resolve" ELSE "failed",
                           ![c].error = error]

Resolve(c) ==
  /\ caller[c].at = "resolve"
  /\ caller' = [caller EXCEPT ![c].at = "dial", ![c].attempt = @ + 1]
  /\ conn' = [conn EXCEPT ![<<c, caller[c].attempt + 1>>].host = active]
  /\ UNCHANGED <<active, listening, profile, pending>>

\* open_connection, then the preamble and the hello are written.
Dial(c) ==
  LET k == Current(c)
  IN  /\ caller[c].at = "dial"
      /\ IF conn[k].host \in listening
           THEN /\ caller' = [caller EXCEPT ![c].at = "await"]
                /\ conn' = [conn EXCEPT ![k].server = "auth", ![k].up = <<Preamble, HelloFrame>>]
           ELSE Raise(c, "os") /\ UNCHANGED conn
      /\ UNCHANGED <<active, listening, profile, pending>>

\* The first frame of the server: capabilities, in the negotiated encoding, or an error, or nothing.
ReadResponse(c) ==
  LET k == Current(c)
      reply == Head(conn[k].down)
  IN  /\ caller[c].at = "await" /\ conn[k].down # <<>>
      /\ IF reply = Eof THEN Raise(c, "incomplete read")
         ELSE IF reply.type = "error" THEN Raise(c, reply.error)
         ELSE caller' = [caller EXCEPT ![c].at = "session", ![c].caps = reply.caps,
                                       ![c].policy = Policy(reply.tier, reply.caps.vector)]
      /\ conn' = [conn EXCEPT ![k].down = Tail(@)]
      /\ UNCHANGED <<active, listening, profile, pending>>

\* A broken connection raises from whatever the client awaits.
CallerBroken(c) ==
  /\ caller[c].at \in {"await", "session"} /\ conn[Current(c)].broken
  /\ IF caller[c].at = "await" THEN Raise(c, "os") ELSE caller' = [caller EXCEPT ![c].at = "ended"]
  /\ UNCHANGED <<active, listening, profile, conn, pending>>
-----------------------------------------------------------------------------
(* NcpServer. *)

\* Mutant of Closes: the writer is left open.
ClosesNot(k) == conn' = [conn EXCEPT ![k].server = "closed"]

\* writer.close() in the except clause of _on_client
Closes(k) == conn' = [conn EXCEPT ![k].server = "closed", ![k].down = IF conn[k].broken THEN @ ELSE Append(@, Eof)]

\* _authenticate, whose hook may raise
Authenticate(k, ok) ==
  /\ conn[k].server = "auth"
  /\ IF ok THEN conn' = [conn EXCEPT ![k].server = "preamble"] ELSE Closes(k)
  /\ UNCHANGED <<active, listening, profile, caller, pending>>

\* _handshake, each of its two reads within its time
ReadPreamble(k, late) ==
  /\ conn[k].server = "preamble" /\ conn[k].up # <<>>
  /\ IF late \/ Head(conn[k].up) # Preamble THEN Closes(k)
     ELSE conn' = [conn EXCEPT ![k].server = "hello", ![k].up = Tail(@)]
  /\ UNCHANGED <<active, listening, profile, caller, pending>>

ReadHello(k, late) ==
  LET h == conn[k].host
  IN  /\ conn[k].server = "hello" /\ conn[k].up # <<>>
      /\ IF late \/ Head(conn[k].up) # HelloFrame \/ caller[k[1]].hello.size > MaxHello
           THEN Closes(k) /\ UNCHANGED pending
           ELSE /\ conn' = [conn EXCEPT ![k].server = "pending", ![k].up = Tail(@)]
                /\ pending' = [pending EXCEPT ![h] = Append(@, k)]
      /\ UNCHANGED <<active, listening, profile, caller>>

\* NcpServerConnection.reject
Rejected(k, error) ==
  conn' = [conn EXCEPT ![k].server = "closed",
                       ![k].down = IF conn[k].broken THEN @ ELSE @ \o <<[type |-> "error", error |-> error], Eof>>]

\* Mutant of Capabilities: encoded in the codec's own tier.
CapabilitiesJson(decision) == [type |-> "caps", tier |-> "json", caps |-> decision]

\* The capabilities frame is encoded in the tier it announces.
Capabilities(decision) == [type |-> "caps", tier |-> decision.encoding, caps |-> decision]

\* The application takes the next connection and accepts it.
Accept(h) ==
  LET k == Head(pending[h])
      decision == Negotiate(profile[h], caller[k[1]].hello)
  IN  /\ pending[h] # <<>>
      /\ pending' = [pending EXCEPT ![h] = Tail(@)]
      /\ IF decision.action # "accept" THEN Rejected(k, decision.error)
         ELSE IF conn[k].broken THEN Closes(k)
         ELSE conn' = [conn EXCEPT ![k].server = "session",
                                   ![k].policy = Policy(decision.encoding, decision.vector),
                                   ![k].down = Append(@, Capabilities(decision))]
      /\ UNCHANGED <<active, listening, profile, caller>>

\* The application takes the next connection and rejects it.
Reject(h) ==
  /\ pending[h] # <<>>
  /\ pending' = [pending EXCEPT ![h] = Tail(@)]
  /\ Rejected(Head(pending[h]), "application")
  /\ UNCHANGED <<active, listening, profile, caller>>
-----------------------------------------------------------------------------
(* The session: NcpSession of the caller, NwpNativeNodeServer.serve of the host. *)

\* send_frame; a tier the policy does not allow raises before anything is written.
SendFrame(c, type, tier) ==
  LET k == Current(c)
      frame == [type |-> type, tier |-> tier, id |-> Len(caller[c].sent) + 1]
  IN  /\ caller[c].at = "session" /\ ~conn[k].broken /\ Len(caller[c].sent) < MaxFrames
      /\ Allows(caller[c].policy, frame)
      /\ caller' = [caller EXCEPT ![c].sent = Append(@, frame)]
      /\ conn' = [conn EXCEPT ![k].up = Append(@, frame)]
      /\ UNCHANGED <<active, listening, profile, pending>>

\* dispatch_wire: _policy_error, dispatch; only capabilities carry the request's id.
Response(policy, frame, handled) ==
  IF Allows(policy, frame) /\ frame.type \in {"query", "action"} /\ handled
    THEN [type |-> "caps", tier |-> policy.tier, id |-> frame.id]
    ELSE [type |-> "error", tier |-> policy.tier, id |-> None]

\* serve_once
ServeOnce(k, handled) ==
  /\ conn[k].server = "session" /\ conn[k].up # <<>>
  /\ LET frame == Head(conn[k].up)
     IN  conn' = [conn EXCEPT ![k].up = Tail(@),
                              ![k].server = IF frame = Eof THEN "closed" ELSE @,
                              ![k].down = Append(@, IF frame = Eof THEN Eof
                                                    ELSE Response(conn[k].policy, frame, handled))]
  /\ UNCHANGED <<active, listening, profile, caller, pending>>

\* receive_frame
ReceiveFrame(c) ==
  LET k == Current(c)
      frame == Head(conn[k].down)
  IN  /\ caller[c].at = "session" /\ conn[k].down # <<>>
      /\ conn' = [conn EXCEPT ![k].down = Tail(@)]
      /\ caller' = IF frame = Eof \/ ~Allows(caller[c].policy, frame)
                     THEN [caller EXCEPT ![c].at = "ended"]
                     ELSE [caller EXCEPT ![c].got = Append(@, frame)]
      /\ UNCHANGED <<active, listening, profile, pending>>

\* close
CloseSession(c) ==
  /\ caller[c].at = "session" /\ ~conn[Current(c)].broken
  /\ caller' = [caller EXCEPT ![c].at = "ended"]
  /\ conn' = [conn EXCEPT ![Current(c)].up = Append(@, Eof)]
  /\ UNCHANGED <<active, listening, profile, pending>>
-----------------------------------------------------------------------------
(* The network and the cluster. *)

\* A connection breaks, at any time.
Break(k) ==
  /\ conn[k].server # "none" /\ ~conn[k].broken
  /\ conn' = [conn EXCEPT ![k].broken = TRUE, ![k].up = <<>>, ![k].down = <<>>]
  /\ UNCHANGED <<active, listening, profile, caller, pending>>

\* Whatever the server reads from it raises.
ServerBroken(k) ==
  /\ conn[k].broken /\ conn[k].server \in {"auth", "preamble", "hello", "session"}
  /\ Closes(k)
  /\ UNCHANGED <<active, listening, profile, caller, pending>>

\* The ownership moves to another host, whose predecessor may stop its server.
Failover(h, stops) ==
  /\ h # active
  /\ active' = h
  /\ listening' = (listening \union {h}) \ (IF stops THEN {active} ELSE {})
  /\ UNCHANGED <<profile, caller, conn, pending>>
-----------------------------------------------------------------------------
Connecting(c) == Resolve(c) \/ Dial(c) \/ ReadResponse(c) \/ CallerBroken(c)

Session(c) ==
  \/ \E type \in {"query", "action", "anchor"}, tier \in {"msgpack", "json", "vector"} : SendFrame(c, type, tier)
  \/ ReceiveFrame(c) \/ CloseSession(c)

Serving(k) ==
  \/ \E ok \in BOOLEAN : Authenticate(k, ok)
  \/ \E late \in BOOLEAN : ReadPreamble(k, late) \/ ReadHello(k, late)
  \/ \E handled \in BOOLEAN : ServeOnce(k, handled)
  \/ ServerBroken(k)

Accepting(h) == Accept(h) \/ Reject(h)

Next ==
  \/ \E c \in Callers : Connecting(c) \/ Session(c)
  \/ \E k \in Attempts : Serving(k) \/ Break(k)
  \/ \E h \in Hosts : Accepting(h) \/ \E stops \in BOOLEAN : Failover(h, stops)

Spec == Init /\ [][Next]_vars

\* The event loops run what is ready, and every application keeps taking its connections.
Fairness ==
  /\ \A c \in Callers : WF_vars(Connecting(c))
  /\ \A k \in Attempts : WF_vars(Serving(k))
  /\ \A h \in Hosts : WF_vars(Accepting(h))

FairSpec == Spec /\ Fairness
-----------------------------------------------------------------------------
(* Properties. *)

Capable(c) == caller[c].caps # None

\* Both ends of a session use one encoding policy, within what both offered: no end refuses what
\* the other one sends.
PolicyAgreed ==
  \A c \in Callers : Capable(c) =>
    LET k == Current(c)
        hello == caller[c].hello
        server == profile[conn[k].host]
        caps == caller[c].caps
        Sound(frame) == frame = Eof \/ Allows(caller[c].policy, frame)
    IN  /\ caller[c].policy = conn[k].policy
        /\ caps.encoding \in server.encodings /\ \E i \in DOMAIN hello.encodings : hello.encodings[i] = caps.encoding
        /\ caps.session_version \in server.min_version..server.nps_version
        /\ caps.session_version <= hello.nps_version
        /\ caps.max_frame_payload <= Least(server.max_frame_payload, hello.max_frame_payload)
        /\ \A i \in DOMAIN conn[k].up : Sound(conn[k].up[i])
        /\ \A i \in DOMAIN conn[k].down : Sound(conn[k].down[i])

\* The answers come in the order of the requests, one for each, and one that names a request names
\* its own.
AnswersInOrder ==
  \A c \in Callers :
    LET got == caller[c].got
    IN  Len(got) <= Len(caller[c].sent) /\ \A i \in DOMAIN got : got[i].id \in {None, i}

\* What the two ends of a session may rely on.
SessionSound == PolicyAgreed /\ AnswersInOrder

\* A connector that starts ends, with a session or with an error, whatever happens to the
\* connections, the time limits and the ownership.
ConnectEnds == \A c \in Callers : caller[c].at = "resolve" ~> caller[c].at \in {"session", "ended", "failed"}
=============================================================================
