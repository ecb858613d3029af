----------------------------- MODULE AnchorNode -----------------------------
(***************************************************************************)
(* AnchorNodeApp (nwp/anchor_server.py) with its reputation gate and its   *)
(* rate limiter, and AnchorNodeClient (nwp/anchor_client.py) reading a     *)
(* topology stream.                                                        *)
(*                                                                         *)
(* Requests are tasks of one event loop: a handler runs to its next await  *)
(* (a send, the invoke handler) in one step.  A send may fail because the  *)
(* peer is gone, and a task may be cancelled at any await.  The rate       *)
(* limiter is the caller's; it counts what it grants, by consumer.  What   *)
(* an action does is its kind, and the body of a request is what the gates *)
(* look at.                                                                *)
(***************************************************************************)
EXTENDS NwpReputation

CONSTANTS
  Requests,  \* calls of /invoke
  Actions,   \* AnchorNodeOptions.actions: AnchorActionSpec by kind
  CgnLimit,  \* cgn_limit, 0 for none
  Budgets,   \* X-NWP-Budget values of the callers
  Capacity,  \* what the limiter grants one consumer at once
  Streams,   \* calls of /subscribe
  Clients(_),\* Clients(policy): which of the calls come to a node of that policy
  MaxEpoch,  \* bound on epochs
  MaxFeed    \* bound on topology events

ASSUME AnchorAssumption == IsFiniteSet(Requests) /\ None \notin Agents

VARIABLES
  guard,  \* AnchorEpochGuard: own_epoch, role and degraded
  slots,  \* the limiter: grants not yet released, by consumer
  req,    \* where each /invoke request is
  feed,   \* the topology service: the events so far, the guard's own included
  stream  \* each subscription: the service's position, lines under way, what the client yielded

vars == <<reputation, guard, slots, req, feed, stream>>
-----------------------------------------------------------------------------
Idle == [at |-> "idle", agent |-> None]

NoStream == [server |-> "idle", from |-> 0, pos |-> 0, lines |-> <<>>, client |-> "idle", seen |-> <<>>]

\* TopologyEvent: the guard's own events have version 0; "odd" is a subtype the server does not know.
TopologyEvent(kind, version) == [kind |-> kind, version |-> version]
StateEvent == TopologyEvent("anchor_state", 0)

Init ==
  /\ ReputationInit
  /\ guard = [epoch |-> 1, role |-> "active", degraded |-> FALSE]
  /\ slots = [a \in Agents |-> 0]
  /\ req = [x \in Requests |-> Idle]
  /\ feed = <<>>
  /\ stream = [s \in Streams |-> NoStream]
-----------------------------------------------------------------------------
(* The epoch guard. *)

\* _fence, check_inbound: a greater epoch demotes, a write needs the active owner with a quorum.
Fenced(epoch) == epoch > guard.epoch
Refused(write) == write /\ (guard.role # "active" \/ guard.degraded)

\* What check_inbound changes on its way out; close_streams is among the ways EndStream may happen.
FenceEffect(epoch) ==
  /\ guard' = IF Fenced(epoch) THEN [guard EXCEPT !.role = "standby"] ELSE guard
  /\ feed' = IF Fenced(epoch) THEN Append(feed, StateEvent) ELSE feed
  /\ Fenced(epoch) => Len(feed) < MaxFeed

\* on_take_ownership
TakeOwnership(epoch) ==
  /\ epoch > guard.epoch /\ Len(feed) < MaxFeed
  /\ guard' = [epoch |-> epoch, role |-> "active", degraded |-> FALSE]
  /\ feed' = Append(feed, StateEvent)
  /\ UNCHANGED <<reputation, slots, req, stream>>

\* on_quorum_lost, on_quorum_restored
Quorum(lost) ==
  /\ guard.degraded # lost /\ Len(feed) < MaxFeed
  /\ guard' = [guard EXCEPT !.degraded = lost]
  /\ feed' = IF lost THEN Append(feed, StateEvent) ELSE feed
  /\ UNCHANGED <<reputation, slots, req, stream>>
-----------------------------------------------------------------------------
(* /invoke.  require_auth is set: without it the consumer "anonymous" is one more agent. *)

\* _read_effective_budget
EffectiveBudget(budget) ==
  IF CgnLimit = 0 THEN budget
  ELSE IF budget = 0 \/ budget > CgnLimit THEN CgnLimit ELSE budget

OverBudget(spec, budget) ==
  LET b == EffectiveBudget(budget) IN b > 0 /\ spec.cgn > 0 /\ spec.cgn > b

Moves(x, at) == req' = [req EXCEPT ![x].at = at]

\* The answers sent without a slot: __call__, _handle_invoke up to the limiter, and the release
\* where the evaluator raises or no handler is registered.
Dismiss(x, agent, kind, asynchronous, epoch) ==
  /\ x \in Clients(policy) /\ req[x].at = "idle"
  /\ \/ agent = None /\ UNCHANGED <<guard, feed>>                                   \* 401
     \/ agent # None /\ kind \notin DOMAIN Actions /\ UNCHANGED <<guard, feed>>      \* 404
     \/ /\ agent # None /\ kind \in DOMAIN Actions
        /\ Fenced(epoch) \/ Refused(Actions[kind].write)                            \* 409
        /\ FenceEffect(epoch)
     \/ /\ agent # None /\ kind \in DOMAIN Actions
        /\ ~Fenced(epoch) /\ ~Refused(Actions[kind].write)
        /\ \/ asynchronous /\ ~Actions[kind].async                                  \* 400
           \/ slots[agent] >= Capacity                                              \* 429
           \/ slots[agent] < Capacity                                               \* 500, 501
        /\ UNCHANGED <<guard, feed>>
  /\ Moves(x, "done")
  /\ UNCHANGED <<reputation, slots, stream>>

\* What lets a request reach the gates behind the limiter.
Granted(agent, kind, asynchronous, epoch) ==
  /\ agent # None /\ kind \in DOMAIN Actions
  /\ ~Fenced(epoch) /\ ~Refused(Actions[kind].write)
  /\ asynchronous => Actions[kind].async
  /\ slots[agent] < Capacity

\* _handle_invoke from the limiter to its next await: the refusal of the reputation gate is sent
\* before the slot is released, that of the budget after it.
Admit(x, agent, kind, asynchronous, epoch, budget, assurance, up) ==
  LET spec == Actions[kind]
      After(outcome) == IF outcome # "accept" THEN "refusing"
                        ELSE IF OverBudget(spec, budget) THEN "done"
                        ELSE IF asynchronous THEN "spawned" ELSE "handling"
  IN  /\ x \in Clients(policy) /\ req[x].at = "idle"
      /\ Granted(agent, kind, asynchronous, epoch)
      /\ \E outcome \in {"accept", "throttle", "reject", "ban"} :
           /\ Evaluate(agent, assurance, up, outcome)
           /\ req' = [req EXCEPT ![x] = [at |-> After(outcome), agent |-> agent]]
           /\ slots' = IF After(outcome) = "done" THEN slots ELSE [slots EXCEPT ![agent] = @ + 1]
      /\ UNCHANGED <<guard, feed, stream>>

Release(x) == slots' = [slots EXCEPT ![req[x].agent] = @ - 1]

\* _apply_reputation has sent its refusal; if the send fails or is cancelled, nothing releases.
RefusalSent(x, delivered) ==
  /\ req[x].at = "refusing"
  /\ IF delivered THEN Release(x) /\ Moves(x, "done") ELSE UNCHANGED slots /\ Moves(x, "lost")
  /\ UNCHANGED <<reputation, guard, feed, stream>>

\* Mutant of HandlerEnds: the time-out returns past the finally clause.
HandlerEndsLate(x, how) ==
  /\ req[x].at = "handling"
  /\ \/ how = "cancelled" /\ Release(x) /\ Moves(x, "done")
     \/ how = "timeout" /\ UNCHANGED slots /\ Moves(x, "done")
     \/ how \in {"result", "error"} /\ UNCHANGED slots /\ Moves(x, "answering")
  /\ UNCHANGED <<reputation, guard, feed, stream>>

\* The invoke handler returns or raises AnchorActionError, wait_for gives up (an answer follows in
\* each case), or another exception or a cancellation goes straight to the finally clause.
HandlerEnds(x, how) ==
  /\ req[x].at = "handling"
  /\ \/ how = "cancelled" /\ Release(x) /\ Moves(x, "done")
     \/ how \in {"result", "error", "timeout"} /\ UNCHANGED slots /\ Moves(x, "answering")
  /\ UNCHANGED <<reputation, guard, feed, stream>>

\* The answer of a synchronous call, or the 202 of an asynchronous one, was sent or not: finally.
\* The handler of an asynchronous call runs on without a slot.
Answered(x) ==
  /\ req[x].at \in {"answering", "spawned"}
  /\ Release(x)
  /\ Moves(x, IF req[x].at = "spawned" THEN "background" ELSE "done")
  /\ UNCHANGED <<reputation, guard, feed, stream>>

\* _run_async
BackgroundEnds(x) ==
  /\ req[x].at = "background"
  /\ Moves(x, "done")
  /\ UNCHANGED <<reputation, guard, slots, feed, stream>>
-----------------------------------------------------------------------------
(* /query and /subscribe. *)

\* _handle_query: the snapshot and its stamp take no await, so only the fence leaves a trace.
Query(epoch) ==
  /\ Fenced(epoch)
  /\ FenceEffect(epoch)
  /\ UNCHANGED <<reputation, slots, req, stream>>

\* The cluster changes, or its history no longer reaches back far enough for a subscriber.  Without
\* a subscriber the feed is not looked at.
Event(kind) ==
  /\ Clients(policy) \intersect Streams # {} /\ Len(feed) < MaxFeed
  /\ feed' = Append(feed, TopologyEvent(kind, Len(feed) + 1))
  /\ UNCHANGED <<reputation, guard, slots, req, stream>>

\* _event_payload, _event_to_envelope
WireName == [member |-> "member_joined", anchor_state |-> "anchor_state", resync |-> "resync_required"]
Envelope(event) ==
  [event_type |-> WireName[event.kind], seq |-> IF event.kind = "resync" THEN None ELSE event.version]

\* _parse_event
ParseEvent(line) ==
  LET kind == CHOOSE k \in DOMAIN WireName : WireName[k] = line.event_type
  IN  TopologyEvent(kind, IF line.seq = None THEN 0 ELSE line.seq)

Ack == [status |-> "subscribed"]
ErrorLine == [error |-> "protocol"]
Cut == [error |-> "connection"]

\* _handle_subscribe up to the acknowledgement, from some position of the feed; a fenced
\* subscriber is answered 409, which the client raises.
Subscribe(s, epoch, since) ==
  /\ s \in Clients(policy) /\ stream[s].server = "idle"
  /\ FenceEffect(epoch)
  /\ stream' = [stream EXCEPT ![s] =
                  IF Fenced(epoch) THEN [@ EXCEPT !.server = "ended", !.client = "raised"]
                  ELSE [server |-> "open", from |-> since, pos |-> since, lines |-> <<Ack>>,
                        client |-> "acking", seen |-> <<>>]]
  /\ UNCHANGED <<reputation, slots, req>>

\* Mutant of WriteEvent: what cannot be serialised is left out.
WriteEventSkips(s) ==
  /\ stream[s].server = "open" /\ stream[s].pos < Len(feed)
  /\ LET event == feed[stream[s].pos + 1]
     IN  stream' = [stream EXCEPT
           ![s].pos = @ + 1,
           ![s].lines = IF event.kind = "odd" THEN @ ELSE Append(@, Envelope(event)),
           ![s].server = IF event.kind = "resync" THEN "ended" ELSE @]
  /\ UNCHANGED <<reputation, guard, slots, req, feed>>

\* The next event of the service: a resync is the last line, a subtype that cannot be serialised
\* raises past the finally clause that closes the body.
WriteEvent(s) ==
  /\ stream[s].server = "open" /\ stream[s].pos < Len(feed)
  /\ LET event == feed[stream[s].pos + 1]
     IN  stream' = [stream EXCEPT
           ![s].pos = @ + 1,
           ![s].lines = IF event.kind = "odd" THEN @ ELSE Append(@, Envelope(event)),
           ![s].server = IF event.kind \in {"resync", "odd"} THEN "ended" ELSE @]
  /\ UNCHANGED <<reputation, guard, slots, req, feed>>

\* The service ends the stream, or raises TopologyProtocolError; the body is closed in any case.
EndStream(s, error) ==
  /\ stream[s].server = "open"
  /\ stream' = [stream EXCEPT ![s].server = "ended",
                              ![s].lines = IF error THEN Append(@, ErrorLine) ELSE @]
  /\ UNCHANGED <<reputation, guard, slots, req, feed>>

\* AnchorNodeClient.subscribe: the first line is dropped, an error line or a broken connection
\* raises, a resync is the last event.
ReadLine(s) ==
  /\ stream[s].client \in {"acking", "reading"} /\ stream[s].lines # <<>>
  /\ LET line == Head(stream[s].lines)
         over == line \in {ErrorLine, Cut}
         event == ParseEvent(line)
     IN  stream' = [stream EXCEPT
           ![s].lines = Tail(@),
           ![s].client = IF over THEN "raised"
                         ELSE IF @ = "reading" /\ event.kind = "resync" THEN "over" ELSE "reading",
           ![s].seen = IF stream[s].client = "acking" \/ over THEN @ ELSE Append(@, event)]
  /\ UNCHANGED <<reputation, guard, slots, req, feed>>

\* The body was closed and every line read.
Exhausted(s) ==
  /\ stream[s].client \in {"acking", "reading"} /\ stream[s].lines = <<>> /\ stream[s].server = "ended"
  /\ stream' = [stream EXCEPT ![s].client = "over"]
  /\ UNCHANGED <<reputation, guard, slots, req, feed>>

\* The connection breaks: the next send raises, and so does the client, after the lines it has.
CutOff(s) ==
  /\ stream[s].server = "open"
  /\ \E n \in 0..Len(stream[s].lines) :
       stream' = [stream EXCEPT ![s].server = "ended", ![s].lines = Append(SubSeq(@, 1, n), Cut)]
  /\ UNCHANGED <<reputation, guard, slots, req, feed>>
-----------------------------------------------------------------------------
Invoke(x) ==
  \/ \E agent \in Agents \union {None}, kind \in DOMAIN Actions \union {"unknown"},
        asynchronous \in BOOLEAN, epoch \in 1..MaxEpoch :
       \/ Dismiss(x, agent, kind, asynchronous, epoch)
       \/ \E budget \in Budgets, assurance \in 0..policy.min_assurance, up \in {TRUE, ~policy.enabled} :
            Admit(x, agent, kind, asynchronous, epoch, budget, assurance, up)
  \/ \E delivered \in BOOLEAN : RefusalSent(x, delivered)
  \/ \E how \in {"result", "error", "timeout", "cancelled"} : HandlerEnds(x, how)
  \/ Answered(x) \/ BackgroundEnds(x)

Stream(s) ==
  \/ \E epoch \in 1..MaxEpoch, since \in 0..Len(feed) : Subscribe(s, epoch, since)
  \/ WriteEvent(s) \/ ReadLine(s) \/ Exhausted(s) \/ CutOff(s)
  \/ \E error \in BOOLEAN : EndStream(s, error)

Evaluator ==
  \/ Tick
  \/ \E nid \in Agents : ClearBan(nid) \/ \E i \in Incidents, v \in {2, Critical} : Report(nid, i, v)

Next ==
  \/ \E x \in Requests : Invoke(x)
  \/ \E s \in Streams : Stream(s)
  \/ \E epoch \in 1..MaxEpoch : Query(epoch) \/ TakeOwnership(epoch)
  \/ \E lost \in BOOLEAN : Quorum(lost)
  \/ \E kind \in {"member", "resync", "odd"} : Event(kind)
  \/ Evaluator /\ UNCHANGED <<guard, slots, req, feed, stream>>

Spec == Init /\ [][Next]_vars
-----------------------------------------------------------------------------
(* Properties. *)

\* Every grant of the rate limiter is given back by the request that took it, once, on each of the
\* ways through _handle_invoke (the gates, the handler's result, error, time-out and cancellation);
\* the one way out that keeps it is the refusal of the reputation gate that could not be sent.
SlotsReturned ==
  \A a \in Agents :
    slots[a] = Cardinality({x \in Requests : /\ req[x].agent = a
                                             /\ req[x].at \in {"refusing", "handling", "answering",
                                                               "spawned", "lost"}})

\* A request passes the reputation gate only if its agent is not banned and nothing was reported of
\* it that the policy forbids, but for what the evaluator's cache may hide.
PassesOnReputation ==
  [][\A x \in Requests : req[x].at = "idle" /\ req'[x].at \in {"handling", "spawned"}
       => MayPass(req[x].agent)']_vars

\* A subscriber sees the service's events in order and without a gap, from where it subscribed, and
\* nothing behind a resync (whose version it reads as 0) or behind an event the server cannot write.
StreamFaithful ==
  \A s \in Streams :
    LET sent == SubSeq(feed, stream[s].from + 1, Len(feed))
        seen == stream[s].seen
    IN  /\ Len(seen) <= Len(sent)
        /\ \A i \in 1..Len(seen) :
             /\ seen[i] = IF sent[i].kind = "resync" THEN TopologyEvent("resync", 0) ELSE sent[i]
             /\ sent[i].kind # "odd"
             /\ sent[i].kind = "resync" => i = Len(seen)
=============================================================================
