--------------------------- MODULE LlmActionServer ---------------------------
(***************************************************************************)
(* ActionNodeServer (nwp/action_node_server.py) serving the LLM actions of *)
(* LlmContextActionProvider (nwp/llm_action_server.py) over one context    *)
(* store: unary, asynchronous and streamed llm.complete calls, and         *)
(* llm.context.release, with the node's idempotency cache and task table.  *)
(* The store is LlmContextStore; a reservation is named by its call.       *)
(*                                                                         *)
(* A step is the code between two suspensions of a call.  Calls that are   *)
(* malformed, unknown or denied admission change nothing and are left out. *)
(***************************************************************************)
EXTENDS Integers, FiniteSets, Sequences

CONSTANTS
  Owners, Keys, ContextIds, Bindings, BaseVersions, TtlRequests, SupportedOps, MaxContexts,
  DefaultTtl, MaxTtl, Tombstone, IdemTtl, MaxTime, None,   \* of LlmContextStore
  Calls,     \* HTTP requests
  Workload,  \* what they ask for: context mutations and releases
  Kinds,     \* how llm.complete is asked for
  CacheTtl,  \* options.idempotency_ttl_seconds of the node
  OwnTask    \* TRUE: asyncio.wait_for runs its coroutine in a task of its own (Python 3.11)

ASSUME ServerAssumption ==
  /\ IsFiniteSet(Calls) /\ None \notin Calls
  /\ Kinds \subseteq {"unary", "async", "stream"}
  /\ CacheTtl \in Nat /\ IdemTtl \in Nat /\ OwnTask \in BOOLEAN

VARIABLES
  now, contexts, idempotency, reservations, author,   \* of LlmContextStore
  kind,        \* of each call
  req,         \* what it asks for
  pc,          \* where it is suspended
  reply,       \* what its client got
  task,        \* self._tasks: status of an asynchronous call
  cancelling,  \* task.cancel() was called and has not been delivered
  cache,       \* self._idem
  effect       \* history: when the call changed the store

storeVars == <<now, contexts, idempotency, reservations, author>>
vars == <<now, contexts, idempotency, reservations, author, kind, req, pc, reply, task,
          cancelling, cache, effect>>

Store == INSTANCE LlmContextStore WITH ReservationIds <- Calls

\* llm.context.release requests.
Releases == [op: {"release"}, owner: Owners, key: Keys, context: ContextIds,
             base_version: BaseVersions]

\* Calls ask for mutations the store knows, or for releases.
ASSUME WorkloadAssumption ==
  \A q \in Workload : IF q.op = "release" THEN q \in Releases ELSE q \in Store!Requests

NoTime == -1

\* _scoped_cache_action_id: the cache is keyed by action, caller and idempotency key.
CacheKey(q) == <<q.owner, IF q.op = "release" THEN "release" ELSE "complete", q.key>>

NoCached == [call |-> None, expires_at |-> 0]
Cached(q) == cache[CacheKey(q)].call # None /\ cache[CacheKey(q)].expires_at > now

\* _hash_params: "stream" is one of the parameters, "async" is not.
SameParams(y, k, q) == req[y] = q /\ (kind[y] = "stream" <=> k = "stream")

\* InMemoryIdempotencyCache.try_store, whose result nobody looks at.
Remember(x, q) ==
  cache' = IF Cached(q) THEN cache
           ELSE [cache EXCEPT ![CacheKey(q)] = [call |-> x, expires_at |-> now + CacheTtl]]

TaskOver == {"completed", "failed", "cancelled"}

\* InMemoryActionTaskStore.complete and fail: never over a terminal status.
Settle(x, status) ==
  task' = IF kind[x] = "async" /\ task[x] \notin TaskOver THEN [task EXCEPT ![x] = status]
                                                          ELSE task
-----------------------------------------------------------------------------
\* Where each call is, and the tables of the node, keep their types.
TypeOK ==
  /\ Store!TypeOK
  /\ kind \in [Calls -> Kinds \union {None}]
  /\ \A x \in Calls : req[x] \in Workload \union {None}
  /\ pc \in [Calls -> {"new", "scheduled", "providing", "authorizing", "answered", "unopened",
                       "streaming", "confirming", "sending", "done", "dropped"}]
  /\ reply \in [Calls -> {"none", "accepted", "ok", "error", "replayed", "conflict", "lost"}]
  /\ task \in [Calls -> TaskOver \union {"none", "pending", "running"}]
  /\ cancelling \in [Calls -> BOOLEAN]
  /\ cache \in [Store!IdemKeys -> [call: Calls \union {None}, expires_at: Nat]]
  /\ effect \in [Calls -> Nat \union {NoTime}]

Init ==
  /\ Store!Init
  /\ kind = [x \in Calls |-> None] /\ req = [x \in Calls |-> None]
  /\ pc = [x \in Calls |-> "new"] /\ reply = [x \in Calls |-> "none"]
  /\ task = [x \in Calls |-> "none"] /\ cancelling = [x \in Calls |-> FALSE]
  /\ cache = [k \in Store!IdemKeys |-> NoCached]
  /\ effect = [x \in Calls |-> NoTime]
-----------------------------------------------------------------------------
(* How a call goes on. *)

Goto(x, l) == pc' = [pc EXCEPT ![x] = l]
Reply(x, r) == reply' = [reply EXCEPT ![x] = IF reply[x] = "none" THEN r ELSE reply[x]]

\* Mutant of Fail: the failure is cached like a result.
FailRemembered(x) ==
  /\ Goto(x, "done") /\ Reply(x, "error") /\ Settle(x, "failed")
  /\ Remember(x, req[x])
  /\ UNCHANGED <<kind, req, cancelling, effect>>

\* The call ends without a result: error response, or a failed task.
Fail(x) ==
  /\ Goto(x, "done") /\ Reply(x, "error") /\ Settle(x, "failed")
  /\ UNCHANGED <<kind, req, cancelling, cache, effect>>

\* Mutant of AbortAndFail: the reservation is dropped behind the store's back.
DropAndFail(x) ==
  /\ reservations' = [reservations EXCEPT ![x] = Store!NoReservation]
  /\ UNCHANGED <<now, contexts, idempotency, author>>
  /\ Fail(x)

\* _abort, and the exception or error that goes with it.
AbortAndFail(x) == Store!Abort(x) /\ Fail(x)

\* The store's commit; c is the context it writes.
Commits(x) ==
  /\ \E c \in ContextIds : Store!Commit(x, c)
  /\ effect' = [effect EXCEPT ![x] = now]
-----------------------------------------------------------------------------
(* The actions. *)

\* _handle_invoke after the admission check, up to the provider's coroutine.
Invoke(x, k, q) ==
  /\ pc[x] = "new"
  /\ q.op = "release" => k = "unary"
  /\ kind' = [kind EXCEPT ![x] = k]
  /\ req' = [req EXCEPT ![x] = q]
  /\ \/ /\ Cached(q)
        /\ Goto(x, "done")
        /\ Reply(x, IF SameParams(cache[CacheKey(q)].call, k, q) THEN "replayed" ELSE "conflict")
        /\ UNCHANGED <<task, cache>>
     \/ /\ ~Cached(q) /\ k = "async"
        /\ task' = [task EXCEPT ![x] = "pending"]
        /\ Remember(x, q)
        /\ Goto(x, "scheduled") /\ Reply(x, "accepted")
     \/ /\ ~Cached(q) /\ k # "async"
        /\ Goto(x, "scheduled")
        /\ UNCHANGED <<task, reply, cache>>
  /\ UNCHANGED <<storeVars, cancelling, effect>>

\* A cancellation reaches the coroutine at its next resumption; where wait_for runs it in a
\* task of its own the coroutine may be resumed with its result first.
Resumable(x) == ~cancelling[x] \/ OwnTask

\* What the store decides about a request.
Granted(q) ==
  LET cs == Store!SweepContexts(contexts)
      is == Store!SweepOutcomes(idempotency)
  IN  IF q.op = "release"
        THEN /\ "release" \in SupportedOps
             /\ is[Store!OfRelease(q.owner, q.key)].state = "absent"
             /\ Store!Mutable(cs, q.owner, q.context, q.base_version)
        ELSE Store!Admissible(cs, is, q)

\* First step of the provider's coroutine: a release is carried out, a mutation reserved,
\* or the store refuses.
Begin(x) ==
  /\ pc[x] = "scheduled" /\ Resumable(x)
  /\ \/ /\ req[x].op = "release"
        /\ Store!Release(req[x].owner, req[x].context, req[x].base_version, req[x].key)
        /\ effect' = [effect EXCEPT ![x] = now]
        /\ Goto(x, "answered")
        /\ UNCHANGED <<kind, req, reply, task, cancelling, cache>>
     \/ /\ req[x].op # "release"
        /\ Store!Reserve(req[x], x)
        /\ Goto(x, "providing")
        /\ Settle(x, "running")
        /\ UNCHANGED <<kind, req, reply, cancelling, cache, effect>>
     \/ /\ ~Granted(req[x])
        /\ Store!Sweep
        /\ Fail(x)

\* The inner provider answers: a usable result, a stream, or anything else.
ProviderAnswers(x, good) ==
  /\ pc[x] = "providing" /\ Resumable(x)
  /\ \/ /\ good
        /\ Goto(x, IF kind[x] = "stream" THEN "unopened" ELSE "authorizing")
        /\ UNCHANGED <<storeVars, kind, req, reply, task, cancelling, cache, effect>>
     \/ ~good /\ AbortAndFail(x)

\* Mutant of Authorized: a denied commit is not aborted.
AuthorizedNoAbort(x, allowed) ==
  /\ pc[x] = "authorizing" /\ Resumable(x)
  /\ \/ /\ allowed
        /\ Commits(x)
        /\ Goto(x, "answered")
        /\ UNCHANGED <<kind, req, reply, task, cancelling, cache>>
     \/ ~allowed /\ Fail(x) /\ UNCHANGED storeVars

\* Mutant of Authorized: the commit comes before the answer.
AuthorizedLate(x, allowed) ==
  /\ pc[x] = "authorizing" /\ Resumable(x)
  /\ Commits(x)
  /\ IF allowed THEN Goto(x, "answered") /\ UNCHANGED <<reply, task>>
                ELSE Goto(x, "done") /\ Reply(x, "error") /\ Settle(x, "failed")
  /\ UNCHANGED <<kind, req, cancelling, cache>>

\* The COMMIT authorization of a unary or asynchronous call.
Authorized(x, allowed) ==
  /\ pc[x] = "authorizing" /\ Resumable(x)
  /\ \/ /\ allowed
        /\ Commits(x)
        /\ Goto(x, "answered")
        /\ UNCHANGED <<kind, req, reply, task, cancelling, cache>>
     \/ ~allowed /\ AbortAndFail(x)

\* Mutant of Finish: the task is not settled.
FinishUnsettled(x) ==
  /\ pc[x] = "answered"
  /\ Goto(x, "done") /\ Reply(x, "ok")
  /\ IF kind[x] = "async" THEN UNCHANGED cache ELSE Remember(x, req[x])
  /\ UNCHANGED <<storeVars, kind, req, task, cancelling, effect>>

\* The node takes the provider's result: cache and response, or the task's status.
Finish(x) ==
  /\ pc[x] = "answered"
  /\ Goto(x, "done") /\ Reply(x, "ok") /\ Settle(x, "completed")
  /\ IF kind[x] = "async" THEN UNCHANGED cache ELSE Remember(x, req[x])
  /\ UNCHANGED <<storeVars, kind, req, cancelling, effect>>

\* The time-out of wait_for, or the end of the client's connection, cancels the coroutine.
Interrupted(x) ==
  /\ pc[x] \in {"scheduled", "providing", "authorizing"} /\ ~cancelling[x]
  /\ \/ pc[x] = "scheduled" /\ Fail(x) /\ UNCHANGED storeVars
     \/ pc[x] # "scheduled" /\ AbortAndFail(x)

\* Mutant of CancelTask: the background task is not cancelled.
CancelStatusOnly(x) ==
  /\ task[x] \in {"pending", "running"}
  /\ task' = [task EXCEPT ![x] = "cancelled"]
  /\ UNCHANGED <<storeVars, kind, req, pc, reply, cancelling, cache, effect>>

\* Mutant of CancelTask: no test that the task is still running.
CancelAnytime(x) ==
  /\ task[x] # "none"
  /\ task' = [task EXCEPT ![x] = "cancelled"]
  /\ cancelling' = [cancelling EXCEPT ![x] = pc[x] # "done"]
  /\ UNCHANGED <<storeVars, kind, req, pc, reply, cache, effect>>

\* system.task.cancel: the status at once, the coroutine when it is resumed.
CancelTask(x) ==
  /\ task[x] \in {"pending", "running"}
  /\ pc[x] = "answered" => OwnTask
  /\ task' = [task EXCEPT ![x] = "cancelled"]
  /\ cancelling' = [cancelling EXCEPT ![x] = TRUE]
  /\ UNCHANGED <<storeVars, kind, req, pc, reply, cache, effect>>

CancelDelivered(x) ==
  /\ cancelling[x]
  /\ \/ /\ pc[x] \in {"providing", "authorizing"}
        /\ Store!Abort(x)
     \/ /\ pc[x] \in {"scheduled", "answered"}
        /\ UNCHANGED storeVars
  /\ Goto(x, "done")
  /\ cancelling' = [cancelling EXCEPT ![x] = FALSE]
  /\ UNCHANGED <<kind, req, reply, task, cache, effect>>

\* _send_stream sends the response head before it touches the stream; when that fails the
\* generator of _coordinate_stream has not started and its finally clause never runs.
StreamOpens(x, sent) ==
  /\ pc[x] = "unopened"
  /\ \/ sent /\ Goto(x, "streaming") /\ UNCHANGED reply
     \/ ~sent /\ Goto(x, "dropped") /\ Reply(x, "lost")
  /\ UNCHANGED <<storeVars, kind, req, task, cancelling, cache, effect>>

\* The terminal frame; anything wrong with a frame before, or with the sequence, is ~good.
StreamEnds(x, good) ==
  /\ pc[x] = "streaming"
  /\ \/ /\ good
        /\ Goto(x, "confirming")
        /\ UNCHANGED <<storeVars, kind, req, reply, task, cancelling, cache, effect>>
     \/ ~good /\ AbortAndFail(x)

\* The client goes away: closing the generator runs its finally clause.
StreamBreaks(x) ==
  /\ pc[x] \in {"streaming", "confirming"}
  /\ Store!Abort(x)
  /\ Goto(x, "done") /\ Reply(x, "lost")
  /\ UNCHANGED <<kind, req, task, cancelling, cache, effect>>

\* The COMMIT authorization of a stream.  _send_stream looks at the terminal frame's
\* sequence number only after the commit.
StreamAuthorized(x, allowed, in_sequence) ==
  /\ pc[x] = "confirming"
  /\ \/ /\ allowed
        /\ Commits(x)
        /\ IF in_sequence THEN Goto(x, "sending") /\ UNCHANGED reply
                          ELSE Goto(x, "done") /\ Reply(x, "error")
        /\ UNCHANGED <<kind, req, task, cancelling, cache>>
     \/ ~allowed /\ AbortAndFail(x)

\* The terminal frame with the receipt is sent, and the stream cached; or it is lost.
StreamSent(x, sent) ==
  /\ pc[x] = "sending"
  /\ Goto(x, "done") /\ Reply(x, IF sent THEN "ok" ELSE "lost")
  /\ IF sent THEN Remember(x, req[x]) ELSE UNCHANGED cache
  /\ UNCHANGED <<storeVars, kind, req, task, cancelling, effect>>

\* status calls, and time.
Background ==
  /\ Store!Sweep \/ Store!Tick
  /\ UNCHANGED <<kind, req, pc, reply, task, cancelling, cache, effect>>

Step(x) ==
  \/ Begin(x)
  \/ \E good \in BOOLEAN : ProviderAnswers(x, good)
  \/ \E allowed \in BOOLEAN : Authorized(x, allowed)
  \/ Finish(x)
  \/ Interrupted(x)
  \/ CancelDelivered(x)
  \/ \E sent \in BOOLEAN : StreamOpens(x, sent)
  \/ \E good \in BOOLEAN : StreamEnds(x, good)
  \/ StreamBreaks(x)
  \/ \E allowed, in_sequence \in BOOLEAN : StreamAuthorized(x, allowed, in_sequence)
  \/ \E sent \in BOOLEAN : StreamSent(x, sent)

Next ==
  \/ \E x \in Calls, k \in Kinds, q \in Workload : Invoke(x, k, q)
  \/ \E x \in Calls : Step(x) \/ CancelTask(x)
  \/ Background

Spec == Init /\ [][Next]_vars

\* asyncio runs what can run; wait_for bounds the provider, and a stream ends or breaks.
FairSpec == Spec /\ \A x \in Calls : WF_vars(Step(x))
-----------------------------------------------------------------------------
(* Properties. *)

\* The node changes the store by the store's own operations only, so everything proved of
\* LlmContextStore holds inside the node.
UsesStore == Store!Spec

Committed(x) == effect[x] # NoTime
Held(x) == reservations[x].op # "none"

\* A call holds a reservation exactly while it is under way: every exit of _complete and
\* _coordinate_stream has committed or aborted it, but for the stream that is never opened.
HeldWhileRunning ==
  \A x \in Calls : Held(x) <=> pc[x] \in {"providing", "authorizing", "unopened", "streaming",
                                         "confirming", "dropped"}

\* A caller is told the truth: success means the store was changed; an error, to a unary or
\* asynchronous caller, that it was not.  (A stream may end with an error after its commit:
\* _send_stream looks at the terminal frame's sequence number only then.)
RepliesTruthful ==
  \A x \in Calls :
    /\ reply[x] = "ok" \/ task[x] = "completed" => Committed(x)
    /\ kind[x] # "stream" /\ pc[x] = "done" /\ (reply[x] = "error" \/ task[x] = "failed")
         => ~Committed(x)

\* Two calls with one idempotency key change the store both only when the store may have
\* forgotten the first, although both may have missed the node's cache.
OncePerKey ==
  \A x, y \in Calls :
    /\ x # y /\ Committed(x) /\ Committed(y) /\ CacheKey(req[x]) = CacheKey(req[y])
    => effect[x] - effect[y] >= IdemTtl \/ effect[y] - effect[x] >= IdemTtl

\* What the node replays for a key was done: the cached call changed the store, or it is an
\* asynchronous call whose task the client may follow.
ReplaysWhatHappened ==
  \A k \in Store!IdemKeys :
    LET x == cache[k].call
    IN  x # None => /\ CacheKey(req[x]) = k
                    /\ Committed(x) \/ (kind[x] = "async" /\ task[x] # "none")

\* An idempotency key stands for one effect: it is not repeated while the store remembers it, and
\* the node's cache, looked up before and filled after the provider is awaited, replays only what
\* happened (_handle_invoke).
Idempotent == OncePerKey /\ ReplaysWhatHappened

\* After system.task.cancel has answered, the call does not change the store any more.
CancelledNeverCommits ==
  [][\A x \in Calls : task[x] = "cancelled" => effect'[x] = effect[x]]_vars

\* A task's terminal status is final, and a running task does not go back.
TaskStatusFinal ==
  [][\A x \in Calls : /\ task[x] \in TaskOver => task'[x] = task[x]
                      /\ task[x] = "running" => task'[x] # "pending"]_vars

\* Every call that is let in comes to an end, and with it its task.
CallsEnd ==
  \A x \in Calls : pc[x] = "scheduled" ~> (pc[x] \in {"done", "dropped"}
                                           /\ (kind[x] = "async" => task[x] \in TaskOver))
=============================================================================
