------------------------ MODULE LlmActionServerProofs ------------------------
(* Proofs about LlmActionServer. *)
EXTENDS LlmActionServer, TLAPS

\* A call that was let in asks for something of the workload.
Asked == /\ \A x \in Calls : pc[x] # "new" => req[x] \in Workload
         /\ pc = [x \in Calls |-> pc[x]] /\ req = [x \in Calls |-> req[x]]

\* Nobody has asked at the start.
LEMMA AskedInit == Init => Asked
BY DEF Init, Asked

\* Only Invoke records a request, and it takes it from the workload.
LEMMA AskedStep == Asked /\ [Next]_vars => Asked'
<1> SUFFICES ASSUME Asked, [Next]_vars PROVE Asked'
  OBVIOUS
<1>1. ASSUME NEW x \in Calls, NEW k \in Kinds, NEW q \in Workload, Invoke(x, k, q) PROVE Asked'
  BY <1>1 DEF Asked, Invoke, Goto
<1>2. ASSUME NEW x \in Calls, pc[x] # "new", req' = req, NEW l, l # "new", Goto(x, l) PROVE Asked'
  BY <1>2 DEF Asked, Goto
<1>3. ASSUME pc' = pc, req' = req PROVE Asked'
  BY <1>3 DEF Asked
<1>4. ASSUME NEW x \in Calls, Step(x) PROVE Asked'
  BY Zenon, <1>2, <1>4 DEF Step, Begin, ProviderAnswers, Authorized, Finish, Interrupted, CancelDelivered,
     StreamOpens, StreamEnds, StreamBreaks, StreamAuthorized, StreamSent, AbortAndFail, Fail
<1> QED
  BY <1>1, <1>3, <1>4 DEF Next, CancelTask, Background, vars

\* The store's variables change by one of the store's operations.
StoreStep ==
  \/ UNCHANGED storeVars
  \/ \E x \in Calls : Store!Abort(x)
  \/ \E x \in Calls, c \in ContextIds : Store!Commit(x, c)
  \/ \E x \in Calls : req[x] \in Workload /\ req[x].op # "release" /\ Store!Reserve(req[x], x)
  \/ \E x \in Calls : /\ req[x] \in Workload /\ req[x].op = "release"
                      /\ Store!Release(req[x].owner, req[x].context, req[x].base_version, req[x].key)
  \/ Store!Sweep
  \/ Store!Tick

\* Every step of the node is such a step.
LEMMA TouchesStore == Asked /\ [Next]_vars => StoreStep
<1> SUFFICES ASSUME Asked, [Next]_vars PROVE StoreStep
  OBVIOUS
<1>1. ASSUME NEW x \in Calls, AbortAndFail(x) PROVE StoreStep
  BY <1>1 DEF AbortAndFail, StoreStep
<1>2. ASSUME NEW x \in Calls, Commits(x) PROVE StoreStep
  BY <1>2 DEF Commits, StoreStep
<1>3. ASSUME NEW x \in Calls, Begin(x) PROVE StoreStep
  BY <1>3 DEF Begin, Asked, StoreStep
<1>4. ASSUME NEW x \in Calls, Step(x) PROVE StoreStep
  <2>1. CASE \E good \in BOOLEAN : ProviderAnswers(x, good)
    BY <1>1, <2>1 DEF ProviderAnswers, StoreStep
  <2>2. CASE \E allowed \in BOOLEAN : Authorized(x, allowed)
    BY <1>1, <1>2, <2>2 DEF Authorized
  <2>3. CASE Interrupted(x)
    BY <1>1, <2>3 DEF Interrupted, StoreStep
  <2>4. CASE CancelDelivered(x)
    BY <2>4 DEF CancelDelivered, StoreStep
  <2>5. CASE \E good \in BOOLEAN : StreamEnds(x, good)
    BY <1>1, <2>5 DEF StreamEnds, StoreStep
  <2>6. CASE StreamBreaks(x)
    BY <2>6 DEF StreamBreaks, StoreStep
  <2>7. CASE \E allowed, in_sequence \in BOOLEAN : StreamAuthorized(x, allowed, in_sequence)
    BY <1>1, <1>2, <2>7 DEF StreamAuthorized
  <2>8. CASE Finish(x) \/ \E sent \in BOOLEAN : StreamOpens(x, sent) \/ StreamSent(x, sent)
    BY <2>8 DEF Finish, StreamOpens, StreamSent, StoreStep
  <2> QED
    BY <1>3, <1>4, <2>1, <2>2, <2>3, <2>4, <2>5, <2>6, <2>7, <2>8 DEF Step
<1>5. ASSUME NEW x \in Calls, NEW k \in Kinds, NEW q \in Workload, Invoke(x, k, q) PROVE StoreStep
  BY <1>5 DEF Invoke, StoreStep
<1>6. ASSUME NEW x \in Calls, CancelTask(x) PROVE StoreStep
  BY <1>6 DEF CancelTask, StoreStep
<1>7. CASE Background
  BY <1>7 DEF Background, StoreStep
<1>8. CASE UNCHANGED vars
  BY <1>8 DEF vars, storeVars, StoreStep
<1> QED
  BY <1>4, <1>5, <1>6, <1>7, <1>8 DEF Next

\* The node implements the context store: it changes it by the store's operations only, each
\* with arguments the store's specification allows.
THEOREM Implements == Spec => UsesStore
<1>1. Init => Store!Init
  BY DEF Init
<1>2. Asked /\ [Next]_vars => [Store!Next]_(Store!vars)
  <2> SUFFICES ASSUME Asked, [Next]_vars, StoreStep PROVE [Store!Next]_(Store!vars)
    BY TouchesStore
  <2>1. ASSUME NEW x \in Calls, req[x] \in Workload, req[x].op # "release", Store!Reserve(req[x], x)
        PROVE Store!Next
    BY <2>1, WorkloadAssumption DEF Store!Next
  <2>2. ASSUME NEW x \in Calls, req[x] \in Workload, req[x].op = "release",
               Store!Release(req[x].owner, req[x].context, req[x].base_version, req[x].key)
        PROVE Store!Next
    <3>1. req[x] \in Releases
      BY <2>2, WorkloadAssumption
    <3>2. /\ req[x].owner \in Owners /\ req[x].context \in ContextIds
          /\ req[x].base_version \in BaseVersions /\ req[x].key \in Keys
      BY <3>1 DEF Releases
    <3> QED
      BY <2>2, <3>2 DEF Store!Next
  <2> QED
    BY <2>1, <2>2 DEF StoreStep, Store!Next, Store!vars, storeVars
<1> QED
  BY <1>1, <1>2, AskedInit, AskedStep, PTL DEF Spec, UsesStore, Store!Spec
-----------------------------------------------------------------------------
(* Reservations. *)

HeldInv == HeldWhileRunning /\ Asked /\ reservations = [x \in Calls |-> reservations[x]]

\* A step of the node keeps HeldInv: each exit of _complete and _coordinate_stream ends the
\* reservation in the same step.
LEMMA HeldStep == HeldInv /\ [Next]_vars => HeldInv'
<1> SUFFICES ASSUME HeldInv, [Next]_vars PROVE HeldInv'
  OBVIOUS
<1>0. Asked'
  BY AskedStep DEF HeldInv
<1>1. ASSUME NEW x \in Calls, NEW l, Goto(x, l), reservations' = reservations,
             Held(x) <=> l \in {"providing", "authorizing", "unopened", "streaming",
                                "confirming", "dropped"}
      PROVE HeldInv'
  BY <1>0, <1>1 DEF HeldInv, HeldWhileRunning, Held, Goto, Asked
<1>2. ASSUME NEW x \in Calls, NEW l, Goto(x, l), l \in {"done", "answered", "sending"},
             reservations' = [reservations EXCEPT ![x] = Store!NoReservation]
      PROVE HeldInv'
  BY <1>0, <1>2 DEF HeldInv, HeldWhileRunning, Held, Goto, Asked, Store!NoReservation
<1>3. ASSUME NEW x \in Calls, AbortAndFail(x) PROVE HeldInv'
  BY Zenon, <1>2, <1>3 DEF AbortAndFail, Fail, Store!Abort
<1>4. ASSUME NEW x \in Calls, Commits(x) PROVE reservations' = [reservations EXCEPT ![x] = Store!NoReservation]
  BY <1>4 DEF Commits, Store!Commit
<1>5. ASSUME reservations' = reservations, pc' = pc PROVE HeldInv'
  BY <1>0, <1>5 DEF HeldInv, HeldWhileRunning, Held
<1>6. ASSUME NEW x \in Calls, Begin(x) PROVE HeldInv'
  <2>1. req[x] \in Workload /\ ~Held(x)
    BY <1>6 DEF Begin, HeldInv, HeldWhileRunning, Asked
  <2>2. CASE /\ req[x].op # "release" /\ Store!Reserve(req[x], x) /\ Goto(x, "providing")
    <3>1. req[x].op # "none"
      BY <2>1, <2>2, WorkloadAssumption DEF Store!Requests
    <3>2. /\ reservations' = [reservations EXCEPT ![x] = reservations'[x]]
          /\ reservations'[x].op = req[x].op
      BY <2>2 DEF Store!Reserve, Store!NewReservation, HeldInv
    <3> QED
      BY <1>0, <2>2, <3>1, <3>2 DEF HeldInv, HeldWhileRunning, Held, Goto, Asked
  <2> QED
    BY Zenon, <1>1, <1>6, <2>1, <2>2 DEF Begin, Store!Release, Store!Sweep, Fail
<1>7. ASSUME NEW x \in Calls, Step(x) PROVE HeldInv'
  <2>1. CASE \E good \in BOOLEAN : ProviderAnswers(x, good)
    BY <1>1, <1>3, <2>1 DEF ProviderAnswers, storeVars, HeldInv, HeldWhileRunning
  <2>2. CASE \E allowed \in BOOLEAN : Authorized(x, allowed)
    BY <1>2, <1>3, <1>4, <2>2 DEF Authorized
  <2>3. CASE Interrupted(x)
    BY <1>1, <1>3, <2>3 DEF Interrupted, Fail, storeVars, HeldInv, HeldWhileRunning
  <2>4. CASE CancelDelivered(x)
    BY <1>1, <1>2, <2>4 DEF CancelDelivered, Store!Abort, storeVars, HeldInv, HeldWhileRunning
  <2>5. CASE \E good \in BOOLEAN : StreamEnds(x, good)
    BY <1>1, <1>3, <2>5 DEF StreamEnds, storeVars, HeldInv, HeldWhileRunning
  <2>6. CASE StreamBreaks(x)
    BY Zenon, <1>2, <2>6 DEF StreamBreaks, Store!Abort
  <2>7. CASE \E allowed, in_sequence \in BOOLEAN : StreamAuthorized(x, allowed, in_sequence)
    BY <1>2, <1>3, <1>4, <2>7 DEF StreamAuthorized
  <2>8. CASE Finish(x) \/ \E sent \in BOOLEAN : StreamOpens(x, sent) \/ StreamSent(x, sent)
    BY <1>1, <2>8 DEF Finish, StreamOpens, StreamSent, storeVars, HeldInv, HeldWhileRunning
  <2> QED
    BY <1>6, <1>7, <2>1, <2>2, <2>3, <2>4, <2>5, <2>6, <2>7, <2>8 DEF Step
<1>8. ASSUME NEW x \in Calls, NEW k \in Kinds, NEW q \in Workload, Invoke(x, k, q) PROVE HeldInv'
  BY <1>1, <1>8 DEF Invoke, storeVars, HeldInv, HeldWhileRunning
<1> QED
  BY <1>5, <1>7, <1>8 DEF Next, CancelTask, Background, Store!Sweep, Store!Tick, storeVars, vars

\* A call holds a reservation exactly while it is under way.
THEOREM HeldSafe == Spec => []HeldWhileRunning
<1>1. Init => HeldInv
  BY AskedInit DEF Init, Store!Init, Store!NoReservation, HeldInv, HeldWhileRunning, Held
<1>2. HeldInv => HeldWhileRunning
  BY DEF HeldInv
<1> QED
  BY <1>1, <1>2, HeldStep, PTL DEF Spec
-----------------------------------------------------------------------------
(* What a caller is told, and tasks. *)

AsFunctions ==
  /\ pc = [x \in Calls |-> pc[x]] /\ kind = [x \in Calls |-> kind[x]]
  /\ reply = [x \in Calls |-> reply[x]] /\ task = [x \in Calls |-> task[x]]
  /\ cancelling = [x \in Calls |-> cancelling[x]] /\ effect = [x \in Calls |-> effect[x]]

Ongoing == {"new", "scheduled", "providing", "authorizing", "answered"}
Streaming == {"unopened", "streaming", "confirming", "sending", "dropped"}

\* What holds of one call: streams keep to their own states and have no task, the store is
\* changed on the way to "answered" or "sending" and nowhere else, and nothing is reported before "done".
CallInv(x) ==
  /\ pc[x] = "new" => task[x] = "none"
  /\ task[x] # "none" => kind[x] = "async"
  /\ pc[x] \in Streaming => kind[x] = "stream"
  /\ pc[x] \in Ongoing \ {"answered"} => effect[x] = NoTime
  /\ pc[x] \in {"answered", "sending"} => effect[x] \in Nat
  /\ pc[x] # "done" => reply[x] # "ok"
  /\ pc[x] \in Ongoing => /\ reply[x] \in {"none", "accepted"}
                          /\ task[x] \notin {"completed", "failed"}
  /\ pc[x] \in Ongoing \union Streaming \union {"done"}
  /\ ~OwnTask => (task[x] = "cancelled" => cancelling[x] \/ pc[x] = "done")

TruthInv == now \in Nat /\ AsFunctions /\ RepliesTruthful /\ \A x \in Calls : CallInv(x)

\* Call y is as it was.
Untouched(y) ==
  /\ pc'[y] = pc[y] /\ kind'[y] = kind[y] /\ reply'[y] = reply[y] /\ task'[y] = task[y]
  /\ cancelling'[y] = cancelling[y] /\ effect'[y] = effect[y]

\* RepliesTruthful for one call.
Truthful(x) ==
  /\ reply[x] = "ok" \/ task[x] = "completed" => Committed(x)
  /\ kind[x] # "stream" /\ pc[x] = "done" /\ (reply[x] = "error" \/ task[x] = "failed")
       => ~Committed(x)

\* A step of call x keeps what holds of x, leaves the other calls alone, changes the store
\* on behalf of x only when x was not cancelled, and never takes back a terminal status.
StepOK(x) ==
  /\ AsFunctions' /\ now' \in Nat
  /\ CallInv(x)' /\ Truthful(x)'
  /\ \A y \in Calls \ {x} : Untouched(y)
  /\ ~OwnTask => (task[x] = "cancelled" => effect'[x] = effect[x])
  /\ task[x] \in TaskOver => task'[x] = task[x]
  /\ task[x] = "running" => task'[x] # "pending"

\* Each action of a call does so.
LEMMA CallStep == ASSUME TruthInv, NEW x \in Calls,
                         Step(x) \/ CancelTask(x) \/ \E k \in Kinds, q \in Workload : Invoke(x, k, q)
                  PROVE  StepOK(x)
<1> USE DEF StepOK, TruthInv, AsFunctions, CallInv, Truthful, RepliesTruthful, Committed, Untouched,
            Ongoing, Streaming, TaskOver, NoTime, Goto, Reply, Settle
<1>1. ASSUME AbortAndFail(x), pc[x] \in {"providing", "authorizing", "streaming", "confirming"}
      PROVE StepOK(x)
  BY Zenon, <1>1 DEF AbortAndFail, Fail, Store!Abort
<1>2. ASSUME Begin(x) PROVE StepOK(x)
  <2>1. CASE Store!Release(req[x].owner, req[x].context, req[x].base_version, req[x].key)
             /\ effect' = [effect EXCEPT ![x] = now] /\ Goto(x, "answered")
             /\ UNCHANGED <<kind, req, reply, task, cancelling, cache>>
    BY Zenon, <1>2, <2>1 DEF Begin, Resumable, Store!Release
  <2>2. CASE Store!Reserve(req[x], x) /\ Goto(x, "providing") /\ Settle(x, "running")
             /\ UNCHANGED <<kind, req, reply, cancelling, cache, effect>>
    BY Zenon, <1>2, <2>2 DEF Begin, Resumable, Store!Reserve
  <2>3. CASE Store!Sweep /\ Fail(x)
    BY Zenon, <1>2, <2>3 DEF Begin, Resumable, Store!Sweep, Fail
  <2> QED
    BY Zenon, <1>2, <2>1, <2>2, <2>3 DEF Begin
<1>3. ASSUME NEW good \in BOOLEAN, ProviderAnswers(x, good) PROVE StepOK(x)
  BY <1>1, <1>3 DEF ProviderAnswers, Resumable, storeVars
<1>4. ASSUME NEW allowed \in BOOLEAN, Authorized(x, allowed) PROVE StepOK(x)
  <2>1. CASE AbortAndFail(x)
    BY Zenon, <1>1, <1>4, <2>1 DEF Authorized, Resumable
  <2>2. CASE ~AbortAndFail(x)
    BY <1>4, <2>2 DEF Authorized, Resumable, Commits, Store!Commit
  <2> QED
    BY Zenon, <2>1, <2>2
<1>5. ASSUME Finish(x) PROVE StepOK(x)
  <2>1. /\ pc[x] = "answered" /\ effect[x] \in Nat /\ task[x] \notin {"completed", "failed"}
        /\ Goto(x, "done") /\ Reply(x, "ok") /\ Settle(x, "completed")
        /\ kind' = kind /\ cancelling' = cancelling /\ effect' = effect /\ now' = now
    BY Zenon, <1>5 DEF Finish, storeVars
  <2>2. AsFunctions' /\ now' \in Nat /\ \A y \in Calls \ {x} : Untouched(y)
    BY Zenon, <2>1
  <2>3. CallInv(x)'
    BY Zenon, <2>1
  <2>4. Truthful(x)'
    BY <2>1
  <2>5. QED
    BY Zenon, <2>1, <2>2, <2>3, <2>4
<1>6. ASSUME Interrupted(x) PROVE StepOK(x)
  <2>1. CASE pc[x] = "scheduled"
    BY <1>6, <2>1 DEF Interrupted, Fail, storeVars
  <2>2. CASE pc[x] # "scheduled"
    BY Zenon, <1>1, <1>6, <2>2 DEF Interrupted
  <2> QED
    BY Zenon, <2>1, <2>2
<1>7. ASSUME CancelDelivered(x) PROVE StepOK(x)
  BY Zenon, <1>7 DEF CancelDelivered, Store!Abort, storeVars
<1>8. ASSUME NEW sent \in BOOLEAN, StreamOpens(x, sent) \/ StreamSent(x, sent) PROVE StepOK(x)
  <2>1. CASE StreamOpens(x, sent)
    BY <2>1 DEF StreamOpens, storeVars
  <2>2. CASE StreamSent(x, sent)
    <3>1. /\ pc[x] = "sending" /\ kind[x] = "stream" /\ task[x] = "none" /\ effect[x] \in Nat
          /\ Goto(x, "done") /\ (Reply(x, "ok") \/ Reply(x, "lost"))
          /\ kind' = kind /\ task' = task /\ cancelling' = cancelling /\ effect' = effect /\ now' = now
      BY Zenon, <2>2 DEF StreamSent, storeVars
    <3>2. AsFunctions' /\ now' \in Nat /\ \A y \in Calls \ {x} : Untouched(y)
      BY Zenon, <3>1
    <3>3. CallInv(x)'
      BY Zenon, <3>1
    <3>4. Truthful(x)'
      BY <3>1
    <3>5. QED
      BY Zenon, <3>1, <3>2, <3>3, <3>4
  <2> QED
    BY Zenon, <1>8, <2>1, <2>2
<1>9. ASSUME NEW good \in BOOLEAN, StreamEnds(x, good) PROVE StepOK(x)
  <2>1. CASE AbortAndFail(x)
    BY Zenon, <1>1, <1>9, <2>1 DEF StreamEnds
  <2>2. CASE ~AbortAndFail(x)
    BY <1>9, <2>2 DEF StreamEnds, storeVars
  <2> QED
    BY Zenon, <2>1, <2>2
<1>10. ASSUME StreamBreaks(x) PROVE StepOK(x)
  BY Zenon, <1>10 DEF StreamBreaks, Store!Abort
<1>11. ASSUME NEW allowed \in BOOLEAN, NEW in_sequence \in BOOLEAN,
              StreamAuthorized(x, allowed, in_sequence)
       PROVE StepOK(x)
  <2>1. CASE AbortAndFail(x)
    BY Zenon, <1>1, <1>11, <2>1 DEF StreamAuthorized
  <2>2. CASE ~AbortAndFail(x)
    <3>1. /\ pc[x] = "confirming" /\ kind[x] = "stream" /\ task[x] = "none"
          /\ effect' = [effect EXCEPT ![x] = now]
          /\ \/ Goto(x, "sending") /\ reply' = reply
             \/ Goto(x, "done") /\ Reply(x, "error")
          /\ kind' = kind /\ task' = task /\ cancelling' = cancelling /\ now' = now
      BY Zenon, <1>11, <2>2 DEF StreamAuthorized, Commits, Store!Commit
    <3>2. AsFunctions' /\ now' \in Nat /\ \A y \in Calls \ {x} : Untouched(y)
      BY Zenon, <3>1
    <3>3. CallInv(x)'
      BY <3>1
    <3>4. Truthful(x)'
      BY <3>1
    <3>5. QED
      BY Zenon, <3>1, <3>2, <3>3, <3>4
  <2> QED
    BY Zenon, <2>1, <2>2
<1>12. ASSUME CancelTask(x) PROVE StepOK(x)
  BY Zenon, <1>12 DEF CancelTask, storeVars
<1>13. ASSUME NEW k \in Kinds, NEW q \in Workload, Invoke(x, k, q) PROVE StepOK(x)
  <2>1. /\ pc[x] = "new" /\ task[x] = "none" /\ effect[x] = NoTime
        /\ kind' = [kind EXCEPT ![x] = k]
        /\ cancelling' = cancelling /\ effect' = effect /\ now' = now
        /\ \/ Goto(x, "done") /\ (Reply(x, "replayed") \/ Reply(x, "conflict")) /\ task' = task
           \/ /\ k = "async" /\ task' = [task EXCEPT ![x] = "pending"]
              /\ Goto(x, "scheduled") /\ Reply(x, "accepted")
           \/ Goto(x, "scheduled") /\ reply' = reply /\ task' = task
    BY Zenon, <1>13 DEF Invoke, storeVars
  <2>2. AsFunctions' /\ now' \in Nat /\ \A y \in Calls \ {x} : Untouched(y)
    BY Zenon, <2>1
  <2>3. CallInv(x)'
    BY <2>1
  <2>4. Truthful(x)'
    BY Zenon, <2>1
  <2>5. QED
    BY Zenon, <2>1, <2>2, <2>3, <2>4
<1> QED
  BY Zenon, <1>2, <1>3, <1>4, <1>5, <1>6, <1>7, <1>8, <1>9, <1>10, <1>11, <1>12, <1>13 DEF Step

\* Every step is a step of one call, or touches none.
LEMMA SomeCall == [Next]_vars =>
  \/ \E x \in Calls : \/ Step(x) \/ CancelTask(x)
                      \/ \E k \in Kinds, q \in Workload : Invoke(x, k, q)
  \/ /\ UNCHANGED <<kind, pc, reply, task, cancelling, effect>>
     /\ now' = now \/ now' = now + 1
BY DEF Next, Background, Store!Sweep, Store!Tick, vars

\* Calls that are left alone keep what holds of them.
LEMMA TruthStep == TruthInv /\ [Next]_vars => TruthInv'
<1> SUFFICES ASSUME TruthInv, [Next]_vars PROVE TruthInv'
  OBVIOUS
<1>1. ASSUME NEW x \in Calls, StepOK(x) PROVE TruthInv'
  <2>1. ASSUME NEW y \in Calls PROVE CallInv(y)' /\ Truthful(y)'
    <3>1. CASE y = x
      BY <1>1, <3>1 DEF StepOK
    <3>2. CASE y # x
      <4>1. Untouched(y)
        BY <1>1, <3>2 DEF StepOK
      <4>2. CallInv(y) /\ Truthful(y)
        BY DEF TruthInv, RepliesTruthful, Truthful
      <4>3. CallInv(y)'
        BY Zenon, <4>1, <4>2 DEF Untouched, CallInv
      <4>4. Truthful(y)'
        BY Zenon, <4>1, <4>2 DEF Untouched, Truthful, Committed
      <4> QED
        BY <4>3, <4>4
    <3> QED
      BY <3>1, <3>2
  <2> QED
    BY Zenon, <1>1, <2>1 DEF StepOK, TruthInv, RepliesTruthful, Truthful
<1>2. CASE /\ UNCHANGED <<kind, pc, reply, task, cancelling, effect>>
           /\ now' = now \/ now' = now + 1
  BY <1>2 DEF TruthInv, AsFunctions, RepliesTruthful, Committed, CallInv
<1> QED
  BY <1>1, <1>2, CallStep, SomeCall

\* It holds at the start.
LEMMA TruthInit == Init => TruthInv
BY DEF Init, Store!Init, TruthInv, AsFunctions, RepliesTruthful, Committed, CallInv, Ongoing,
       Streaming, TaskOver, NoTime

\* Callers are told the truth: a result means that the store was changed, an error to a unary
\* or asynchronous caller that it was not.
THEOREM TruthSafe == Spec => []RepliesTruthful
<1>1. TruthInv => RepliesTruthful
  BY DEF TruthInv
<1> QED
  BY <1>1, TruthInit, TruthStep, PTL DEF Spec

\* Where wait_for runs its coroutine in the caller's task, a call whose cancellation was
\* answered does not change the store any more.
THEOREM CancelSafe == ASSUME ~OwnTask PROVE Spec => CancelledNeverCommits
<1>1. TruthInv /\ [Next]_vars =>
        [\A x \in Calls : task[x] = "cancelled" => effect'[x] = effect[x]]_vars
  BY Zenon, CallStep, SomeCall DEF StepOK, Untouched
<1> QED
  BY <1>1, TruthInit, TruthStep, PTL DEF Spec, CancelledNeverCommits

\* A task's terminal status is final, and a running task does not become pending again.
THEOREM TaskSafe == Spec => TaskStatusFinal
<1>1. TruthInv /\ [Next]_vars =>
        [\A x \in Calls : /\ task[x] \in TaskOver => task'[x] = task[x]
                          /\ task[x] = "running" => task'[x] # "pending"]_vars
  BY Zenon, CallStep, SomeCall DEF StepOK, Untouched
<1> QED
  BY <1>1, TruthInit, TruthStep, PTL DEF Spec, TaskStatusFinal
-----------------------------------------------------------------------------
(* One effect per idempotency key. *)

KeyOf(x) == CacheKey(req[x])

\* A call that holds a reservation has its key to itself.
BusyKeys ==
  \A x \in Calls : Held(x) =>
    /\ req[x].op # "release"
    /\ reservations[x].owner = req[x].owner /\ reservations[x].key = req[x].key
    /\ idempotency[KeyOf(x)].state = "busy" /\ idempotency[KeyOf(x)].reservation = x

\* The store remembers an effect until its retention is over.
EffectsKept ==
  \A x \in Calls : Committed(x) =>
    /\ effect[x] \in Nat /\ effect[x] <= now
    /\ \/ effect[x] + IdemTtl <= now
       \/ /\ idempotency[KeyOf(x)].state = "completed"
          /\ idempotency[KeyOf(x)].retain_until >= effect[x] + IdemTtl

Outcomes ==
  /\ idempotency = [i \in Store!IdemKeys |-> idempotency[i]]
  /\ \A i \in Store!IdemKeys : idempotency[i].retain_until \in Nat

KeyInv == Outcomes /\ BusyKeys /\ EffectsKept /\ OncePerKey

\* The node's cache and the store name keys alike.
LEMMA KeyNames ==
  ASSUME NEW q \in Workload
  PROVE  /\ CacheKey(q) \in Store!IdemKeys
         /\ q.op = "release" => CacheKey(q) = Store!OfRelease(q.owner, q.key)
         /\ q.op # "release" => CacheKey(q) = Store!Complete(q.owner, q.key)
<1>1. q.owner \in Owners /\ q.key \in Keys
  BY Zenon, WorkloadAssumption DEF Releases, Store!Requests
<1> QED BY <1>1 DEF CacheKey, Store!IdemKeys, Store!OfRelease, Store!Complete

\* An outcome is as it was, or was forgotten when its time was over.
Over(e) == e.state \in {"failed", "completed"} /\ e.retain_until <= now
Kept(i) == idempotency'[i] = idempotency[i] \/ (Over(idempotency[i]) /\ idempotency'[i] = Store!NoOutcome)
Free(i) == idempotency[i].state = "absent" \/ Over(idempotency[i])
OthersKept(x) == Outcomes' /\ \A i \in Store!IdemKeys \ {KeyOf(x)} : Kept(i)

\* What a step does to the keys: nothing but forget, or one of four things to the key of a call.
Ages ==
  /\ Outcomes' /\ \A i \in Store!IdemKeys : Kept(i)
  /\ now' = now \/ now' = now + 1
  /\ UNCHANGED <<reservations, effect>>
  /\ \A y \in Calls : pc[y] # "new" => req'[y] = req[y]

Takes(x) ==
  /\ UNCHANGED <<now, req, effect>> /\ OthersKept(x) /\ Free(KeyOf(x))
  /\ idempotency'[KeyOf(x)].state = "busy" /\ idempotency'[KeyOf(x)].reservation = x
  /\ req[x].op # "release"
  /\ reservations'[x].owner = req[x].owner /\ reservations'[x].key = req[x].key
  /\ \A y \in Calls \ {x} : reservations'[y] = reservations[y]

Drops(x) ==
  /\ UNCHANGED <<now, req, effect>> /\ OthersKept(x) /\ Held(x)
  /\ reservations'[x].op = "none" /\ \A y \in Calls \ {x} : reservations'[y] = reservations[y]

Writes(x) ==
  /\ UNCHANGED <<now, req>> /\ OthersKept(x)
  /\ effect'[x] = now /\ \A y \in Calls \ {x} : effect'[y] = effect[y]
  /\ idempotency'[KeyOf(x)].state = "completed"
  /\ idempotency'[KeyOf(x)].retain_until = now + IdemTtl
  /\ \/ /\ Held(x) /\ reservations'[x].op = "none"
        /\ \A y \in Calls \ {x} : reservations'[y] = reservations[y]
     \/ Free(KeyOf(x)) /\ reservations' = reservations

\* What the store's sweep does to one key.
LEMMA SweptOutcomes ==
  ASSUME NEW is
  PROVE  /\ Store!SweepOutcomes(is) = [i \in Store!IdemKeys |-> Store!SweepOutcomes(is)[i]]
         /\ \A i \in Store!IdemKeys :
              Store!SweepOutcomes(is)[i] = IF Over(is[i]) THEN Store!NoOutcome ELSE is[i]
BY DEF Store!SweepOutcomes, Store!ForgetOutcome, Over

\* A reservation is made for a key that is free.
LEMMA ReserveTakes ==
  ASSUME Outcomes, now \in Nat, reservations = [y \in Calls |-> reservations[y]],
         NEW x \in Calls, req[x] \in Workload, req[x].op # "release",
         Store!Reserve(req[x], x), UNCHANGED <<req, effect>>
  PROVE  Takes(x)
<1> DEFINE is == Store!SweepOutcomes(idempotency)
           K == KeyOf(x)
<1>1. K \in Store!IdemKeys /\ K = Store!Complete(req[x].owner, req[x].key)
  BY KeyNames DEF KeyOf
<1>2. \A i \in Store!IdemKeys : is[i] = IF Over(idempotency[i]) THEN Store!NoOutcome ELSE idempotency[i]
  BY SweptOutcomes
<1>3. is = [i \in Store!IdemKeys |-> is[i]]
  BY SweptOutcomes
<1> HIDE DEF is
<1>4. /\ is[K].state = "absent" /\ now' = now
      /\ idempotency' = [is EXCEPT ![K] = Store!BusyOutcome(x)]
      /\ reservations' = [reservations EXCEPT ![x] = reservations'[x]]
      /\ reservations'[x].owner = req[x].owner /\ reservations'[x].key = req[x].key
  BY Zenon, <1>1 DEF Store!Reserve, Store!Admissible, Store!NewReservation, is
<1>5. Free(K)
  BY <1>1, <1>2, <1>4 DEF Free
<1>6. \A i \in Store!IdemKeys : idempotency'[i] = IF i = K THEN Store!BusyOutcome(x) ELSE is[i]
  BY <1>1, <1>3, <1>4
<1>7. Store!BusyOutcome(x).retain_until \in Nat
  BY ServerAssumption DEF Store!BusyOutcome
<1>8. Store!NoOutcome.retain_until \in Nat
  BY DEF Store!NoOutcome
<1>9. Outcomes'
  <2>1. idempotency' = [i \in Store!IdemKeys |-> idempotency'[i]]
    BY <1>3, <1>4
  <2>2. \A i \in Store!IdemKeys : idempotency'[i].retain_until \in Nat
    BY <1>2, <1>6, <1>7, <1>8 DEF Outcomes
  <2> QED BY <2>1, <2>2 DEF Outcomes
<1>10. \A i \in Store!IdemKeys \ {K} : Kept(i)
  BY <1>2, <1>6 DEF Kept
<1>11. idempotency'[K].state = "busy" /\ idempotency'[K].reservation = x
  BY <1>1, <1>6 DEF Store!BusyOutcome
<1>12. \A y \in Calls \ {x} : reservations'[y] = reservations[y]
  BY <1>4
<1> QED BY Zenon, <1>4, <1>5, <1>9, <1>10, <1>11, <1>12 DEF Takes, OthersKept
\* A held reservation names the key of its call.
LEMMA HeldKey ==
  ASSUME BusyKeys, NEW x \in Calls, req[x] \in Workload, Held(x)
  PROVE  /\ KeyOf(x) \in Store!IdemKeys
         /\ KeyOf(x) = Store!Complete(reservations[x].owner, reservations[x].key)
<1>1. /\ req[x].op # "release"
      /\ reservations[x].owner = req[x].owner /\ reservations[x].key = req[x].key
  BY Zenon DEF BusyKeys
<1> QED BY <1>1, KeyNames DEF KeyOf

\* An abort settles the key of its call.
LEMMA AbortDrops ==
  ASSUME Outcomes, BusyKeys, now \in Nat, reservations = [y \in Calls |-> reservations[y]],
         NEW x \in Calls, req[x] \in Workload, Store!Abort(x), UNCHANGED <<req, effect>>
  PROVE  Drops(x)
<1> DEFINE K == KeyOf(x)
           js == [idempotency EXCEPT ![K] = Store!FailedOutcome]
           is == Store!SweepOutcomes(js)
<1>0. Held(x)
  BY DEF Store!Abort, Held
<1>1. K \in Store!IdemKeys /\ K = Store!Complete(reservations[x].owner, reservations[x].key)
  BY <1>0, HeldKey
<1>2. /\ now' = now /\ idempotency' = is
      /\ reservations' = [reservations EXCEPT ![x] = Store!NoReservation]
  BY <1>1 DEF Store!Abort
<1>3. \A i \in Store!IdemKeys : js[i] = IF i = K THEN Store!FailedOutcome ELSE idempotency[i]
  BY <1>1 DEF Outcomes
<1> HIDE DEF js
<1>4. /\ is = [i \in Store!IdemKeys |-> is[i]]
      /\ \A i \in Store!IdemKeys : is[i] = IF Over(js[i]) THEN Store!NoOutcome ELSE js[i]
  BY SweptOutcomes
<1> HIDE DEF is
<1>5. Store!NoOutcome.retain_until \in Nat /\ Store!FailedOutcome.retain_until \in Nat
  BY ServerAssumption DEF Store!NoOutcome, Store!FailedOutcome
<1>6. \A i \in Store!IdemKeys : is[i].retain_until \in Nat
  BY <1>3, <1>4, <1>5 DEF Outcomes
<1>7. Outcomes'
  BY <1>2, <1>4, <1>6 DEF Outcomes
<1>8. \A i \in Store!IdemKeys \ {K} : Kept(i)
  BY <1>2, <1>3, <1>4 DEF Kept
<1>9. reservations'[x].op = "none" /\ \A y \in Calls \ {x} : reservations'[y] = reservations[y]
  BY <1>2 DEF Store!NoReservation
<1> QED BY <1>0, <1>2, <1>7, <1>8, <1>9 DEF Drops, OthersKept

\* A commit completes the key of its call.
LEMMA CommitWrites ==
  ASSUME Outcomes, BusyKeys, now \in Nat, reservations = [y \in Calls |-> reservations[y]],
         effect = [y \in Calls |-> effect[y]],
         NEW x \in Calls, req[x] \in Workload, Commits(x), UNCHANGED req
  PROVE  Writes(x)
<1> DEFINE K == KeyOf(x)
<1>1. PICK c \in ContextIds : Store!Commit(x, c)
  BY DEF Commits
<1>2. Held(x)
  BY <1>1 DEF Store!Commit, Held
<1>3. K \in Store!IdemKeys /\ K = Store!Complete(reservations[x].owner, reservations[x].key)
  BY <1>2, HeldKey
<1>4. PICK o : /\ o.state = "completed" /\ o.retain_until = now + IdemTtl
               /\ idempotency' = [idempotency EXCEPT ![K] = o]
  <2>1. idempotency' = [idempotency EXCEPT ![K] = Store!CompletedOutcome(c, contexts'[c].version)]
    BY Zenon, <1>1, <1>3 DEF Store!Commit
  <2>2. PICK o : o = Store!CompletedOutcome(c, contexts'[c].version)
    OBVIOUS
  <2>3. o.state = "completed" /\ o.retain_until = now + IdemTtl
    BY <2>2 DEF Store!CompletedOutcome
  <2> QED BY Zenon, <2>1, <2>2, <2>3
<1>5. /\ now' = now /\ reservations' = [reservations EXCEPT ![x] = Store!NoReservation]
      /\ effect' = [effect EXCEPT ![x] = now]
  BY Zenon, <1>1 DEF Store!Commit, Commits
<1>6. \A i \in Store!IdemKeys : idempotency'[i] = IF i = K THEN o ELSE idempotency[i]
  BY <1>4 DEF Outcomes
<1>7. Outcomes'
  <2>1. idempotency' = [i \in Store!IdemKeys |-> idempotency'[i]]
    BY <1>4 DEF Outcomes
  <2>2. now + IdemTtl \in Nat
    BY ServerAssumption
  <2>3. \A i \in Store!IdemKeys : idempotency'[i].retain_until \in Nat
    BY <1>4, <1>6, <2>2 DEF Outcomes
  <2> QED BY <2>1, <2>3 DEF Outcomes
<1>8. \A i \in Store!IdemKeys \ {K} : Kept(i)
  BY <1>6 DEF Kept
<1>9. reservations'[x].op = "none" /\ \A y \in Calls \ {x} : reservations'[y] = reservations[y]
  BY Zenon, <1>5 DEF Store!NoReservation
<1>10. effect'[x] = now /\ \A y \in Calls \ {x} : effect'[y] = effect[y]
  BY <1>5
<1>11. idempotency'[K].state = "completed" /\ idempotency'[K].retain_until = now + IdemTtl
  BY <1>3, <1>4, <1>6
<1> QED BY <1>2, <1>5, <1>7, <1>8, <1>9, <1>10, <1>11 DEF Writes, OthersKept

\* A release completes its key, which was free.
LEMMA ReleaseWrites ==
  ASSUME Outcomes, now \in Nat, effect = [y \in Calls |-> effect[y]],
         NEW x \in Calls, req[x] \in Workload, req[x].op = "release",
         Store!Release(req[x].owner, req[x].context, req[x].base_version, req[x].key),
         effect' = [effect EXCEPT ![x] = now], UNCHANGED req
  PROVE  Writes(x)
<1> DEFINE is == Store!SweepOutcomes(idempotency)
           K == KeyOf(x)
<1>1. K \in Store!IdemKeys /\ K = Store!OfRelease(req[x].owner, req[x].key)
  BY KeyNames DEF KeyOf
<1>2. /\ is = [i \in Store!IdemKeys |-> is[i]]
      /\ \A i \in Store!IdemKeys : is[i] = IF Over(idempotency[i]) THEN Store!NoOutcome ELSE idempotency[i]
  BY SweptOutcomes
<1> HIDE DEF is
<1>3. PICK o : /\ o.state = "completed" /\ o.retain_until = now + IdemTtl
               /\ idempotency' = [is EXCEPT ![K] = o]
  BY Zenon, <1>1 DEF Store!Release, Store!CompletedOutcome, is
<1>4. is[K].state = "absent" /\ now' = now /\ reservations' = reservations
  BY Zenon, <1>1 DEF Store!Release, is
<1>5. Free(K)
  BY Zenon, <1>1, <1>2, <1>4 DEF Free
<1>6. \A i \in Store!IdemKeys : idempotency'[i] = IF i = K THEN o ELSE is[i]
  BY <1>2, <1>3
<1>7. now + IdemTtl \in Nat /\ Store!NoOutcome.retain_until \in Nat
  BY ServerAssumption DEF Store!NoOutcome
<1>8. Outcomes'
  <2>1. idempotency' = [i \in Store!IdemKeys |-> idempotency'[i]]
    BY Zenon, <1>2, <1>3
  <2>2. \A i \in Store!IdemKeys : idempotency'[i].retain_until \in Nat
    BY Zenon, <1>2, <1>3, <1>6, <1>7 DEF Outcomes
  <2> QED BY <2>1, <2>2 DEF Outcomes
<1>9. \A i \in Store!IdemKeys \ {K} : Kept(i)
  BY Zenon, <1>2, <1>6 DEF Kept
<1>10. effect'[x] = now /\ \A y \in Calls \ {x} : effect'[y] = effect[y]
  OBVIOUS
<1>11. idempotency'[K].state = "completed" /\ idempotency'[K].retain_until = now + IdemTtl
  BY Zenon, <1>1, <1>3, <1>6
<1> QED BY Zenon, <1>4, <1>5, <1>8, <1>9, <1>10, <1>11 DEF Writes, OthersKept
\* A step that leaves the outcomes alone, or only sweeps them.
LEMMA OnlyAges ==
  ASSUME Outcomes, now \in Nat,
         idempotency' = idempotency \/ idempotency' = Store!SweepOutcomes(idempotency),
         now' = now \/ now' = now + 1, UNCHANGED <<reservations, effect>>,
         \A y \in Calls : pc[y] # "new" => req'[y] = req[y]
  PROVE  Ages
<1> DEFINE is == Store!SweepOutcomes(idempotency)
<1>1. /\ is = [i \in Store!IdemKeys |-> is[i]]
      /\ \A i \in Store!IdemKeys : is[i] = IF Over(idempotency[i]) THEN Store!NoOutcome ELSE idempotency[i]
  BY SweptOutcomes
<1> HIDE DEF is
<1>2. Store!NoOutcome.retain_until \in Nat
  BY Zenon DEF Store!NoOutcome
<1>3. CASE idempotency' = idempotency
  BY <1>3 DEF Ages, Outcomes, Kept
<1>4. CASE idempotency' = is
  <2>1. Outcomes'
    BY <1>1, <1>2, <1>4 DEF Outcomes
  <2>2. \A i \in Store!IdemKeys : Kept(i)
    BY <1>1, <1>4 DEF Kept
  <2> QED BY Zenon, <2>1, <2>2 DEF Ages
<1> QED BY <1>3, <1>4 DEF is

KeyStepOf(x) == Ages \/ Takes(x) \/ Drops(x) \/ Writes(x)

\* What the steps of one call do to the keys.
LEMMA CallKeys ==
  ASSUME HeldInv, TruthInv, KeyInv, NEW x \in Calls, Step(x)
  PROVE  KeyStepOf(x)
<1>0. /\ Outcomes /\ BusyKeys /\ now \in Nat
      /\ reservations = [y \in Calls |-> reservations[y]] /\ effect = [y \in Calls |-> effect[y]]
  BY DEF HeldInv, TruthInv, AsFunctions, KeyInv
<1>1. pc[x] # "new" /\ req[x] \in Workload /\ UNCHANGED req
  <2>1. pc[x] # "new" /\ UNCHANGED req
    BY Zenon DEF Step, Begin, ProviderAnswers, Authorized, Finish, Interrupted, CancelDelivered,
       StreamOpens, StreamEnds, StreamBreaks, StreamAuthorized, StreamSent, AbortAndFail, Fail,
       HeldInv, HeldWhileRunning, CancelDelivered
  <2> QED BY <2>1 DEF HeldInv, Asked
<1>2. ASSUME UNCHANGED <<storeVars, effect>>
      PROVE  KeyStepOf(x)
  BY <1>0, <1>1, <1>2, OnlyAges DEF storeVars, KeyStepOf
<1>3. ASSUME Store!Abort(x), UNCHANGED effect
      PROVE  KeyStepOf(x)
  BY <1>0, <1>1, <1>3, AbortDrops DEF KeyStepOf
<1>4. ASSUME AbortAndFail(x)
      PROVE  KeyStepOf(x)
  BY <1>3, <1>4 DEF AbortAndFail, Fail
<1>5. ASSUME Commits(x)
      PROVE  KeyStepOf(x)
  BY <1>0, <1>1, <1>5, CommitWrites DEF KeyStepOf
<1>6. CASE Begin(x)
  <2>1. CASE /\ req[x].op = "release" /\ effect' = [effect EXCEPT ![x] = now]
             /\ Store!Release(req[x].owner, req[x].context, req[x].base_version, req[x].key)
    BY Zenon, <1>0, <1>1, <2>1, ReleaseWrites DEF KeyStepOf
  <2>2. CASE req[x].op # "release" /\ Store!Reserve(req[x], x) /\ UNCHANGED effect
    BY <1>0, <1>1, <2>2, ReserveTakes DEF KeyStepOf
  <2>3. CASE Store!Sweep /\ UNCHANGED effect
    BY <1>0, <1>1, <2>3, OnlyAges DEF KeyStepOf, Store!Sweep
  <2> QED BY Zenon, <1>6, <2>1, <2>2, <2>3 DEF Begin, Fail
<1>7. CASE \E good \in BOOLEAN : ProviderAnswers(x, good) \/ StreamEnds(x, good)
  BY Zenon, <1>2, <1>4, <1>7 DEF ProviderAnswers, StreamEnds
<1>8. CASE \/ \E allowed \in BOOLEAN : Authorized(x, allowed)
           \/ \E allowed, in_sequence \in BOOLEAN : StreamAuthorized(x, allowed, in_sequence)
  BY <1>4, <1>5, <1>8 DEF Authorized, StreamAuthorized
<1>9. CASE Finish(x) \/ \E sent \in BOOLEAN : StreamOpens(x, sent) \/ StreamSent(x, sent)
  BY Zenon, <1>2, <1>9 DEF Finish, StreamOpens, StreamSent
<1>10. CASE Interrupted(x) \/ CancelDelivered(x) \/ StreamBreaks(x)
  BY Zenon, <1>2, <1>3, <1>4, <1>10 DEF Interrupted, CancelDelivered, StreamBreaks, Fail
<1> QED BY Zenon, <1>6, <1>7, <1>8, <1>9, <1>10 DEF Step

\* What any step does to them.
LEMMA KeyKinds ==
  ASSUME HeldInv, TruthInv, KeyInv, [Next]_vars
  PROVE  Ages \/ \E x \in Calls : Takes(x) \/ Drops(x) \/ Writes(x)
<1>0. Outcomes /\ now \in Nat /\ req = [y \in Calls |-> req[y]]
  BY DEF HeldInv, Asked, TruthInv, KeyInv
<1>1. ASSUME NEW x \in Calls, Step(x)
      PROVE  KeyStepOf(x)
  BY <1>1, CallKeys
<1>2. CASE \E x \in Calls : CancelTask(x)
  BY <1>0, <1>2, OnlyAges DEF CancelTask, storeVars
<1>3. CASE \E x \in Calls, k \in Kinds, q \in Workload : Invoke(x, k, q)
  BY Zenon, <1>0, <1>3, OnlyAges DEF Invoke, storeVars
<1>4. CASE Background
  BY <1>0, <1>4, OnlyAges DEF Background, Store!Sweep, Store!Tick
<1>5. CASE UNCHANGED vars
  BY Zenon, <1>0, <1>5, OnlyAges DEF vars
<1> QED BY <1>1, <1>2, <1>3, <1>4, <1>5 DEF Next, KeyStepOf

\* An effect whose key is free, or busy again, is past its retention.
LEMMA LongPast ==
  ASSUME KeyInv, NEW y \in Calls, Committed(y),
         Free(KeyOf(y)) \/ idempotency[KeyOf(y)].state = "busy", KeyOf(y) \in Store!IdemKeys,
         now \in Nat
  PROVE  effect[y] + IdemTtl <= now
<1>1. effect[y] \in Nat /\ IdemTtl \in Nat /\ idempotency[KeyOf(y)].retain_until \in Nat
  BY ServerAssumption DEF KeyInv, EffectsKept, Outcomes
<1>2. \/ effect[y] + IdemTtl <= now
      \/ /\ idempotency[KeyOf(y)].state = "completed"
         /\ idempotency[KeyOf(y)].retain_until >= effect[y] + IdemTtl
  BY Zenon DEF KeyInv, EffectsKept
<1> QED BY <1>1, <1>2 DEF Free, Over

\* A key in use stays in use while its call keeps its reservation.
LEMMA BusyStays ==
  ASSUME BusyKeys, NEW y \in Calls, Held(y), reservations'[y] = reservations[y], req'[y] = req[y],
         Kept(KeyOf(y))
  PROVE  (/\ req[y].op # "release"
          /\ reservations[y].owner = req[y].owner /\ reservations[y].key = req[y].key
          /\ idempotency[KeyOf(y)].state = "busy" /\ idempotency[KeyOf(y)].reservation = y)'
<1>1. KeyOf(y)' = KeyOf(y)
  BY Zenon DEF KeyOf, CacheKey
<1>2. /\ req[y].op # "release"
      /\ reservations[y].owner = req[y].owner /\ reservations[y].key = req[y].key
      /\ idempotency[KeyOf(y)].state = "busy" /\ idempotency[KeyOf(y)].reservation = y
  BY Zenon DEF BusyKeys
<1>3. idempotency'[KeyOf(y)] = idempotency[KeyOf(y)]
  BY <1>2 DEF Kept, Over
<1> QED BY Zenon, <1>1, <1>2, <1>3

\* No other call holds the key of a holder, and none a free one.
LEMMA KeysApart ==
  ASSUME BusyKeys, NEW x \in Calls, NEW y \in Calls, Held(y),
         Free(KeyOf(x)) \/ (Held(x) /\ y # x)
  PROVE  KeyOf(y) # KeyOf(x)
<1>1. idempotency[KeyOf(y)].state = "busy" /\ idempotency[KeyOf(y)].reservation = y
  BY Zenon DEF BusyKeys
<1>2. CASE Held(x) /\ y # x
  BY Zenon, <1>1, <1>2 DEF BusyKeys
<1>3. CASE Free(KeyOf(x))
  BY <1>1, <1>3 DEF Free, Over
<1> QED BY Zenon, <1>2, <1>3

\* An effect stays remembered while its key's outcome is only aged.
LEMMA EffectStays ==
  ASSUME EffectsKept, NEW y \in Calls, Committed(y), Kept(KeyOf(y)), IdemTtl \in Nat,
         now \in Nat, now' \in Nat, now <= now', idempotency[KeyOf(y)].retain_until \in Nat
  PROVE  /\ effect[y] \in Nat /\ effect[y] <= now'
         /\ \/ effect[y] + IdemTtl <= now'
            \/ /\ idempotency'[KeyOf(y)].state = "completed"
               /\ idempotency'[KeyOf(y)].retain_until >= effect[y] + IdemTtl
<1>1. /\ effect[y] \in Nat /\ effect[y] <= now
      /\ \/ effect[y] + IdemTtl <= now
         \/ /\ idempotency[KeyOf(y)].state = "completed"
            /\ idempotency[KeyOf(y)].retain_until >= effect[y] + IdemTtl
  BY Zenon DEF EffectsKept
<1>2. idempotency'[KeyOf(y)] = idempotency[KeyOf(y)] \/ idempotency[KeyOf(y)].retain_until <= now
  BY Zenon DEF Kept, Over
<1> QED BY <1>1, <1>2

\* A step keeps the store's account of every key.
LEMMA KeyStep ==
  ASSUME HeldInv, TruthInv, KeyInv, [Next]_vars
  PROVE  KeyInv'
<1>0. /\ now \in Nat /\ IdemTtl \in Nat /\ Outcomes /\ BusyKeys /\ EffectsKept /\ OncePerKey
      /\ \A i \in Store!IdemKeys : idempotency[i].retain_until \in Nat
  BY ServerAssumption DEF TruthInv, KeyInv, Outcomes
<1>1. \A y \in Calls : Held(y) \/ Committed(y) => pc[y] # "new" /\ KeyOf(y) \in Store!IdemKeys
  <2>1. \A y \in Calls : Held(y) \/ Committed(y) => pc[y] # "new"
    BY DEF HeldInv, HeldWhileRunning, TruthInv, CallInv, Committed, Ongoing
  <2> QED BY <2>1, KeyNames DEF HeldInv, Asked, KeyOf
<1>2. Store!NoOutcome.state = "absent"
  BY DEF Store!NoOutcome
<1>3. CASE Ages
  <2>1. \A y \in Calls : Held(y) \/ Committed(y) => KeyOf(y)' = KeyOf(y) /\ req'[y] = req[y]
    BY Zenon, <1>1, <1>3 DEF Ages, KeyOf, CacheKey
  <2>0. \A y \in Calls : Held(y) \/ Committed(y) => Kept(KeyOf(y))
    BY Zenon, <1>1, <1>3 DEF Ages
  <2>2. BusyKeys'
    <3>1. \A y \in Calls : Held(y)' => Held(y) /\ reservations'[y] = reservations[y]
      BY Zenon, <1>3 DEF Ages, Held
    <3> QED BY Zenon, <1>0, <2>0, <2>1, <3>1, BusyStays DEF BusyKeys
  <2>3. EffectsKept'
    <3>1. now' \in Nat /\ now <= now'
      BY <1>0, <1>3 DEF Ages
    <3>2. \A y \in Calls : Committed(y)' => Committed(y) /\ effect'[y] = effect[y]
      BY Zenon, <1>3 DEF Ages, Committed
    <3> QED BY Zenon, <1>0, <1>1, <2>0, <2>1, <3>1, <3>2, EffectStays DEF EffectsKept
  <2>4. OncePerKey'
    BY Zenon, <1>0, <1>3, <2>1 DEF Ages, OncePerKey, Committed, KeyOf
  <2> QED BY Zenon, <1>3, <2>2, <2>3, <2>4 DEF KeyInv, Ages
<1>4. ASSUME NEW x \in Calls, Takes(x) \/ Drops(x)
      PROVE  KeyInv'
  <2>1. /\ UNCHANGED <<now, req, effect>> /\ OthersKept(x)
        /\ \A y \in Calls \ {x} : reservations'[y] = reservations[y]
    BY Zenon, <1>4 DEF Takes, Drops
  <2>2. \A y \in Calls : KeyOf(y)' = KeyOf(y)
    BY Zenon, <2>1 DEF KeyOf, CacheKey
  <2>3. ASSUME NEW y \in Calls, Held(y)', y # x
        PROVE  Held(y) /\ reservations'[y] = reservations[y] /\ Kept(KeyOf(y))
    <3>1. Held(y) /\ reservations'[y] = reservations[y]
      BY Zenon, <2>1, <2>3 DEF Held
    <3>2. KeyOf(y) # KeyOf(x)
      BY <1>0, <1>4, <2>3, <3>1, KeysApart DEF Takes, Drops
    <3> QED BY Zenon, <1>1, <2>1, <3>1, <3>2 DEF OthersKept
  <2>4. BusyKeys'
    <3>1. CASE Takes(x)
      <4>1. (/\ req[x].op # "release"
             /\ reservations[x].owner = req[x].owner /\ reservations[x].key = req[x].key
             /\ idempotency[KeyOf(x)].state = "busy" /\ idempotency[KeyOf(x)].reservation = x)'
        BY Zenon, <2>1, <2>2, <3>1 DEF Takes
      <4> QED BY Zenon, <1>0, <2>1, <2>3, <4>1, BusyStays DEF BusyKeys
    <3>2. CASE Drops(x)
      <4>1. ~Held(x)'
        BY Zenon, <3>2 DEF Drops, Held
      <4> QED BY Zenon, <1>0, <2>1, <2>3, <4>1, BusyStays DEF BusyKeys
    <3> QED BY Zenon, <1>4, <3>1, <3>2
  <2>5. ASSUME NEW y \in Calls, Committed(y), KeyOf(y) = KeyOf(x)
        PROVE  effect[y] + IdemTtl <= now
    <3>1. Free(KeyOf(x)) \/ idempotency[KeyOf(x)].state = "busy"
      BY Zenon, <1>0, <1>4 DEF Takes, Drops, BusyKeys
    <3> QED BY Zenon, <1>0, <1>1, <2>5, <3>1, LongPast
  <2>6. EffectsKept'
    <3> SUFFICES ASSUME NEW y \in Calls, Committed(y)
                 PROVE  /\ effect[y] \in Nat /\ effect[y] <= now'
                        /\ \/ effect[y] + IdemTtl <= now'
                           \/ /\ idempotency'[KeyOf(y)].state = "completed"
                              /\ idempotency'[KeyOf(y)].retain_until >= effect[y] + IdemTtl
      BY Zenon, <2>1, <2>2 DEF EffectsKept, Committed
    <3>1. CASE KeyOf(y) = KeyOf(x)
      BY Zenon, <1>0, <2>1, <2>5, <3>1 DEF EffectsKept
    <3>2. CASE KeyOf(y) # KeyOf(x)
      <4>1. Kept(KeyOf(y)) /\ now' \in Nat /\ now <= now'
        <5>1. now <= now
          BY <1>0
        <5> QED BY Zenon, <1>0, <1>1, <2>1, <3>2, <5>1 DEF OthersKept
      <4> QED BY Zenon, <1>0, <1>1, <4>1, EffectStays
    <3> QED BY Zenon, <3>1, <3>2
  <2>7. OncePerKey'
    BY Zenon, <1>0, <2>1 DEF OncePerKey, Committed
  <2> QED BY <2>1, <2>4, <2>6, <2>7 DEF KeyInv, OthersKept
<1>5. ASSUME NEW x \in Calls, Writes(x)
      PROVE  KeyInv'
  <2>1. /\ UNCHANGED <<now, req>> /\ OthersKept(x)
        /\ effect'[x] = now /\ \A y \in Calls \ {x} : effect'[y] = effect[y]
    BY Zenon, <1>5 DEF Writes
  <2>2. \A y \in Calls : KeyOf(y)' = KeyOf(y)
    BY Zenon, <2>1 DEF KeyOf, CacheKey
  <2>3. ASSUME NEW y \in Calls, Held(y)'
        PROVE  Held(y) /\ reservations'[y] = reservations[y] /\ Kept(KeyOf(y))
    <3>1. /\ Held(y) /\ reservations'[y] = reservations[y]
          /\ Free(KeyOf(x)) \/ (Held(x) /\ y # x)
      BY Zenon, <1>5, <2>3 DEF Writes, Held
    <3>2. KeyOf(y) # KeyOf(x)
      BY <1>0, <3>1, KeysApart
    <3> QED BY Zenon, <1>1, <2>1, <3>1, <3>2 DEF OthersKept
  <2>4. BusyKeys'
    BY Zenon, <1>0, <2>1, <2>3, BusyStays DEF BusyKeys
  <2>5. ASSUME NEW y \in Calls, Committed(y), KeyOf(y) = KeyOf(x)
        PROVE  effect[y] + IdemTtl <= now
    <3>1. Free(KeyOf(x)) \/ idempotency[KeyOf(x)].state = "busy"
      BY Zenon, <1>0, <1>5 DEF Writes, BusyKeys
    <3> QED BY Zenon, <1>0, <1>1, <2>5, <3>1, LongPast
  <2>6. EffectsKept'
    <3> SUFFICES ASSUME NEW y \in Calls, Committed(y)'
                 PROVE  /\ effect'[y] \in Nat /\ effect'[y] <= now
                        /\ \/ effect'[y] + IdemTtl <= now
                           \/ /\ idempotency'[KeyOf(y)].state = "completed"
                              /\ idempotency'[KeyOf(y)].retain_until >= effect'[y] + IdemTtl
      BY Zenon, <2>1, <2>2 DEF EffectsKept
    <3>1. CASE y = x
      BY <1>0, <1>5, <3>1 DEF Writes
    <3>2. CASE y # x
      <4>1. effect'[y] = effect[y] /\ Committed(y) /\ now <= now /\ now' = now
        <5>1. now <= now
          BY <1>0
        <5> QED BY Zenon, <2>1, <3>2, <5>1 DEF Committed
      <4>2. CASE KeyOf(y) = KeyOf(x)
        BY Zenon, <1>0, <2>5, <4>1, <4>2 DEF EffectsKept
      <4>3. CASE KeyOf(y) # KeyOf(x)
        BY Zenon, <1>0, <1>1, <2>1, <4>1, <4>3, EffectStays DEF OthersKept
      <4> QED BY Zenon, <4>2, <4>3
    <3> QED BY Zenon, <3>1, <3>2
  <2>7. OncePerKey'
    <3> SUFFICES ASSUME NEW y \in Calls, NEW z \in Calls, y # z, Committed(y)', Committed(z)',
                        KeyOf(y) = KeyOf(z)
                 PROVE  effect'[y] - effect'[z] >= IdemTtl \/ effect'[z] - effect'[y] >= IdemTtl
      BY Zenon, <2>1, <2>2 DEF OncePerKey, KeyOf
    <3>1. \A u \in Calls \ {x} : Committed(u)' => Committed(u) /\ effect[u] \in Nat
      BY Zenon, <1>0, <2>1 DEF Committed, EffectsKept
    <3>2. CASE y # x /\ z # x
      BY Zenon, <1>0, <2>1, <3>1, <3>2 DEF OncePerKey, KeyOf
    <3>3. CASE y = x
      BY <1>0, <2>1, <2>5, <3>1, <3>3
    <3>4. CASE z = x
      BY <1>0, <2>1, <2>5, <3>1, <3>4
    <3> QED BY <3>2, <3>3, <3>4
  <2> QED BY Zenon, <2>1, <2>4, <2>6, <2>7 DEF KeyInv, OthersKept
<1> QED BY <1>3, <1>4, <1>5, KeyKinds
-----------------------------------------------------------------------------
(* The node's cache. *)

\* A call the cache may name: one whose effect is in the store, or a task to follow.
Followed(x) ==
  /\ x \in Calls /\ pc[x] # "new"
  /\ Committed(x) \/ (kind[x] = "async" /\ task[x] # "none")

CacheInv ==
  /\ cache = [k \in Store!IdemKeys |-> cache[k]]
  /\ \A k \in Store!IdemKeys :
       cache[k].call # None => Followed(cache[k].call) /\ KeyOf(cache[k].call) = k

\* A call that was let in keeps what it asks for, its effect and its task.
GoesOn(x) ==
  /\ pc'[x] # "new" /\ req'[x] = req[x] /\ kind'[x] = kind[x]
  /\ effect'[x] = effect[x] \/ effect'[x] \in Nat
  /\ task[x] # "none" => task'[x] # "none"

\* Its own steps do.
LEMMA CallGoesOn ==
  ASSUME TruthInv, NEW x \in Calls, pc[x] # "new", Step(x)
  PROVE  GoesOn(x)
<1> USE DEF Goto, Settle, TaskOver, GoesOn
<1>0. now \in Nat /\ AsFunctions
  BY DEF TruthInv
<1>1. ASSUME Fail(x) PROVE GoesOn(x)
  BY Zenon, <1>0, <1>1 DEF Fail, AsFunctions
<1>2. ASSUME Commits(x) PROVE effect'[x] \in Nat
  BY Zenon, <1>0, <1>2 DEF Commits, AsFunctions
<1>3. CASE Begin(x)
  BY Zenon, <1>0, <1>1, <1>3 DEF Begin, AsFunctions
<1>4. CASE \E good \in BOOLEAN : ProviderAnswers(x, good) \/ StreamEnds(x, good)
  BY Zenon, <1>0, <1>1, <1>4 DEF ProviderAnswers, StreamEnds, AbortAndFail, AsFunctions
<1>5. CASE \/ \E allowed \in BOOLEAN : Authorized(x, allowed)
           \/ \E allowed, in_sequence \in BOOLEAN : StreamAuthorized(x, allowed, in_sequence)
  BY Zenon, <1>0, <1>1, <1>2, <1>5 DEF Authorized, StreamAuthorized, AbortAndFail, AsFunctions
<1>6. CASE Finish(x) \/ \E sent \in BOOLEAN : StreamOpens(x, sent) \/ StreamSent(x, sent)
  BY Zenon, <1>0, <1>6 DEF Finish, StreamOpens, StreamSent, AsFunctions
<1>7. CASE Interrupted(x) \/ CancelDelivered(x) \/ StreamBreaks(x)
  BY Zenon, <1>0, <1>1, <1>7 DEF Interrupted, CancelDelivered, StreamBreaks, AbortAndFail, AsFunctions
<1> QED BY Zenon, <1>3, <1>4, <1>5, <1>6, <1>7 DEF Step
\* A step names in the cache at most one call, which then has its effect or its task.
Recalls(x) ==
  /\ req'[x] \in Workload /\ Followed(x)'
  /\ Remember(x, req'[x])

\* Other calls are left alone, and what the cache is told is true.
LEMMA CacheKinds ==
  ASSUME HeldInv, TruthInv, [Next]_vars
  PROVE  /\ \A y \in Calls : pc[y] # "new" => GoesOn(y)
         /\ cache' = cache \/ \E x \in Calls : Recalls(x)
<1>0. /\ now \in Nat /\ AsFunctions /\ Asked
      /\ pc = [y \in Calls |-> pc[y]] /\ req = [y \in Calls |-> req[y]]
  BY Zenon DEF HeldInv, Asked, TruthInv
<1>1. ASSUME NEW x \in Calls, Step(x)
      PROVE  /\ \A y \in Calls : pc[y] # "new" => GoesOn(y)
             /\ cache' = cache \/ Recalls(x)
  <2>1. pc[x] # "new" /\ UNCHANGED req
    BY Zenon, <1>1 DEF Step, Begin, ProviderAnswers, Authorized, Finish, Interrupted, CancelDelivered,
       StreamOpens, StreamEnds, StreamBreaks, StreamAuthorized, StreamSent, AbortAndFail, Fail,
       HeldInv, HeldWhileRunning
  <2>2. \A y \in Calls \ {x} : Untouched(y)
    BY Zenon, <1>1, CallStep DEF StepOK
  <2>3. \A y \in Calls : pc[y] # "new" => GoesOn(y)
    BY Zenon, <1>1, <2>1, <2>2, CallGoesOn DEF Untouched, GoesOn
  <2>4. \/ cache' = cache
        \/ Finish(x) /\ Remember(x, req[x])
        \/ \E sent \in BOOLEAN : StreamSent(x, sent) /\ Remember(x, req[x])
    BY Zenon, <1>1 DEF Step, Begin, ProviderAnswers, Authorized, Finish, Interrupted, CancelDelivered,
       StreamOpens, StreamEnds, StreamBreaks, StreamAuthorized, StreamSent, AbortAndFail, Fail
  <2>5. CASE cache' # cache
    <3>1. /\ Remember(x, req[x]) /\ pc[x] \in {"answered", "sending"}
          /\ effect' = effect /\ pc' = [pc EXCEPT ![x] = "done"]
      BY Zenon, <2>4, <2>5 DEF Finish, StreamSent, Goto
    <3>2. effect'[x] # NoTime
      BY <3>1 DEF TruthInv, CallInv, NoTime
    <3>3. Followed(x)'
      <4>1. pc'[x] = "done"
        BY Zenon, <1>0, <3>1
      <4> QED BY <3>2, <4>1 DEF Followed, Committed
    <3> QED BY Zenon, <1>0, <2>1, <2>3, <3>1, <3>3 DEF Recalls, Asked
  <2> QED BY <2>3, <2>5
<1>2. ASSUME NEW x \in Calls, NEW k \in Kinds, NEW q \in Workload, Invoke(x, k, q)
      PROVE  /\ \A y \in Calls : pc[y] # "new" => GoesOn(y)
             /\ cache' = cache \/ Recalls(x)
  <2>1. /\ pc[x] = "new" /\ req' = [req EXCEPT ![x] = q] /\ kind' = [kind EXCEPT ![x] = k]
        /\ effect' = effect
        /\ \/ cache' = cache
           \/ /\ k = "async" /\ Remember(x, q) /\ pc' = [pc EXCEPT ![x] = "scheduled"]
              /\ task' = [task EXCEPT ![x] = "pending"]
    BY Zenon, <1>2 DEF Invoke, Goto
  <2>2. \A y \in Calls \ {x} : Untouched(y)
    BY Zenon, <1>2, CallStep DEF StepOK
  <2>3. \A y \in Calls : pc[y] # "new" => GoesOn(y)
    BY Zenon, <1>0, <2>1, <2>2 DEF Untouched, GoesOn
  <2>4. CASE cache' # cache
    BY Zenon, <1>0, <2>1, <2>3, <2>4 DEF Recalls, Followed, AsFunctions
  <2> QED BY <2>3, <2>4
<1>3. CASE \E x \in Calls : CancelTask(x)
  BY Zenon, <1>0, <1>3 DEF CancelTask, GoesOn, AsFunctions
<1>4. CASE Background \/ UNCHANGED vars
  BY Zenon, <1>4 DEF Background, vars, GoesOn
<1> QED BY Zenon, <1>1, <1>2, <1>3, <1>4 DEF Next

\* The cache keeps naming such calls.
LEMMA CacheStep ==
  ASSUME HeldInv, TruthInv, CacheInv, [Next]_vars
  PROVE  CacheInv'
<1>1. \A y \in Calls : Followed(y) => Followed(y)' /\ KeyOf(y)' = KeyOf(y)
  <2> SUFFICES ASSUME NEW y \in Calls, Followed(y) PROVE Followed(y)' /\ KeyOf(y)' = KeyOf(y)
    OBVIOUS
  <2>1. GoesOn(y)
    BY CacheKinds DEF Followed
  <2>2. Committed(y) => Committed(y)'
    BY <2>1 DEF GoesOn, Committed, NoTime
  <2> QED BY Zenon, <2>1, <2>2 DEF GoesOn, Followed, KeyOf, CacheKey
<1>2. CASE cache' = cache
  BY Zenon, <1>1, <1>2 DEF CacheInv, Followed
<1>3. ASSUME NEW x \in Calls, Recalls(x), cache' # cache
      PROVE  CacheInv'
  <2>1. KeyOf(x)' \in Store!IdemKeys
    BY Zenon, <1>3, KeyNames DEF Recalls, KeyOf
  <2>2. cache' = [cache EXCEPT ![KeyOf(x)'] = [call |-> x, expires_at |-> now + CacheTtl]]
    BY Zenon, <1>3 DEF Recalls, Remember, KeyOf
  <2>3. Followed(x)'
    BY <1>3 DEF Recalls
  <2> DEFINE K == KeyOf(x)'
  <2>4. cache'[K].call = x /\ \A k \in Store!IdemKeys \ {K} : cache'[k] = cache[k]
    BY <2>1, <2>2 DEF CacheInv
  <2>5. cache' = [k \in Store!IdemKeys |-> cache'[k]]
    BY <2>2 DEF CacheInv
  <2>6. ASSUME NEW k \in Store!IdemKeys, cache'[k].call # None
        PROVE  /\ cache'[k].call \in Calls
               /\ \A y \in Calls : y = cache'[k].call => Followed(y)' /\ KeyOf(y)' = k
    <3>1. CASE k = K
      BY Zenon, <2>3, <2>4, <3>1
    <3>2. CASE k # K
      BY <1>1, <2>4, <2>6, <3>2 DEF CacheInv, Followed
    <3> QED BY Zenon, <3>1, <3>2
  <2> QED BY <2>5, <2>6 DEF CacheInv
<1> QED BY <1>2, <1>3, CacheKinds

\* At the start no key was used.
LEMMA KeyInit == Init => HeldInv /\ KeyInv /\ CacheInv
<1> SUFFICES ASSUME Init PROVE HeldInv /\ KeyInv /\ CacheInv
  OBVIOUS
<1>1. HeldInv
  BY Zenon, AskedInit DEF Init, Store!Init, Store!NoReservation, HeldInv, HeldWhileRunning, Held
<1>2. Outcomes
  BY Zenon DEF Init, Store!Init, Store!NoOutcome, Outcomes
<1>3. \A x \in Calls : ~Held(x) /\ ~Committed(x)
  BY Zenon DEF Init, Store!Init, Store!NoReservation, Held, Committed
<1>4. BusyKeys /\ EffectsKept /\ OncePerKey
  BY Zenon, <1>3 DEF BusyKeys, EffectsKept, OncePerKey
<1>5. CacheInv
  BY Zenon DEF Init, NoCached, CacheInv
<1> QED BY <1>1, <1>2, <1>4, <1>5 DEF KeyInv

\* An idempotency key stands for one effect: whatever calls overlap, time out, are cancelled or
\* retried, two of them change the store under one key only when the store's retention of the
\* first is over, and the node replays only what happened (_handle_invoke, reserve, commit).
THEOREM KeysSafe == Spec => []Idempotent
<1>1. KeyInv /\ CacheInv => Idempotent
  BY Zenon DEF KeyInv, CacheInv, Followed, KeyOf, Idempotent, ReplaysWhatHappened
<1>2. HeldInv /\ TruthInv /\ KeyInv /\ CacheInv /\ [Next]_vars => KeyInv' /\ CacheInv'
  BY KeyStep, CacheStep
<1> QED
  BY <1>1, <1>2, KeyInit, TruthInit, TruthStep, HeldStep, PTL DEF Spec
=============================================================================
