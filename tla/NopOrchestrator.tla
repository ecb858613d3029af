--------------------------- MODULE NopOrchestrator ---------------------------
(***************************************************************************)
(* NopOrchestrator (nop/orchestrator.py) executing one task: the coroutine *)
(* of execute(), which launches DAG nodes and collects their outcomes, one *)
(* asyncio task per launched node (attempts, back-off, retries), saga      *)
(* compensation, cancel() calls, the task time-out and the completion      *)
(* callback.  The task store is the in-memory one: its methods never       *)
(* suspend, so the code between two real awaits is one action.             *)
(*                                                                         *)
(* Abstractions: results and error texts are left out; a worker's stream   *)
(* (sequence gaps, wrong sender, missing final frame, error frame, node    *)
(* time-out, failed input mapping) is an attempt that succeeds or fails.   *)
(***************************************************************************)
EXTENDS Integers, Sequences, FiniteSets

CONSTANTS
  Nodes,          \* node ids
  Dags,           \* the validated tasks that may be submitted
  MaxConcurrent,  \* options.max_concurrent_nodes
  MaxRetries,     \* max_retries of every node
  FatalErrors,    \* TRUE: retry_on is given, so an error may be one it does not name
  WorkerRaises,   \* TRUE: the worker client's stream may raise
  CallbackTries   \* NopConstants.CALLBACK_MAX_RETRIES

\* A task: its nodes in topological order, edges, input_from and min_required of each
\* node, the nodes with a condition and those with a compensate_action, the
\* compensation policy, whether preflight is asked for and a callback_url given.
Policies == {"none", "best_effort", "strict", "always"}

Dag ==
  [topo: Seq(Nodes), edges: SUBSET (Nodes \X Nodes), from: [Nodes -> SUBSET Nodes],
   k: [Nodes -> Nat], cond: SUBSET Nodes, comp: SUBSET Nodes, policy: Policies,
   preflight: BOOLEAN, callback: BOOLEAN]

NodesOf(d) == {d.topo[i] : i \in 1..Len(d.topo)}

\* DagValidator.validate: distinct node ids, edges and input_from between known nodes, and an
\* order in which every edge leads forward.  It does not ask that edges and input_from agree.
Validated(d) ==
  /\ d.topo # <<>>
  /\ \A i, j \in 1..Len(d.topo) : d.topo[i] = d.topo[j] => i = j
  /\ d.edges \subseteq NodesOf(d) \X NodesOf(d)
  /\ \A i, j \in 1..Len(d.topo) : <<d.topo[i], d.topo[j]>> \in d.edges => i < j
  /\ \A n \in Nodes : d.from[n] \subseteq NodesOf(d)

ASSUME NodesAssumption == IsFiniteSet(Nodes)
ASSUME DagsAssumption == \A d \in Dags : d \in Dag /\ Validated(d)
ASSUME BoundsAssumption ==
  /\ MaxConcurrent \in Nat \ {0} /\ MaxRetries \in Nat /\ CallbackTries \in Nat \ {0}
  /\ FatalErrors \in BOOLEAN /\ WorkerRaises \in BOOLEAN

VARIABLES
  dag,         \* the submitted task frame
  body,        \* where execute() is suspended
  record,      \* NopTaskRecord.state in the store
  subtask,     \* NopSubtaskRecord.state of each node in the store
  cancelled,   \* the task's cancel event is set
  node_states, \* _run_dag's node_states
  task,        \* the asyncio task of each node
  attempt,     \* its current attempt
  verdict,     \* success or failure, decided before the compensation
  todo,        \* the nodes _run_saga_compensation still has to compensate
  undone,      \* compensations carried out so far: <<node, success>>
  result,      \* what execute() returned
  callback     \* the callback: number of the next attempt, or how it ended

vars == <<dag, body, record, subtask, cancelled, node_states, task, attempt, verdict, todo,
          undone, result, callback>>
-----------------------------------------------------------------------------
(* The task's graph. *)

EndNodes(d) == {n \in NodesOf(d) : \A m \in NodesOf(d) : <<n, m>> \notin d.edges}

Required(n) == IF dag.k[n] > 0 THEN dag.k[n] ELSE Cardinality(dag.from[n])
Succeeded(ns, n) == Cardinality({m \in dag.from[n] : ns[m] \in {"completed", "skipped"}})
Failures(ns, n) == Cardinality({m \in dag.from[n] : ns[m] = "failed"})

\* _are_deps_done
DepsDone(ns, n) ==
  \/ dag.from[n] = {}
  \/ Succeeded(ns, n) >= Required(n)
  \/ Cardinality(dag.from[n]) - Failures(ns, n) < Required(n)

\* Mutant of Doomed: the K-of-N pass is missing.
DoomedNever(ns, n) == FALSE

\* The K-of-N pass at the top of the loop: K can never be met.
Doomed(ns, n) == dag.from[n] # {} /\ Succeeded(ns, n) < Required(n)

\* _can_end_node_still_succeed
CanStillSucceed(ns, e) ==
  /\ dag.from[e] # {}
  /\ Cardinality(dag.from[e]) - Failures(ns, e) >= Required(e)

\* _can_reach_end_node: what the search visits from n, the least set with n that no edge leaves.
Closed(S) == \A x, y \in Nodes : x \in S /\ <<x, y>> \in dag.edges => y \in S
Reachable(n) == {m \in Nodes : \A S \in SUBSET Nodes : n \in S /\ Closed(S) => m \in S}

MustAbort(ns, n) == \E e \in EndNodes(dag) \intersect Reachable(n) : ~CanStillSucceed(ns, e)
-----------------------------------------------------------------------------
(* Node tasks.  "idle": not launched; "created": launched, not yet run; *)
(* "collected": its outcome was taken by the loop.                      *)

Finished == {"completed", "failed", "skipped", "cancelled", "crashed"}
Running == {"created", "delegating", "sleeping"}
InFlight(ts) == {n \in Nodes : ts[n] \in Running \union Finished}

\* Every write of NopTaskRecord.state goes through InMemoryNopTaskStore.update_state,
\* which overwrites whatever is there.
Terminal == {"completed", "failed", "cancelled"}

\* Where the cancel event is registered in _cancel_events and the time-out armed.
Active == {"preflight", "wait", "abort", "compensating"}

\* The task record and the node tasks keep their types.
TypeOK ==
  /\ dag \in Dags
  /\ body \in Active \union {"idle", "returned", "raised"}
  /\ record \in Terminal \union {"absent", "pending", "preflight", "running", "compensating"}
  /\ subtask \in [Nodes -> {"none", "running", "completed", "failed", "skipped"}]
  /\ cancelled \in BOOLEAN
  /\ node_states \in [Nodes -> {"none", "completed", "failed", "skipped"}]
  /\ task \in [Nodes -> {"idle", "collected"} \union Running \union Finished]
  /\ attempt \in [Nodes -> 0..(MaxRetries + 1)]
  /\ verdict \in {"none", "completed", "failed"}
  /\ todo \subseteq Nodes
  /\ undone \in Seq(Nodes \X BOOLEAN)
  /\ result \in {"none", "completed", "failed", "insufficient", "timeout",
                 "compensation_failed", "compensation_not_supported"}
  /\ callback \in [tries: 0..CallbackTries, open: BOOLEAN]

Init ==
  /\ dag \in Dags
  /\ body = "idle" /\ record = "absent" /\ verdict = "none" /\ result = "none"
  /\ cancelled = FALSE
  /\ subtask = [n \in Nodes |-> "none"]
  /\ node_states = [n \in Nodes |-> "none"]
  /\ task = [n \in Nodes |-> "idle"]
  /\ attempt = [n \in Nodes |-> 0]
  /\ todo = {} /\ undone = <<>>
  /\ callback = [tries |-> 0, open |-> FALSE]
-----------------------------------------------------------------------------
(* The ends of execute(). *)

\* Mutant of Return: no callback for a failure.
ReturnSilently(res) ==
  /\ body' = "returned" /\ result' = res
  /\ record' = IF res = "completed" THEN "completed" ELSE "failed"
  /\ callback' = [callback EXCEPT !.open = dag.callback /\ res = "completed"]

\* A result is returned: the store gets its final state, the callback is scheduled.
Return(res) ==
  /\ body' = "returned" /\ result' = res
  /\ record' = IF res = "completed" THEN "completed" ELSE "failed"
  /\ callback' = [callback EXCEPT !.open = dag.callback]

\* CancelledError, or what a worker client raised, leaves execute(): the store keeps
\* the state it has.
Raise(rec) ==
  /\ body' = "raised" /\ record' = rec
  /\ UNCHANGED <<verdict, todo, undone, result, callback>>

\* Mutant of CompensationRuns: only the strict policy compensates.
CompensationRunsIfStrict(v) == v = "failed" /\ dag.policy = "strict"

\* _run_saga_compensation up to its first dispatch, with the code after it when there
\* is nothing to dispatch.
CompensationRuns(v) == IF v = "completed" THEN dag.policy = "always" ELSE dag.policy # "none"

ToCompensate(ns) == {n \in NodesOf(dag) \intersect dag.comp : ns[n] = "completed"}

Uncompensable(ns) == {n \in NodesOf(dag) \ dag.comp : ns[n] = "completed"}

Conclude(ns, v) ==
  /\ verdict' = v
  /\ UNCHANGED undone
  /\ \/ /\ CompensationRuns(v) /\ dag.policy = "strict" /\ Uncompensable(ns) # {}
        /\ Return("compensation_not_supported")
        /\ UNCHANGED todo
     \/ /\ CompensationRuns(v) /\ (dag.policy = "strict" => Uncompensable(ns) = {})
        /\ ToCompensate(ns) # {}
        /\ body' = "compensating" /\ record' = "compensating" /\ todo' = ToCompensate(ns)
        /\ UNCHANGED <<result, callback>>
     \/ /\ \/ ~CompensationRuns(v)
           \/ ToCompensate(ns) = {} /\ (dag.policy = "strict" => Uncompensable(ns) = {})
        /\ Return(v)
        /\ UNCHANGED todo

\* Mutant of Verdict: any failed node fails the task.
VerdictOfAny(ns) ==
  Conclude(ns, IF \E n \in NodesOf(dag) : ns[n] = "failed" THEN "failed" ELSE "completed")

\* The loop is left: the end nodes decide.
Verdict(ns) ==
  Conclude(ns, IF \E e \in EndNodes(dag) : ns[e] = "failed" THEN "failed" ELSE "completed")

\* One turn of the loop, from its condition to the next wait; the store holds rec.
Ready(ns, ts) ==
  {n \in NodesOf(dag) : ns[n] = "none" /\ n \notin InFlight(ts) /\ DepsDone(ns, n)}

DoomedPass(ns, ts) ==
  [n \in Nodes |-> IF n \in Ready(ns, ts) /\ Doomed(ns, n) THEN "failed" ELSE ns[n]]

\* Which ready nodes go first is the order of declaration, which the model leaves open.
Launches(ns, ts) ==
  LET fit == {n \in Ready(ns, ts) : ~Doomed(ns, n)}
      free == MaxConcurrent - Cardinality(InFlight(ts))
  IN  {L \in SUBSET fit : Cardinality(L) = IF Cardinality(fit) < free THEN Cardinality(fit)
                                                                     ELSE free}

LoopTurn(ns, ts, rec) ==
  \/ /\ \A n \in NodesOf(dag) : ns[n] # "none"
     /\ node_states' = ns /\ task' = ts
     /\ Verdict(ns)
     /\ UNCHANGED subtask
  \/ /\ \E n \in NodesOf(dag) : ns[n] = "none"
     /\ cancelled
     /\ node_states' = ns /\ task' = ts
     /\ Raise(rec)
     /\ UNCHANGED subtask
  \/ /\ \E n \in NodesOf(dag) : ns[n] = "none"
     /\ ~cancelled
     /\ node_states' = DoomedPass(ns, ts)
     /\ subtask' = [n \in Nodes |-> IF node_states'[n] # ns[n] THEN "failed" ELSE subtask[n]]
     /\ \E L \in Launches(ns, ts) :
          /\ task' = [n \in Nodes |-> IF n \in L THEN "created" ELSE ts[n]]
          /\ IF InFlight(task') = {}
             THEN Verdict(node_states')
             ELSE /\ body' = "wait" /\ record' = rec
                  /\ UNCHANGED <<verdict, todo, undone, result, callback>>
-----------------------------------------------------------------------------
(* The actions. *)

\* execute() of a new task with a valid frame, up to its first suspension.
Execute ==
  /\ body = "idle"
  /\ \/ /\ dag.preflight
        /\ body' = "preflight" /\ record' = "preflight"
        /\ UNCHANGED <<subtask, node_states, task, verdict, todo, undone, result, callback>>
     \/ ~dag.preflight /\ LoopTurn(node_states, task, "running")
  /\ UNCHANGED <<dag, cancelled, attempt>>

\* The probes have answered; one that is unavailable, or fails, fails the task.
PreflightAnswers(available) ==
  /\ body = "preflight"
  /\ \/ ~available /\ Return("insufficient")
        /\ UNCHANGED <<subtask, node_states, task, verdict, todo, undone>>
     \/ available /\ LoopTurn(node_states, task, "running")
  /\ UNCHANGED <<dag, cancelled, attempt>>

\* A node's task ends with an outcome that the store gets as well.
NodeEnds(n, outcome) ==
  /\ task' = [task EXCEPT ![n] = outcome]
  /\ subtask' = [subtask EXCEPT ![n] = outcome]

\* _should_retry, for an error that retry_on names.
MayRetry(n) == attempt[n] <= MaxRetries

\* First step of a launched node's task: cancellation, then its condition.
NodeStarts(n, condition) ==
  /\ task[n] = "created"
  /\ condition \in IF n \in dag.cond THEN {"true", "false", "error"} ELSE {"true"}
  /\ \/ /\ cancelled
        /\ task' = [task EXCEPT ![n] = "cancelled"]
        /\ UNCHANGED <<subtask, attempt>>
     \/ /\ ~cancelled /\ condition = "true"
        /\ task' = [task EXCEPT ![n] = "delegating"]
        /\ subtask' = [subtask EXCEPT ![n] = "running"]
        /\ attempt' = [attempt EXCEPT ![n] = 1]
     \/ /\ ~cancelled /\ condition # "true"
        /\ NodeEnds(n, IF condition = "false" THEN "skipped" ELSE "failed")
        /\ UNCHANGED attempt
  /\ UNCHANGED <<dag, body, record, cancelled, node_states, verdict, todo, undone, result, callback>>

\* The attempt ends: a result, an error (retry_on may not name it), or an exception of
\* the worker client, which nothing catches.
NodeAnswers(n, answer) ==
  /\ task[n] = "delegating"
  /\ \/ answer = "completed" /\ NodeEnds(n, "completed")
     \/ /\ answer = "error" /\ MayRetry(n)
        /\ task' = [task EXCEPT ![n] = "sleeping"]
        /\ UNCHANGED subtask
     \/ /\ \/ answer = "error" /\ ~MayRetry(n)
           \/ answer = "fatal" /\ FatalErrors
        /\ NodeEnds(n, "failed")
     \/ /\ answer = "exception" /\ WorkerRaises
        /\ task' = [task EXCEPT ![n] = "crashed"]
        /\ UNCHANGED subtask
  /\ UNCHANGED <<dag, body, record, cancelled, node_states, attempt, verdict, todo, undone, result,
                 callback>>

\* Mutant of NodeWakes: cancellation is not tested again.
NodeWakesHeedless(n) ==
  /\ task[n] = "sleeping"
  /\ task' = [task EXCEPT ![n] = "delegating"]
  /\ subtask' = [subtask EXCEPT ![n] = "running"]
  /\ attempt' = [attempt EXCEPT ![n] = @ + 1]
  /\ UNCHANGED <<dag, body, record, cancelled, node_states, verdict, todo, undone, result, callback>>

\* The back-off is over: the next attempt, unless the task was cancelled meanwhile.
NodeWakes(n) ==
  /\ task[n] = "sleeping"
  /\ \/ /\ cancelled
        /\ task' = [task EXCEPT ![n] = "cancelled"]
        /\ UNCHANGED <<subtask, attempt>>
     \/ /\ ~cancelled
        /\ task' = [task EXCEPT ![n] = "delegating"]
        /\ subtask' = [subtask EXCEPT ![n] = "running"]
        /\ attempt' = [attempt EXCEPT ![n] = @ + 1]
  /\ UNCHANGED <<dag, body, record, cancelled, node_states, verdict, todo, undone, result, callback>>

\* asyncio.wait returns with n finished: its outcome, the abort decision, the next turn.
Collects(n) ==
  /\ body = "wait" /\ task[n] \in Finished
  /\ LET ns == [node_states EXCEPT ![n] = task[n]]
         ts == [task EXCEPT ![n] = "collected"]
         abort == task[n] = "failed" /\ MustAbort(ns, n)
     IN  \/ /\ task[n] \in {"cancelled", "crashed"}
            /\ task' = ts
            /\ Raise(record)
            /\ UNCHANGED <<subtask, node_states>>
         \/ /\ abort /\ InFlight(ts) # {}
            /\ body' = "abort" /\ node_states' = ns /\ task' = ts
            /\ UNCHANGED <<record, subtask, verdict, todo, undone, result, callback>>
         \/ /\ abort /\ InFlight(ts) = {}
            /\ node_states' = ns /\ task' = ts
            /\ Conclude(ns, "failed")
            /\ UNCHANGED subtask
         \/ /\ task[n] \in {"completed", "skipped", "failed"} /\ ~abort
            /\ LoopTurn(ns, ts, record)
  /\ UNCHANGED <<dag, cancelled, attempt>>

\* _wait_and_abort_in_flight is over: whatever the last nodes did is left out of
\* node_states.
AbortSettles ==
  /\ body = "abort"
  /\ \A n \in Nodes : task[n] \notin Running
  /\ Conclude(node_states, "failed")
  /\ UNCHANGED <<dag, cancelled, subtask, node_states, task, attempt>>

\* The compensation of the node that comes last among those left ends; after the last one
\* the task's result is returned.
CompensationAnswers(success) ==
  /\ body = "compensating"
  /\ \E i \in 1..Len(dag.topo) :
       /\ dag.topo[i] \in todo
       /\ \A j \in (i + 1)..Len(dag.topo) : dag.topo[j] \notin todo
       /\ undone' = Append(undone, <<dag.topo[i], success>>)
       /\ todo' = todo \ {dag.topo[i]}
  /\ \/ /\ todo' # {}
        /\ UNCHANGED <<body, record, result, callback>>
     \/ /\ todo' = {}
        /\ Return(IF dag.policy = "strict" /\ \E i \in 1..Len(undone') : ~undone'[i][2]
                  THEN "compensation_failed" ELSE verdict)
  /\ UNCHANGED <<dag, cancelled, subtask, node_states, task, attempt, verdict>>

CompensationRaises ==
  /\ WorkerRaises /\ body = "compensating"
  /\ Raise(record)
  /\ UNCHANGED <<dag, cancelled, subtask, node_states, task, attempt>>

\* wait_for gives up on the task's body.  asyncio.wait leaves its tasks running,
\* asyncio.gather cancels them.
TaskTimesOut ==
  /\ body \in Active
  /\ body' = "returned" /\ result' = "timeout" /\ record' = "failed"
  /\ task' = [n \in Nodes |-> IF body = "abort" /\ task[n] \in Running THEN "cancelled"
                                                                      ELSE task[n]]
  /\ UNCHANGED <<dag, cancelled, subtask, node_states, attempt, verdict, todo, undone, callback>>

\* cancel(): the event if it is still registered, and the store in any case.
Cancel ==
  /\ record # "absent"
  /\ cancelled' = (cancelled \/ body \in Active)
  /\ record' = "cancelled"
  /\ UNCHANGED <<dag, body, subtask, node_states, task, attempt, verdict, todo, undone, result,
                 callback>>

\* One POST of _fire_callback.
CallbackPosted(success) ==
  /\ callback.open
  /\ callback' = [tries |-> callback.tries + 1,
                  open |-> ~success /\ callback.tries + 1 < CallbackTries]
  /\ UNCHANGED <<dag, body, record, subtask, cancelled, node_states, task, attempt, verdict, todo,
                 undone, result>>

NodeStep(n) ==
  \/ \E c \in {"true", "false", "error"} : NodeStarts(n, c)
  \/ \E a \in {"completed", "error", "fatal", "exception"} : NodeAnswers(n, a)
  \/ NodeWakes(n)

Engine ==
  \/ Execute
  \/ \E ok \in BOOLEAN : PreflightAnswers(ok)
  \/ \E n \in Nodes : Collects(n)
  \/ AbortSettles
  \/ \E ok \in BOOLEAN : CompensationAnswers(ok)
  \/ CompensationRaises

Next ==
  \/ Engine
  \/ \E n \in Nodes : NodeStep(n)
  \/ \E ok \in BOOLEAN : CallbackPosted(ok)
  \/ TaskTimesOut
  \/ Cancel

Spec == Init /\ [][Next]_vars

\* asyncio runs every task that can run; probes, workers and the callback endpoint answer
\* or hit their own time-outs.  Neither cancel() nor the task time-out need ever come.
FairSpec ==
  /\ Spec
  /\ WF_vars(Engine)
  /\ \A n \in Nodes : WF_vars(NodeStep(n))
  /\ WF_vars(\E ok \in BOOLEAN : CallbackPosted(ok))
-----------------------------------------------------------------------------
(* Safety. *)

Stopped(n) == task[n] \notin Running

\* A node with inputs was launched only after K of them succeeded (_are_deps_done and the
\* K-of-N pass, over every order in which nodes finish).
DependenciesMet ==
  \A n \in Nodes : task[n] # "idle" /\ dag.from[n] # {} => Succeeded(node_states, n) >= Required(n)

\* No node runs forward while, or after, something is being undone.
CompensationAlone == body = "compensating" \/ undone # <<>> => \A n \in Nodes : Stopped(n)

\* Each completed node is undone once, and before every node it depends on.
UndoneInReverse ==
  /\ \A i \in 1..Len(undone) : node_states[undone[i][1]] = "completed"
  /\ \A i, j \in 1..Len(undone) : i < j => undone[j][1] \notin Reachable(undone[i][1])

\* A task that fails by its DAG has tried to undo exactly the completed nodes that can be
\* undone, when the policy asks for it; one that succeeds only under "always".
FailureUndone ==
  LET effects == {n \in dag.comp : node_states[n] = "completed"}
      tried == {undone[i][1] : i \in 1..Len(undone)}
  IN  /\ result \in {"failed", "compensation_failed"} => tried = IF dag.policy = "none" THEN {} ELSE effects
      /\ result = "completed" => tried = IF dag.policy = "always" THEN effects ELSE {}
      /\ result = "compensation_not_supported" => tried = {}

\* Saga compensation: it starts when every forward node has stopped (_wait_and_abort_in_flight),
\* undoes completed nodes in reverse topological order, and undoes all of them, or none, as the
\* result and the policy ask, whatever order the nodes finished in and though some finish while
\* the task is being aborted.
SagaSafe == CompensationAlone /\ UndoneInReverse /\ FailureUndone

\* COMPLETED means that every end node ran to completion or was skipped by its condition
\* ("All nodes done - check for end-node failures").
CompletedMeansDone ==
  result = "completed" => \A e \in EndNodes(dag) : node_states[e] \in {"completed", "skipped"}

\* Every node that an edge leads to names inputs.
InputsNamed == \A x, y \in Nodes : <<x, y>> \in dag.edges => dag.from[y] # {}

\* K-of-N tolerance: a task fails by its DAG only if some end node did not succeed.  The abort
\* decision (_can_end_node_still_succeed) gives up an end node without inputs as soon as a node
\* that leads to it fails, so this is about tasks whose edges are named in input_from.
ToleratesFailures ==
  InputsNamed /\ result \in {"failed", "compensation_failed", "compensation_not_supported"} =>
    \E e \in EndNodes(dag) : node_states[e] \notin {"completed", "skipped"}

\* After cancel() has set the event no attempt is dispatched any more.
CancelStopsDispatch == [][cancelled => attempt' = attempt]_vars

-----------------------------------------------------------------------------
(* Liveness. *)

\* execute() ends (_run_dag), whatever the nodes do and without help from the task time-out, and nothing
\* is left running for ever, the tasks that outlive execute() included.
Ends == /\ body # "idle" ~> body \in {"returned", "raised"}
        /\ <>[](\A n \in Nodes : Stopped(n))

\* A result with a callback_url is posted, and the posting ends (_fire_callback).
CallbackSettles ==
  (result \notin {"none", "timeout"} /\ dag.callback) ~> (callback.tries > 0 /\ ~callback.open)

\* Nothing about a task stays open for ever: neither execute(), nor a node, nor the callback.
Settles == Ends /\ CallbackSettles
=============================================================================
