----------------------- MODULE NopOrchestratorProofs -----------------------
(***************************************************************************)
(* NopOrchestrator for every set of validated tasks and every bound: no    *)
(* attempt after a cancellation, dependencies before a launch, failures    *)
(* tolerated up to K of N, and compensation that is complete, in order and *)
(* alone.                                                                  *)
(*                                                                         *)
(* One turn of the loop changes node_states and the node tasks together    *)
(* (Tracks); everything after the loop leaves them alone, so what the      *)
(* verdict and the compensation were decided on stays true (Phases,        *)
(* Undoes).                                                                *)
(***************************************************************************)
EXTENDS NopOrchestrator, FiniteSetTheorems, TLAPS

(* After cancel() no attempt starts: both places that start one test the event. *)

\* No step of a cancelled task changes the attempt of any node (_execute_node_with_retry).
THEOREM CancelSafe == Spec => CancelStopsDispatch
<1>1. ASSUME [Next]_vars
      PROVE  [cancelled => attempt' = attempt]_vars
  <2>1. CASE Engine
    BY Zenon, <2>1 DEF Engine, Execute, PreflightAnswers, Collects, AbortSettles, CompensationAnswers,
       CompensationRaises
  <2>2. ASSUME NEW n \in Nodes, NodeStep(n)
        PROVE  cancelled => attempt' = attempt
    BY Zenon, <2>2 DEF NodeStep, NodeStarts, NodeAnswers, NodeWakes
  <2>3. CASE (\E ok \in BOOLEAN : CallbackPosted(ok)) \/ TaskTimesOut \/ Cancel
    BY <2>3 DEF CallbackPosted, TaskTimesOut, Cancel
  <2> QED BY <1>1, <2>1, <2>2, <2>3 DEF Next
<1> QED BY <1>1, PTL DEF Spec, CancelStopsDispatch
-----------------------------------------------------------------------------
(* The graph, and counting inputs. *)

Outcomes == {"none", "completed", "failed", "skipped"}
Good == {"completed", "skipped"}

\* What a validated task frame is made of.
LEMMA DagShape ==
  ASSUME dag \in Dags
  PROVE  /\ dag.topo \in Seq(Nodes) /\ Len(dag.topo) \in Nat
         /\ \A i \in 1..Len(dag.topo) : dag.topo[i] \in Nodes
         /\ dag.edges \subseteq Nodes \X Nodes /\ dag.comp \subseteq Nodes
         /\ dag.from \in [Nodes -> SUBSET Nodes] /\ dag.k \in [Nodes -> Nat]
         /\ dag.policy \in Policies
         /\ Validated(dag) /\ NodesOf(dag) \subseteq Nodes
<1>1. dag \in Dag /\ Validated(dag)
  BY DagsAssumption
<1>2. dag.topo \in Seq(Nodes)
  BY <1>1 DEF Dag
<1>3. \A i \in 1..Len(dag.topo) : dag.topo[i] \in Nodes
  BY <1>2
<1> QED BY <1>1, <1>2, <1>3 DEF Dag, NodesOf

\* The counts of a node's inputs are numbers, and a success and a failure are two inputs.
LEMMA Counts ==
  ASSUME dag \in Dags, NEW ns, NEW n \in Nodes
  PROVE  /\ Required(n) \in Nat /\ Cardinality(dag.from[n]) \in Nat
         /\ Succeeded(ns, n) \in Nat /\ Failures(ns, n) \in Nat
         /\ Succeeded(ns, n) + Failures(ns, n) <= Cardinality(dag.from[n])
<1> DEFINE F == dag.from[n]
           G == {m \in F : ns[m] \in Good}
           B == {m \in F : ns[m] = "failed"}
<1>1. F \subseteq Nodes /\ dag.k[n] \in Nat
  BY DagShape
<1>2. IsFiniteSet(F)
  BY <1>1, NodesAssumption, FS_Subset
<1>3. IsFiniteSet(G) /\ IsFiniteSet(B)
  BY <1>2, FS_Subset
<1>4. Cardinality(F) \in Nat /\ Cardinality(G) \in Nat /\ Cardinality(B) \in Nat
  BY <1>2, <1>3, FS_CardinalityType
<1>5. G \intersect B = {}
  BY DEF Good
<1>6. Cardinality(G \union B) = Cardinality(G) + Cardinality(B)
  <2>1. Cardinality(G \union B) = Cardinality(G) + Cardinality(B) - Cardinality(G \intersect B)
    BY <1>3, FS_Union
  <2>2. Cardinality(G \intersect B) = 0
    BY <1>5, FS_EmptySet
  <2> HIDE DEF G, B, F
  <2> QED BY <2>1, <2>2, <1>4
<1>7. Cardinality(G \union B) <= Cardinality(F)
  BY <1>2, FS_Subset
<1>8. Succeeded(ns, n) = Cardinality(G) /\ Failures(ns, n) = Cardinality(B)
  BY DEF Succeeded, Failures, Good
<1>9. Required(n) \in Nat
  BY <1>1, <1>4 DEF Required
<1> HIDE DEF F, G, B
<1>10. Cardinality(F) = Cardinality(dag.from[n])
  BY DEF F
<1> QED BY <1>4, <1>6, <1>7, <1>8, <1>9, <1>10

\* A success stays a success, so the successes of a node only grow.
LEMMA SuccessesGrow ==
  ASSUME dag \in Dags, NEW ns, NEW ms, NEW n \in Nodes,
         \A m \in Nodes : ns[m] \in Good => ms[m] \in Good
  PROVE  Succeeded(ns, n) <= Succeeded(ms, n)
<1> DEFINE G == {m \in dag.from[n] : ns[m] \in Good}
           H == {m \in dag.from[n] : ms[m] \in Good}
<1>1. dag.from[n] \subseteq Nodes
  BY DagShape
<1>2. IsFiniteSet(H) /\ G \subseteq H
  BY <1>1, NodesAssumption, FS_Subset
<1>3. Cardinality(G) <= Cardinality(H)
  BY <1>2, FS_Subset
<1> QED BY <1>3 DEF Succeeded, Good
-----------------------------------------------------------------------------
(* The loop's books: node_states and the node tasks. *)

TaskStates == {"idle", "collected"} \union Running \union Finished

\* Node n may have run: it has no inputs, or enough of them succeeded.
Met(ns, n) == dag.from[n] # {} => Succeeded(ns, n) >= Required(n)

\* A node is in flight only while it has no state, has succeeded only if it was collected, and
\* was launched only when its inputs allowed it.
Tracked(ns, ts, n) ==
  /\ ts[n] # "idle" \/ ns[n] # "none" => n \in NodesOf(dag)
  /\ ts[n] \in Running \union Finished => ns[n] = "none"
  /\ ns[n] \in Good => ts[n] = "collected"
  /\ ts[n] # "idle" => Met(ns, n)

Tracks(ns, ts) ==
  /\ ns \in [Nodes -> Outcomes] /\ ts \in [Nodes -> TaskStates]
  /\ \A n \in Nodes : Tracked(ns, ts, n)

\* A node that was allowed to run stays allowed while successes only come in.
LEMMA MetStays ==
  ASSUME dag \in Dags, NEW ns, NEW ms, NEW n \in Nodes, Met(ns, n),
         \A m \in Nodes : ns[m] \in Good => ms[m] \in Good
  PROVE  Met(ms, n)
<1>1. Succeeded(ns, n) <= Succeeded(ms, n)
  BY SuccessesGrow
<1>2. Succeeded(ns, n) \in Nat /\ Required(n) \in Nat
  BY Counts
<1>3. Succeeded(ms, n) \in Nat
  BY Counts
<1> QED BY <1>1, <1>2, <1>3 DEF Met

\* Taking the outcome of a finished node (node_states[finished_node_id] = outcome.state).
LEMMA OutcomeTracks ==
  ASSUME dag \in Dags, NEW ns, NEW ts, Tracks(ns, ts), NEW n \in Nodes,
         ts[n] \in {"completed", "failed", "skipped"}
  PROVE  Tracks([ns EXCEPT ![n] = ts[n]], [ts EXCEPT ![n] = "collected"])
<1> DEFINE ms == [ns EXCEPT ![n] = ts[n]]
           us == [ts EXCEPT ![n] = "collected"]
<1>1. /\ ns \in [Nodes -> Outcomes] /\ ts \in [Nodes -> TaskStates]
      /\ \A m \in Nodes : Tracked(ns, ts, m)
  BY DEF Tracks
<1>2. ns[n] = "none" /\ n \in NodesOf(dag)
  BY <1>1 DEF Tracked, Finished
<1>3. ms \in [Nodes -> Outcomes] /\ us \in [Nodes -> TaskStates]
  BY <1>1 DEF Outcomes, TaskStates
<1>4. \A m \in Nodes : /\ ms[m] = IF m = n THEN ts[n] ELSE ns[m]
                       /\ us[m] = IF m = n THEN "collected" ELSE ts[m]
  BY <1>1
<1> HIDE DEF ms, us
<1>5. \A m \in Nodes : ns[m] \in Good => ms[m] \in Good
  BY <1>2, <1>4 DEF Good
<1>6. ASSUME NEW m \in Nodes
      PROVE  Tracked(ms, us, m)
  <2>1. Tracked(ns, ts, m)
    BY <1>1
  <2>2. us[m] # "idle" => Met(ms, m)
    <3>1. us[m] # "idle" => ts[m] # "idle"
      BY <1>4
    <3>2. us[m] # "idle" => Met(ns, m)
      BY <3>1, <2>1 DEF Tracked
    <3> QED BY <3>2, <1>5, MetStays
  <2>3. CASE m = n
    <3>1. ms[m] # "none" /\ us[m] = "collected"
      BY <2>3, <1>4
    <3> QED BY <3>1, <2>2, <2>3, <1>2 DEF Tracked, Running, Finished
  <2>4. CASE m # n
    <3>1. ms[m] = ns[m] /\ us[m] = ts[m]
      BY <2>4, <1>4
    <3> QED BY <3>1, <2>1, <2>2 DEF Tracked
  <2> QED BY <2>3, <2>4
<1> QED BY Zenon, <1>3, <1>6 DEF Tracks, ms, us

\* The K-of-N pass and the launches of one turn keep the books.
LEMMA LaunchTracks ==
  ASSUME dag \in Dags, NEW ns, NEW ts, Tracks(ns, ts), NEW L \in Launches(ns, ts)
  PROVE  Tracks(DoomedPass(ns, ts), [n \in Nodes |-> IF n \in L THEN "created" ELSE ts[n]])
<1> DEFINE ms == DoomedPass(ns, ts)
           us == [n \in Nodes |-> IF n \in L THEN "created" ELSE ts[n]]
<1>1. /\ ns \in [Nodes -> Outcomes] /\ ts \in [Nodes -> TaskStates]
      /\ \A m \in Nodes : Tracked(ns, ts, m)
  BY DEF Tracks
<1>2. \A m \in L : /\ m \in Ready(ns, ts) /\ ~Doomed(ns, m)
  BY DEF Launches
<1>3. \A m \in Ready(ns, ts) : ns[m] = "none" /\ m \in NodesOf(dag) /\ m \notin InFlight(ts)
  BY DEF Ready
<1>4. \A m \in Nodes :
        /\ ms[m] = IF m \in Ready(ns, ts) /\ Doomed(ns, m) THEN "failed" ELSE ns[m]
        /\ us[m] = IF m \in L THEN "created" ELSE ts[m]
  BY DEF DoomedPass
<1>5. ms \in [Nodes -> Outcomes] /\ us \in [Nodes -> TaskStates]
  BY <1>1 DEF Outcomes, TaskStates, DoomedPass, Running
<1> HIDE DEF ms, us
<1>6. \A m \in Nodes : ns[m] \in Good => ms[m] \in Good
  BY <1>3, <1>4 DEF Good
<1>7. ASSUME NEW m \in Nodes
      PROVE  Tracked(ms, us, m)
  <2>1. Tracked(ns, ts, m)
    BY <1>1
  <2>2. us[m] # "idle" => Met(ms, m)
    <3>1. CASE m \in L
      <4>1. ~Doomed(ns, m)
        BY <3>1, <1>2
      <4>2. Succeeded(ns, m) \in Nat /\ Required(m) \in Nat
        BY Counts
      <4>3. Met(ns, m)
        BY <4>1, <4>2 DEF Doomed, Met
      <4> QED BY <4>3, <1>6, MetStays
    <3>2. CASE m \notin L
      <4>1. us[m] # "idle" => Met(ns, m)
        BY <3>2, <1>4, <2>1 DEF Tracked
      <4> QED BY <4>1, <1>6, MetStays
    <3> QED BY <3>1, <3>2
  <2>3. CASE m \in L
    <3>1. us[m] = "created" /\ ms[m] = "none" /\ m \in NodesOf(dag)
      BY <2>3, <1>2, <1>3, <1>4
    <3> QED BY <3>1, <2>2 DEF Tracked, Good
  <2>4. CASE m \notin L /\ m \in Ready(ns, ts) /\ Doomed(ns, m)
    <3>1. us[m] = ts[m] /\ ms[m] = "failed" /\ m \in NodesOf(dag) /\ m \notin InFlight(ts)
      BY <2>4, <1>3, <1>4
    <3> QED BY <3>1, <2>2 DEF Tracked, Good, InFlight
  <2>5. CASE m \notin L /\ ~(m \in Ready(ns, ts) /\ Doomed(ns, m))
    <3>1. us[m] = ts[m] /\ ms[m] = ns[m]
      BY <2>5, <1>4
    <3> QED BY <3>1, <2>1, <2>2 DEF Tracked
  <2> QED BY <2>3, <2>4, <2>5
<1> QED BY <1>5, <1>7 DEF Tracks, ms, us
-----------------------------------------------------------------------------
(* The abort decision and the verdict. *)

EndMissed(ns) == \E e \in EndNodes(dag) : ns[e] \notin Good

\* A node that something else reaches is at the end of an edge.
LEMMA ReachedByEdge ==
  ASSUME NEW n \in Nodes, NEW e \in Reachable(n), e # n
  PROVE  \E x \in Nodes : <<x, e>> \in dag.edges
<1> SUFFICES ASSUME \A x \in Nodes : <<x, e>> \notin dag.edges
             PROVE  FALSE
  OBVIOUS
<1> DEFINE S == Nodes \ {e}
<1>1. S \in SUBSET Nodes /\ n \in S /\ Closed(S)
  BY DEF Closed
<1>2. e \in S
  BY <1>1 DEF Reachable
<1> QED BY <1>2

\* When the loop aborts (must_abort), some end node has not succeeded.
LEMMA AbortMisses ==
  ASSUME dag \in Dags, InputsNamed, NEW ns, NEW ts, Tracks(ns, ts), NEW n \in Nodes,
         ns[n] = "failed", MustAbort(ns, n)
  PROVE  EndMissed(ns)
<1>1. PICK e \in EndNodes(dag) \intersect Reachable(n) : ~CanStillSucceed(ns, e)
  BY DEF MustAbort
<1>2. e \in Nodes /\ e \in EndNodes(dag) /\ e \in Reachable(n)
  BY DEF Reachable
<1> SUFFICES ASSUME ns[e] \in Good
             PROVE  FALSE
  BY <1>2 DEF EndMissed
<1>3. e # n
  BY DEF Good
<1>4. dag.from[e] # {}
  BY Zenon, <1>2, <1>3, ReachedByEdge DEF InputsNamed
<1>5. Succeeded(ns, e) >= Required(e)
  BY <1>2, <1>4 DEF Tracks, Tracked, Met
<1>6. /\ Required(e) \in Nat /\ Cardinality(dag.from[e]) \in Nat
      /\ Succeeded(ns, e) \in Nat /\ Failures(ns, e) \in Nat
      /\ Succeeded(ns, e) + Failures(ns, e) <= Cardinality(dag.from[e])
  BY <1>2, Counts
<1> QED BY <1>1, <1>4, <1>5, <1>6 DEF CanStillSucceed
-----------------------------------------------------------------------------
(* The steps of the engine, by what they do to the task. *)

Halted(ts) == \A n \in Nodes : ts[n] \notin Running
Before == {"idle", "preflight", "wait"}
Rest == <<verdict, todo, undone, result>>

\* The verdict v is reached on the node states ns, with no node running in ts.
Decides(ns, ts, v) ==
  /\ v \in {"completed", "failed"} /\ Halted(ts)
  /\ v = "failed" /\ InputsNamed => EndMissed(ns)
  /\ Conclude(ns, v)

\* What a turn leads to: another wait, an abort, an early end or the verdict.
Onward(ns, ts) ==
  \/ body' \in {"preflight", "wait", "raised"} /\ UNCHANGED Rest
  \/ body' = "abort" /\ UNCHANGED Rest /\ (InputsNamed => EndMissed(ns))
  \/ body' = "returned" /\ result' = "insufficient" /\ UNCHANGED <<verdict, todo, undone>>
  \/ \E v \in {"completed", "failed"} : Decides(ns, ts, v)

\* With nothing in flight, or a state for every node, no node runs.
LEMMA NothingRuns ==
  ASSUME NEW ns, NEW ts, Tracks(ns, ts),
         InFlight(ts) = {} \/ \A n \in NodesOf(dag) : ns[n] # "none"
  PROVE  Halted(ts)
BY DEF Halted, Tracks, Tracked, InFlight, Running

\* The end nodes decide on what they are.
LEMMA VerdictDecides ==
  ASSUME NEW ns, NEW ts, Halted(ts), Verdict(ns)
  PROVE  \E v \in {"completed", "failed"} : Decides(ns, ts, v)
<1> DEFINE bad == \E e \in EndNodes(dag) : ns[e] = "failed"
           v == IF bad THEN "failed" ELSE "completed"
<1>1. Conclude(ns, v)
  BY DEF Verdict
<1>2. v = "failed" => EndMissed(ns)
  BY DEF EndMissed, Good
<1>3. v \in {"completed", "failed"}
  OBVIOUS
<1> HIDE DEF v
<1> QED BY <1>1, <1>2, <1>3 DEF Decides

\* One turn of the loop (_run_dag's while body) keeps the books and goes onward.
LEMMA TurnGoesOn ==
  ASSUME dag \in Dags, NEW ns, NEW ts, Tracks(ns, ts), NEW rec, LoopTurn(ns, ts, rec)
  PROVE  \E ms, us : /\ node_states' = ms /\ task' = us
                     /\ Tracks(ms, us) /\ Onward(ms, us)
<1>1. CASE /\ \A n \in NodesOf(dag) : ns[n] # "none"
           /\ node_states' = ns /\ task' = ts
           /\ Verdict(ns)
  <2>1. Halted(ts)
    BY <1>1, NothingRuns
  <2>2. Onward(ns, ts)
    BY <1>1, <2>1, VerdictDecides DEF Onward
  <2> QED BY <1>1, <2>2
<1>2. CASE node_states' = ns /\ task' = ts /\ Raise(rec)
  <2>1. Onward(ns, ts)
    BY <1>2 DEF Onward, Raise, Rest
  <2> QED BY <1>2, <2>1
<1>3. CASE /\ node_states' = DoomedPass(ns, ts)
           /\ \E L \in Launches(ns, ts) :
                /\ task' = [n \in Nodes |-> IF n \in L THEN "created" ELSE ts[n]]
                /\ IF InFlight(task') = {}
                   THEN Verdict(node_states')
                   ELSE /\ body' = "wait" /\ record' = rec
                        /\ UNCHANGED <<verdict, todo, undone, result, callback>>
  <2>1. PICK L \in Launches(ns, ts) :
                /\ task' = [n \in Nodes |-> IF n \in L THEN "created" ELSE ts[n]]
                /\ IF InFlight(task') = {}
                   THEN Verdict(node_states')
                   ELSE /\ body' = "wait" /\ record' = rec
                        /\ UNCHANGED <<verdict, todo, undone, result, callback>>
    BY <1>3
  <2> DEFINE ms == DoomedPass(ns, ts)
             us == [n \in Nodes |-> IF n \in L THEN "created" ELSE ts[n]]
  <2>2. Tracks(ms, us)
    BY LaunchTracks
  <2>3. node_states' = ms /\ task' = us
    BY <1>3, <2>1
  <2> HIDE DEF ms, us
  <2>4. CASE InFlight(us) = {}
    <3>1. Halted(us)
      BY <2>2, <2>4, NothingRuns
    <3>2. Verdict(ms)
      BY <2>1, <2>3, <2>4
    <3> QED BY <3>1, <3>2, <2>2, <2>3, VerdictDecides DEF Onward
  <2>5. CASE InFlight(us) # {}
    <3>1. Onward(ms, us)
      BY <2>1, <2>3, <2>5 DEF Onward, Rest
    <3> QED BY <3>1, <2>2, <2>3
  <2> QED BY <2>4, <2>5
<1> QED BY <1>1, <1>2, <1>3 DEF LoopTurn
\* Node tasks that run go on or finish; the others stay as they are.
TaskMoves ==
  /\ task' \in [Nodes -> TaskStates]
  /\ \A n \in Nodes : IF task[n] \in Running THEN task'[n] \in Running \union Finished
                                             ELSE task'[n] = task[n]

Moves == TaskMoves /\ UNCHANGED <<dag, node_states, body, Rest>>

Expires ==
  /\ TaskMoves /\ body \in Active /\ body' = "returned" /\ result' = "timeout"
  /\ UNCHANGED <<dag, node_states, verdict, todo, undone>>

Turns ==
  /\ body \in Before /\ UNCHANGED dag
  /\ \E ms, us : /\ node_states' = ms /\ task' = us
                 /\ Tracks(ms, us) /\ Onward(ms, us)

GivesUp ==
  /\ body = "abort" /\ Halted(task) /\ Conclude(node_states, "failed")
  /\ UNCHANGED <<dag, node_states, task>>

Breaks ==
  /\ body = "compensating" /\ body' = "raised"
  /\ UNCHANGED <<dag, node_states, task, Rest>>

\* A node task's own steps.
LEMMA NodeMoves ==
  ASSUME task \in [Nodes -> TaskStates], NEW n \in Nodes, NodeStep(n)
  PROVE  Moves
<1>1. ASSUME NEW v \in TaskStates, v \in Running \union Finished,
             task[n] \in Running, task' = [task EXCEPT ![n] = v]
      PROVE  TaskMoves
  BY <1>1 DEF TaskMoves
<1>2. UNCHANGED <<dag, node_states, body, Rest>>
  BY DEF NodeStep, NodeStarts, NodeAnswers, NodeWakes, Rest
<1>3. task[n] \in {"created", "delegating", "sleeping"}
  BY DEF NodeStep, NodeStarts, NodeAnswers, NodeWakes
<1> DEFINE Ahead == \E v \in {"cancelled", "delegating", "skipped", "failed", "completed",
                              "sleeping", "crashed"} : task' = [task EXCEPT ![n] = v]
<1>4. Ahead
  <2>1. ASSUME NEW c, NodeStarts(n, c)
        PROVE  Ahead
    BY Zenon, <2>1 DEF NodeStarts, NodeEnds
  <2>2. ASSUME NEW a, NodeAnswers(n, a)
        PROVE  Ahead
    BY <2>2 DEF NodeAnswers, NodeEnds
  <2>3. CASE NodeWakes(n)
    BY <2>3 DEF NodeWakes
  <2> QED BY <2>1, <2>2, <2>3 DEF NodeStep
<1>5. TaskMoves
  BY Zenon, <1>1, <1>3, <1>4 DEF TaskStates, Running, Finished
<1> QED BY <1>2, <1>5 DEF Moves

\* A collected node whose task raised leaves no state.
LEMMA RaisedTracks ==
  ASSUME dag \in Dags, NEW ns, NEW ts, Tracks(ns, ts), NEW n \in Nodes, ts[n] \in Finished
  PROVE  Tracks(ns, [ts EXCEPT ![n] = "collected"])
<1> DEFINE us == [ts EXCEPT ![n] = "collected"]
<1>1. ts \in [Nodes -> TaskStates] /\ ns \in [Nodes -> Outcomes]
  BY DEF Tracks
<1>2. us \in [Nodes -> TaskStates]
  BY <1>1 DEF TaskStates
<1>3. \A m \in Nodes : us[m] = IF m = n THEN "collected" ELSE ts[m]
  BY <1>1
<1> HIDE DEF us
<1>4. ASSUME NEW m \in Nodes
      PROVE  Tracked(ns, us, m)
  <2>1. Tracked(ns, ts, m)
    BY DEF Tracks
  <2> QED BY <1>3, <2>1 DEF Tracked, Running, Finished
<1> QED BY Zenon, <1>1, <1>2, <1>4 DEF Tracks, us

\* Taking one outcome (the rest of the loop body after asyncio.wait).
LEMMA CollectsTurns ==
  ASSUME dag \in Dags, Tracks(node_states, task), NEW n \in Nodes, Collects(n)
  PROVE  Turns
<1> DEFINE ns == [node_states EXCEPT ![n] = task[n]]
           ts == [task EXCEPT ![n] = "collected"]
           abort == task[n] = "failed" /\ MustAbort(ns, n)
<1>0. body \in Before /\ UNCHANGED dag /\ task[n] \in Finished
  BY DEF Collects, Before
<1>1. CASE /\ task[n] \in {"cancelled", "crashed"}
           /\ task' = ts /\ Raise(record) /\ UNCHANGED node_states
  <2>1. Tracks(node_states, ts)
    BY <1>0, RaisedTracks
  <2> HIDE DEF ts
  <2>2. Onward(node_states, ts)
    BY <1>1 DEF Onward, Raise, Rest
  <2> QED BY <1>0, <1>1, <2>1, <2>2 DEF Turns
<1>2. ASSUME task[n] \in {"completed", "failed", "skipped"}
      PROVE  Tracks(ns, ts)
  BY <1>2, OutcomeTracks
<1>3. ASSUME abort, InputsNamed
      PROVE  EndMissed(ns)
  <2>1. Tracks(ns, ts) /\ ns[n] = "failed"
    BY Zenon, <1>2, <1>3 DEF Tracks
  <2> HIDE DEF ns, ts
  <2> QED BY <2>1, <1>3, AbortMisses
<1>4. CASE /\ abort /\ body' = "abort" /\ node_states' = ns /\ task' = ts
           /\ UNCHANGED <<verdict, todo, undone, result>>
  <2>1. Tracks(ns, ts)
    BY <1>2, <1>4
  <2> HIDE DEF ns, ts
  <2>2. Onward(ns, ts)
    BY <1>3, <1>4 DEF Onward, Rest
  <2> QED BY <1>0, <1>4, <2>1, <2>2 DEF Turns
<1>5. CASE /\ abort /\ InFlight(ts) = {} /\ node_states' = ns /\ task' = ts
           /\ Conclude(ns, "failed")
  <2>1. Tracks(ns, ts)
    BY <1>2, <1>5
  <2> HIDE DEF ns, ts
  <2>2. Halted(ts)
    BY <1>5, <2>1, NothingRuns
  <2>3. Decides(ns, ts, "failed")
    BY <1>3, <1>5, <2>2 DEF Decides
  <2> QED BY <1>0, <1>5, <2>1, <2>3 DEF Turns, Onward
<1>6. CASE task[n] \in {"completed", "skipped", "failed"} /\ LoopTurn(ns, ts, record)
  <2>1. Tracks(ns, ts)
    BY <1>2, <1>6
  <2> HIDE DEF ns, ts
  <2> QED BY <1>0, <1>6, <2>1, TurnGoesOn DEF Turns
<1> QED BY Zenon, <1>1, <1>4, <1>5, <1>6 DEF Collects

\* Every step is of one of these kinds.
LEMMA StepKinds ==
  ASSUME dag \in Dags, Tracks(node_states, task), [Next]_vars
  PROVE  \/ Moves \/ Expires \/ Turns \/ GivesUp \/ Breaks
         \/ \E ok \in BOOLEAN : CompensationAnswers(ok)
<1>0. task \in [Nodes -> TaskStates]
  BY DEF Tracks
<1>1. CASE UNCHANGED vars \/ Cancel \/ \E ok \in BOOLEAN : CallbackPosted(ok)
  <2>1. UNCHANGED <<dag, node_states, body, task, Rest>>
    BY <1>1 DEF vars, Cancel, CallbackPosted, Rest
  <2>2. TaskMoves
    BY <2>1, <1>0 DEF TaskMoves
  <2> QED BY <2>1, <2>2 DEF Moves
<1>2. CASE TaskTimesOut
  <2>1. TaskMoves
    BY <1>2, <1>0 DEF TaskTimesOut, TaskMoves, TaskStates, Finished
  <2> QED BY <1>2, <2>1 DEF TaskTimesOut, Expires
<1>3. CASE Execute \/ \E ok \in BOOLEAN : PreflightAnswers(ok)
  <2>1. body \in Before /\ UNCHANGED dag
    BY <1>3 DEF Execute, PreflightAnswers, Before
  <2>2. CASE LoopTurn(node_states, task, "running")
    BY <2>1, <2>2, TurnGoesOn DEF Turns
  <2>3. CASE ~LoopTurn(node_states, task, "running")
    <3>1. UNCHANGED <<node_states, task>>
      BY <1>3, <2>3 DEF Execute, PreflightAnswers
    <3>2. Onward(node_states, task)
      BY <1>3, <2>3 DEF Execute, PreflightAnswers, Onward, Rest, Return
    <3> QED BY <2>1, <3>1, <3>2 DEF Turns
  <2> QED BY <2>2, <2>3
<1>4. CASE AbortSettles
  BY <1>4 DEF AbortSettles, GivesUp, Halted
<1>5. CASE CompensationRaises
  BY <1>5 DEF CompensationRaises, Raise, Breaks, Rest
<1>6. CASE \E n \in Nodes : Collects(n)
  BY <1>6, CollectsTurns
<1>7. CASE \E n \in Nodes : NodeStep(n)
  BY <1>7, <1>0, NodeMoves
<1> QED BY <1>1, <1>2, <1>3, <1>4, <1>5, <1>6, <1>7 DEF Next, Engine-----------------------------------------------------------------------------
(* Dependencies. *)

Graph == dag \in Dags /\ Tracks(node_states, task)

\* The books of another moment, in the names of this one.
LEMMA TracksNext ==
  ASSUME UNCHANGED dag, NEW ms, NEW us, node_states' = ms, task' = us, Tracks(ms, us)
  PROVE  Tracks(node_states, task)'
BY Zenon DEF Tracks, Tracked, Met, Succeeded, Required, NodesOf

\* Node tasks that only go on keep the books.
LEMMA MovesTrack ==
  ASSUME Tracks(node_states, task), TaskMoves, UNCHANGED <<dag, node_states>>
  PROVE  Tracks(node_states, task)'
<1>1. PICK us : us = task'
  OBVIOUS
<1>2. us \in [Nodes -> TaskStates]
  BY <1>1 DEF TaskMoves
<1>3. ASSUME NEW n \in Nodes
      PROVE  Tracked(node_states, us, n)
  <2>1. Tracked(node_states, task, n)
    BY DEF Tracks
  <2>2. IF task[n] \in Running THEN us[n] \in Running \union Finished ELSE us[n] = task[n]
    BY <1>1 DEF TaskMoves
  <2> QED BY Zenon, <2>1, <2>2 DEF Tracked, Running, Finished, Good
<1>4. Tracks(node_states, us)
  BY <1>2, <1>3 DEF Tracks
<1> QED BY <1>1, <1>4, TracksNext

\* Every step keeps the books.
LEMMA GraphStep ==
  ASSUME Graph, [Next]_vars
  PROVE  Graph'
<1>0. dag \in Dags /\ Tracks(node_states, task)
  BY DEF Graph
<1>1. CASE Moves \/ Expires
  <2>1. TaskMoves /\ UNCHANGED <<dag, node_states>>
    BY <1>1 DEF Moves, Expires
  <2> QED BY <2>1, <1>0, MovesTrack DEF Graph
<1>2. CASE Turns
  <2>1. PICK ms, us : node_states' = ms /\ task' = us /\ Tracks(ms, us)
    BY <1>2 DEF Turns
  <2>2. UNCHANGED dag
    BY <1>2 DEF Turns
  <2> QED BY <2>1, <2>2, <1>0, TracksNext DEF Graph
<1>3. CASE GivesUp \/ Breaks \/ \E ok \in BOOLEAN : CompensationAnswers(ok)
  <2>1. UNCHANGED <<dag, node_states, task>>
    BY <1>3 DEF GivesUp, Breaks, CompensationAnswers
  <2> QED BY <2>1, <1>0, TracksNext DEF Graph
<1> QED BY <1>0, <1>1, <1>2, <1>3, StepKinds

\* The books are right from the start and stay right.
LEMMA GraphInvariant == Spec => []Graph
<1>1. Init => Graph
  BY DEF Init, Graph, Tracks, Tracked, Outcomes, TaskStates, Running, Finished, Good
<1>2. Graph /\ [Next]_vars => Graph'
  BY GraphStep
<1> QED BY <1>1, <1>2, PTL DEF Spec

\* K-of-N: no node is ever launched before K of its inputs succeeded, and this stays visible in
\* node_states (_are_deps_done and the K-of-N pass of _run_dag).
THEOREM DependenciesSafe == Spec => []DependenciesMet
<1>1. Graph => DependenciesMet
  BY DEF Graph, Tracks, Tracked, Met, DependenciesMet
<1> QED BY <1>1, GraphInvariant, PTL
-----------------------------------------------------------------------------
(* The verdict. *)

Phases ==
  /\ body \notin {"compensating", "returned", "raised"} =>
       undone = <<>> /\ todo = {} /\ verdict = "none"
  /\ body # "returned" => result = "none"
  /\ body = "compensating" =>
       /\ verdict \in {"completed", "failed"} /\ CompensationRuns(verdict)
  /\ body = "compensating" \/ undone # <<>> => Halted(task)
  /\ (body = "abort" \/ verdict = "failed") /\ InputsNamed => EndMissed(node_states)
  /\ result \in {"failed", "compensation_failed", "compensation_not_supported"} =>
       verdict = "failed"

\* What a verdict leads to: a refusal, the first compensation, or the result.
LEMMA ConcludeKinds ==
  ASSUME dag \in Dags, NEW ns, NEW v \in {"completed", "failed"}, Conclude(ns, v)
  PROVE  /\ verdict' = v /\ undone' = undone
         /\ \/ /\ body' = "returned" /\ result' = "compensation_not_supported"
               /\ v = "failed" /\ todo' = todo
            \/ /\ body' = "compensating" /\ result' = result
               /\ CompensationRuns(v) /\ todo' = ToCompensate(ns)
            \/ /\ body' = "returned" /\ result' = v /\ todo' = todo
               /\ ~CompensationRuns(v) \/ ToCompensate(ns) = {}
BY DEF Conclude, Return, CompensationRuns

\* What Phases says of a verdict reached now.
LEMMA DecisionPhase ==
  ASSUME dag \in Dags, UNCHANGED dag, undone = <<>>, result = "none",
         NEW ns, NEW ts, NEW v \in {"completed", "failed"}, Decides(ns, ts, v),
         node_states' = ns, task' = ts
  PROVE  Phases'
<1>1. /\ Halted(ts) /\ (v = "failed" /\ InputsNamed => EndMissed(ns)) /\ Conclude(ns, v)
  BY DEF Decides
<1>2. Halted(task)'
  BY <1>1 DEF Halted
<1>3. (v = "failed" /\ InputsNamed => EndMissed(node_states))'
  BY <1>1 DEF EndMissed, EndNodes, NodesOf, InputsNamed
<1>4. CompensationRuns(v)' <=> CompensationRuns(v)
  BY DEF CompensationRuns
<1>5. /\ verdict' = v /\ undone' = <<>>
      /\ \/ /\ body' = "returned" /\ result' = "compensation_not_supported" /\ v = "failed"
         \/ /\ body' = "compensating" /\ result' = "none" /\ CompensationRuns(v)
         \/ /\ body' = "returned" /\ result' = v
  BY <1>1, ConcludeKinds
<1>6. (body = "compensating" => CompensationRuns(verdict))'
  BY <1>4, <1>5 DEF CompensationRuns
<1> QED BY <1>2, <1>3, <1>5, <1>6 DEF Phases
\* A compensation ends (the loop of _run_saga_compensation).
LEMMA AnswerKinds ==
  ASSUME NEW ok \in BOOLEAN, CompensationAnswers(ok)
  PROVE  /\ body = "compensating" /\ UNCHANGED <<dag, node_states, task, verdict>>
         /\ \/ body' = "compensating" /\ result' = result
            \/ /\ body' = "returned" /\ todo' = {}
               /\ \/ result' = verdict
                  \/ result' = "compensation_failed" /\ dag.policy = "strict"
BY DEF CompensationAnswers, Return

\* Every step keeps what the phases of execute() promise each other.
LEMMA PhaseStep ==
  ASSUME Graph, Phases, [Next]_vars
  PROVE  Phases'
<1>0. dag \in Dags /\ Tracks(node_states, task)
  BY DEF Graph
<1>1. ASSUME UNCHANGED <<dag, node_states>>
      PROVE  /\ InputsNamed' <=> InputsNamed
             /\ EndMissed(node_states)' <=> EndMissed(node_states)
  BY <1>1 DEF InputsNamed, EndMissed, EndNodes, NodesOf
<1>2. TaskMoves /\ Halted(task) => Halted(task)'
  BY DEF TaskMoves, Halted
<1>3. CASE Moves
  BY <1>3, <1>1, <1>2 DEF Moves, Rest, Phases, CompensationRuns
<1>4. CASE Expires
  BY <1>4, <1>1, <1>2 DEF Expires, Active, Phases
<1>5. CASE Turns
  <2>1. PICK ms, us : node_states' = ms /\ task' = us /\ Onward(ms, us)
    BY <1>5 DEF Turns
  <2>2. /\ UNCHANGED dag /\ body \in Before
        /\ undone = <<>> /\ todo = {} /\ verdict = "none" /\ result = "none"
    BY <1>5 DEF Turns, Before, Phases
  <2>3. CASE body' \in {"preflight", "wait", "raised"} /\ UNCHANGED Rest
    BY <2>2, <2>3 DEF Rest, Phases
  <2>4. CASE body' = "abort" /\ UNCHANGED Rest /\ (InputsNamed => EndMissed(ms))
    <3>1. (InputsNamed => EndMissed(node_states))'
      BY Zenon, <2>1, <2>2, <2>4 DEF InputsNamed, EndMissed, EndNodes, NodesOf
    <3> QED BY <2>2, <2>4, <3>1 DEF Rest, Phases
  <2>5. CASE body' = "returned" /\ result' = "insufficient" /\ UNCHANGED <<verdict, todo, undone>>
    BY <2>2, <2>5 DEF Phases
  <2>6. CASE \E v \in {"completed", "failed"} : Decides(ms, us, v)
    BY <2>1, <2>2, <2>6, <1>0, DecisionPhase
  <2> QED BY <2>1, <2>3, <2>4, <2>5, <2>6 DEF Onward
<1>6. CASE GivesUp
  <2>1. undone = <<>> /\ result = "none" /\ (InputsNamed => EndMissed(node_states))
    BY <1>6 DEF GivesUp, Phases
  <2>2. Decides(node_states, task, "failed")
    BY <1>6, <2>1 DEF GivesUp, Decides
  <2>3. UNCHANGED <<dag, node_states, task>>
    BY <1>6 DEF GivesUp
  <2> QED BY <2>1, <2>2, <2>3, <1>0, DecisionPhase
<1>7. CASE Breaks
  BY <1>7, <1>1 DEF Breaks, Rest, Phases, Halted
<1>8. ASSUME NEW ok \in BOOLEAN, CompensationAnswers(ok)
      PROVE  Phases'
  <2>1. /\ body = "compensating" /\ UNCHANGED <<dag, node_states, task, verdict>>
        /\ \/ body' = "compensating" /\ result' = result
           \/ /\ body' = "returned"
              /\ \/ result' = verdict
                 \/ result' = "compensation_failed" /\ dag.policy = "strict"
    BY <1>8, AnswerKinds
  <2>2. verdict \in {"completed", "failed"} /\ CompensationRuns(verdict) /\ Halted(task)
    BY <2>1 DEF Phases
  <2>3. dag.policy = "strict" => verdict = "failed"
    BY <2>2 DEF CompensationRuns
  <2>4. Halted(task)' /\ CompensationRuns(verdict)'
    BY <2>1, <2>2 DEF Halted, CompensationRuns
  <2>5. (verdict = "failed" /\ InputsNamed => EndMissed(node_states))'
    BY <2>1, <1>1 DEF Phases
  <2> QED BY <2>1, <2>2, <2>3, <2>4, <2>5 DEF Phases
<1> QED BY <1>0, <1>3, <1>4, <1>5, <1>6, <1>7, <1>8, StepKinds

\* The phases of execute() keep their promises.
LEMMA PhaseInvariant == Spec => []Phases
<1>1. Init => Phases
  BY DEF Init, Phases, Halted, Running
<1>2. Graph /\ Phases /\ [Next]_vars => Phases'
  BY PhaseStep
<1> QED BY <1>1, <1>2, GraphInvariant, PTL DEF Spec

\* K-of-N tolerance: however the nodes finish, a task whose edges are named in input_from fails
\* by its DAG only if an end node did not succeed (must_abort and the end of _run_dag).
THEOREM ToleranceSafe == Spec => []ToleratesFailures
<1>1. Phases => ToleratesFailures
  BY DEF Phases, ToleratesFailures, EndMissed, Good
<1> QED BY <1>1, PhaseInvariant, PTL
-----------------------------------------------------------------------------
(* Compensation. *)

Tried == {undone[i][1] : i \in 1..Len(undone)}

Undoes ==
  /\ undone \in Seq(Nodes \X BOOLEAN) /\ todo \subseteq Nodes
  /\ body = "compensating" => todo \union Tried = ToCompensate(node_states)
  /\ \A i \in 1..Len(undone) : node_states[undone[i][1]] = "completed"
  /\ \A i \in 1..Len(undone) : \A p, q \in 1..Len(dag.topo) :
       dag.topo[p] = undone[i][1] /\ dag.topo[q] \in todo => q < p
  /\ \A i, j \in 1..Len(undone) : \A p, q \in 1..Len(dag.topo) :
       i < j /\ dag.topo[p] = undone[i][1] /\ dag.topo[q] = undone[j][1] => q < p
  /\ FailureUndone

\* With the books right, what can be undone is what FailureUndone counts.
LEMMA Effects ==
  ASSUME dag \in Dags, NEW ns, NEW ts, Tracks(ns, ts)
  PROVE  ToCompensate(ns) = {n \in dag.comp : ns[n] = "completed"}
BY DagShape DEF Tracks, Tracked, ToCompensate

\* A verdict reached with nothing undone yet.
LEMMA DecisionUndoes ==
  ASSUME dag \in Dags, UNCHANGED dag, undone = <<>>, todo = {}, result = "none",
         NEW ns, NEW ts, Tracks(ns, ts), NEW v \in {"completed", "failed"}, Conclude(ns, v),
         node_states' = ns, task' = ts
  PROVE  Undoes'
<1>1. /\ undone' = <<>> 
      /\ \/ /\ body' = "returned" /\ result' = "compensation_not_supported" /\ todo' = {}
         \/ /\ body' = "compensating" /\ result' = "none" /\ todo' = ToCompensate(ns)
         \/ /\ body' = "returned" /\ result' = v /\ todo' = {}
            /\ ~CompensationRuns(v) \/ ToCompensate(ns) = {}
  BY ConcludeKinds
<1>2. ToCompensate(ns) = {n \in dag.comp : ns[n] = "completed"} /\ ToCompensate(ns) \subseteq Nodes
  BY Effects, DagShape
<1>3. Len(undone') = 0 /\ Tried' = {} /\ undone' \in Seq(Nodes \X BOOLEAN)
  BY <1>1 DEF Tried
<1>4. ToCompensate(node_states)' = ToCompensate(ns)
  BY DEF ToCompensate, NodesOf
<1>5. FailureUndone'
  BY Zenon, <1>1, <1>2, <1>3 DEF FailureUndone, CompensationRuns, Tried
<1>6. (body = "compensating" => todo \union Tried = ToCompensate(node_states))'
  BY <1>1, <1>3, <1>4
<1>7. todo' \subseteq Nodes
  BY Zenon, <1>1, <1>2
<1> QED BY <1>3, <1>5, <1>6, <1>7 DEF Undoes
\* A step that touches neither the states nor the compensation keeps what is known of it.
LEMMA UndoesStays ==
  ASSUME Undoes, UNCHANGED <<dag, node_states, todo, undone>>,
         body' = "compensating" => body = "compensating",
         result' = result \/ result' = "timeout"
  PROVE  Undoes'
<1>1. ToCompensate(node_states)' = ToCompensate(node_states) /\ Tried' = Tried
  BY DEF ToCompensate, NodesOf, Tried
<1>2. FailureUndone'
  <2>1. FailureUndone
    BY DEF Undoes
  <2>2. CASE result' = result
    <3> DEFINE E == {n \in dag.comp : node_states[n] = "completed"}
               Balance(res, tried, effects) ==
                 /\ res \in {"failed", "compensation_failed"} =>
                      tried = IF dag.policy = "none" THEN {} ELSE effects
                 /\ res = "completed" => tried = IF dag.policy = "always" THEN effects ELSE {}
                 /\ res = "compensation_not_supported" => tried = {}
    <3>1. E' = E /\ dag'.policy = dag.policy
      OBVIOUS
    <3>2. Balance(result, Tried, E)
      BY Zenon, <2>1 DEF FailureUndone, Tried
    <3>3. Balance(result, Tried, E)'
      <4> HIDE DEF E
      <4> QED BY <3>1, <3>2, <2>2, <1>1
    <3> QED BY Zenon, <3>3 DEF FailureUndone, Tried
  <2>3. CASE result' = "timeout"
    BY <2>3 DEF FailureUndone
  <2> QED BY <2>2, <2>3
<1> QED BY <1>1, <1>2 DEF Undoes

\* One node more is undone: the one that comes last among those left.
LEMMA AnswerUndoes ==
  ASSUME Graph, Phases, Undoes, NEW ok \in BOOLEAN, CompensationAnswers(ok)
  PROVE  Undoes'
<1>0. dag \in Dags /\ Tracks(node_states, task)
  BY DEF Graph
<1>1. PICK k \in 1..Len(dag.topo) :
        /\ dag.topo[k] \in todo
        /\ \A j \in (k + 1)..Len(dag.topo) : dag.topo[j] \notin todo
        /\ undone' = Append(undone, <<dag.topo[k], ok>>)
        /\ todo' = todo \ {dag.topo[k]}
  BY Zenon DEF CompensationAnswers
<1>2. PICK x : x = dag.topo[k]
  OBVIOUS
<1>3. /\ body = "compensating" /\ UNCHANGED <<dag, node_states, task, verdict>>
      /\ \/ body' = "compensating" /\ result' = result
         \/ /\ body' = "returned" /\ todo' = {}
            /\ \/ result' = verdict
               \/ result' = "compensation_failed" /\ dag.policy = "strict"
  BY AnswerKinds
<1>4. /\ Len(dag.topo) \in Nat /\ x \in Nodes
      /\ \A i, j \in 1..Len(dag.topo) : dag.topo[i] = dag.topo[j] => i = j
  BY <1>0, <1>2, DagShape DEF Validated
<1>5. undone \in Seq(Nodes \X BOOLEAN) /\ Len(undone) \in Nat
  BY DEF Undoes
<1>6. /\ undone' \in Seq(Nodes \X BOOLEAN) /\ Len(undone') = Len(undone) + 1
      /\ \A i \in 1..Len(undone) : undone'[i] = undone[i]
      /\ undone'[Len(undone) + 1] = <<x, ok>>
  BY <1>1, <1>2, <1>4, <1>5
<1>7. \A i \in 1..Len(undone') :
        IF i \in 1..Len(undone) THEN undone'[i][1] = undone[i][1] ELSE i = Len(undone) + 1 /\ undone'[i][1] = x
  BY <1>5, <1>6
<1>8. Tried' = Tried \union {x}
  <2>1. ASSUME NEW t \in Tried'
        PROVE  t \in Tried \union {x}
    BY <1>7, <2>1 DEF Tried
  <2>2. ASSUME NEW t \in Tried
        PROVE  t \in Tried'
    <3>1. PICK i \in 1..Len(undone) : t = undone[i][1]
      BY DEF Tried
    <3>2. i \in 1..Len(undone') /\ undone'[i][1] = t
      BY <3>1, <1>5, <1>6
    <3> QED BY <3>2 DEF Tried
  <2>3. x \in Tried'
    <3>1. Len(undone) + 1 \in 1..Len(undone') /\ undone'[Len(undone) + 1][1] = x
      BY <1>5, <1>6
    <3> QED BY <3>1 DEF Tried
  <2> QED BY <2>1, <2>2, <2>3
<1>9. todo \union Tried = ToCompensate(node_states)
  BY <1>3 DEF Undoes
<1>10. todo' \union Tried' = ToCompensate(node_states)
  BY <1>1, <1>2, <1>8, <1>9
<1>11. ToCompensate(node_states)' = ToCompensate(node_states)
  BY <1>3 DEF ToCompensate, NodesOf
<1>12. node_states[x] = "completed"
  BY <1>1, <1>2, <1>9 DEF ToCompensate
<1>13. (\A i \in 1..Len(undone) : node_states[undone[i][1]] = "completed")'
  BY Zenon, <1>3, <1>7, <1>12 DEF Undoes
<1>14. (\A i \in 1..Len(undone) : \A p, q \in 1..Len(dag.topo) :
          dag.topo[p] = undone[i][1] /\ dag.topo[q] \in todo => q < p)'
  <2> SUFFICES ASSUME NEW i \in 1..Len(undone'), NEW p \in 1..Len(dag.topo),
                      NEW q \in 1..Len(dag.topo),
                      dag.topo[p] = undone'[i][1], dag.topo[q] \in todo'
               PROVE  q < p
    BY Zenon, <1>3
  <2>1. dag.topo[q] \in todo /\ q # k
    BY Zenon, <1>1
  <2>2. CASE i \in 1..Len(undone)
    BY Zenon, <2>1, <2>2, <1>7 DEF Undoes
  <2>3. CASE i \notin 1..Len(undone)
    <3>1. p = k
      BY Zenon, <2>3, <1>2, <1>4, <1>7
    <3>2. q \notin (k + 1)..Len(dag.topo)
      BY Zenon, <2>1, <1>1
    <3> QED BY <3>1, <3>2, <2>1, <1>4
  <2> QED BY <2>2, <2>3
<1>15. (\A i, j \in 1..Len(undone) : \A p, q \in 1..Len(dag.topo) :
          i < j /\ dag.topo[p] = undone[i][1] /\ dag.topo[q] = undone[j][1] => q < p)'
  <2> SUFFICES ASSUME NEW i \in 1..Len(undone'), NEW j \in 1..Len(undone'),
                      NEW p \in 1..Len(dag.topo), NEW q \in 1..Len(dag.topo), i < j,
                      dag.topo[p] = undone'[i][1], dag.topo[q] = undone'[j][1]
               PROVE  q < p
    BY Zenon, <1>3
  <2>1. i \in 1..Len(undone) /\ undone'[i][1] = undone[i][1]
    BY <1>5, <1>6, <1>7
  <2>2. CASE j \in 1..Len(undone)
    BY Zenon, <2>1, <2>2, <1>7 DEF Undoes
  <2>3. CASE j \notin 1..Len(undone)
    <3>1. dag.topo[q] \in todo
      BY Zenon, <2>3, <1>1, <1>2, <1>7
    <3> QED BY Zenon, <2>1, <3>1 DEF Undoes
  <2> QED BY <2>2, <2>3
<1>16. FailureUndone'
  <2>1. ToCompensate(node_states) = {n \in dag.comp : node_states[n] = "completed"}
    BY <1>0, Effects
  <2>2. verdict \in {"completed", "failed"} /\ CompensationRuns(verdict) /\ result = "none"
    BY <1>3 DEF Phases
  <2>3. CASE body' = "compensating" /\ result' = result
    BY <2>2, <2>3 DEF FailureUndone
  <2>4. CASE /\ body' = "returned" /\ todo' = {}
             /\ \/ result' = verdict
                \/ result' = "compensation_failed" /\ dag.policy = "strict"
    <3>1. Tried' = {n \in dag.comp : node_states[n] = "completed"}'
      BY <2>1, <2>4, <1>3, <1>10
    <3>2. /\ result' = "completed" => dag.policy = "always"
          /\ result' \in {"failed", "compensation_failed"} => dag.policy # "none"
          /\ result' \in {"completed", "failed", "compensation_failed"}
      BY <2>2, <2>4 DEF CompensationRuns
    <3> QED BY <3>1, <3>2, <1>3 DEF FailureUndone, Tried
  <2> QED BY <1>3, <2>3, <2>4
<1> QED BY Zenon, <1>1, <1>6, <1>10, <1>11, <1>13, <1>14, <1>15, <1>16 DEF Undoes

\* Every step keeps what is known of the compensation.
LEMMA UndoStep ==
  ASSUME Graph, Phases, Undoes, [Next]_vars
  PROVE  Undoes'
<1>0. dag \in Dags /\ Tracks(node_states, task)
  BY DEF Graph
<1>1. CASE Moves \/ Expires \/ Breaks
  BY <1>1, UndoesStays DEF Moves, Expires, Breaks, Rest
<1>2. CASE Turns
  <2>1. PICK ms, us : node_states' = ms /\ task' = us /\ Tracks(ms, us) /\ Onward(ms, us)
    BY <1>2 DEF Turns
  <2>2. /\ UNCHANGED dag /\ body \in Before
        /\ undone = <<>> /\ todo = {} /\ verdict = "none" /\ result = "none"
    BY <1>2 DEF Turns, Before, Phases
  <2>3. CASE \E v \in {"completed", "failed"} : Decides(ms, us, v)
    BY <2>1, <2>2, <2>3, <1>0, DecisionUndoes DEF Decides
  <2>4. CASE /\ body' # "compensating" /\ UNCHANGED <<todo, undone>>
             /\ result' \in {"none", "insufficient"}
    <3>1. Len(undone') = 0 /\ undone' \in Seq(Nodes \X BOOLEAN) /\ todo' = {}
      BY <2>2, <2>4
    <3>2. FailureUndone'
      BY <2>4 DEF FailureUndone
    <3> QED BY <2>4, <3>1, <3>2 DEF Undoes
  <2>5. \/ \E v \in {"completed", "failed"} : Decides(ms, us, v)
        \/ /\ body' # "compensating" /\ UNCHANGED <<todo, undone>>
           /\ result' \in {"none", "insufficient"}
    BY <2>1, <2>2 DEF Onward, Rest
  <2> QED BY <2>3, <2>4, <2>5
<1>3. CASE GivesUp
  <2>1. undone = <<>> /\ todo = {} /\ result = "none"
    BY <1>3 DEF GivesUp, Phases
  <2>2. UNCHANGED <<dag, node_states, task>> /\ Conclude(node_states, "failed")
    BY <1>3 DEF GivesUp
  <2> QED BY <2>1, <2>2, <1>0, DecisionUndoes
<1>4. ASSUME NEW ok \in BOOLEAN, CompensationAnswers(ok)
      PROVE  Undoes'
  BY <1>4, AnswerUndoes
<1> QED BY <1>0, <1>1, <1>2, <1>3, <1>4, StepKinds

\* A node reaches only nodes that come after it in the validated order.
LEMMA ReachesForward ==
  ASSUME dag \in Dags, NEW p \in 1..Len(dag.topo), NEW q \in 1..Len(dag.topo), q < p
  PROVE  dag.topo[q] \notin Reachable(dag.topo[p])
<1>1. /\ Len(dag.topo) \in Nat /\ \A i \in 1..Len(dag.topo) : dag.topo[i] \in Nodes
      /\ Validated(dag)
  BY DagShape
<1> DEFINE S == {m \in Nodes : \A i \in 1..Len(dag.topo) : dag.topo[i] = m => p <= i}
<1>2. dag.topo[p] \in S
  BY <1>1 DEF Validated
<1>3. Closed(S)
  <2> SUFFICES ASSUME NEW x \in S, NEW y \in Nodes, <<x, y>> \in dag.edges
               PROVE  y \in S
    BY DEF Closed
  <2>1. PICK i \in 1..Len(dag.topo) : dag.topo[i] = x
    BY Zenon, <1>1 DEF Validated, NodesOf
  <2>2. ASSUME NEW j \in 1..Len(dag.topo), dag.topo[j] = y
        PROVE  p <= j
    <3>1. p <= i
      BY <2>1
    <3>2. i < j
      BY Zenon, <2>1, <2>2, <1>1 DEF Validated
    <3> QED BY <3>1, <3>2, <1>1
  <2> QED BY <2>2
<1>4. dag.topo[q] \notin S
  BY <1>1
<1>5. S \in SUBSET Nodes
  OBVIOUS
<1> QED BY Zenon, <1>2, <1>3, <1>4, <1>5 DEF Reachable

\* Saga compensation, for every task, policy and order of outcomes: alone, in reverse of the
\* dependencies, and complete (_run_saga_compensation and its callers in _run_dag).
THEOREM CompensationSafe == Spec => []SagaSafe
<1>1. Init => Undoes
  BY DEF Init, Undoes, FailureUndone, Tried
<1>2. Graph /\ Phases /\ Undoes /\ [Next]_vars => Undoes'
  BY UndoStep
<1>3. Graph /\ Phases /\ Undoes => SagaSafe
  <2> SUFFICES ASSUME Graph, Phases, Undoes
               PROVE  SagaSafe
    OBVIOUS
  <2>1. CompensationAlone
    BY DEF Phases, CompensationAlone, Halted, Stopped
  <2>2. ASSUME NEW i \in 1..Len(undone), NEW j \in 1..Len(undone), i < j
        PROVE  undone[j][1] \notin Reachable(undone[i][1])
    <3>1. ASSUME NEW m \in 1..Len(undone)
          PROVE  \E p \in 1..Len(dag.topo) : dag.topo[p] = undone[m][1]
      <4>1. undone[m] \in Nodes \X BOOLEAN
        BY DEF Undoes
      <4>2. undone[m][1] \in Nodes /\ node_states[undone[m][1]] = "completed"
        BY Zenon, <4>1 DEF Undoes
      <4>3. undone[m][1] \in NodesOf(dag)
        BY Zenon, <4>2 DEF Graph, Tracks, Tracked
      <4> QED BY Zenon, <4>3 DEF NodesOf
    <3>2. PICK p \in 1..Len(dag.topo) : dag.topo[p] = undone[i][1]
      BY <3>1
    <3>3. PICK q \in 1..Len(dag.topo) : dag.topo[q] = undone[j][1]
      BY <3>1
    <3>4. q < p
      BY Zenon, <2>2, <3>2, <3>3 DEF Undoes
    <3> QED BY Zenon, <3>2, <3>3, <3>4, ReachesForward DEF Graph
  <2>3. UndoneInReverse
    BY Zenon, <2>2 DEF UndoneInReverse, Undoes
  <2> QED BY Zenon, <2>1, <2>3 DEF SagaSafe, Undoes
<1> QED BY <1>1, <1>2, <1>3, GraphInvariant, PhaseInvariant, PTL DEF Spec
=============================================================================
