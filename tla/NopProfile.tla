----------------------------- MODULE NopProfile -----------------------------
(***************************************************************************)
(* The portable orchestration profile (nop/portable_profile.py):           *)
(* evaluate_orchestration runs a task node by node in a stable topological *)
(* order, with conditions, input mapping, retries, compensation and        *)
(* aggregation.  The outcome of an attempt, which the profile reads from a *)
(* script, is a choice made when the attempt is.                           *)
(***************************************************************************)
EXTENDS NopExpressions, NopLeases

CONSTANTS
  Tasks,    \* tasks considered: nodes (a function from numbers) and options
  Values,   \* what a node may return
  Atoms, Sample,  \* comparisons, and results to evaluate conditions on
  MaxEdges, \* bound on the graphs given to the validator
  Unset

VARIABLES
  task,
  phase,    \* "new", "running", "attempting", "compensating", "ended"
  order,    \* the topological order
  at,       \* index of the current node in it
  state,    \* states: node |-> "completed", "skipped", ...
  tries,    \* attempt_counts
  results,
  undo,     \* nodes still to be compensated
  undone,   \* compensation_order
  outcome   \* what is returned

profileVars == <<task, phase, order, at, state, tries, results, undo, undone, outcome>>
-----------------------------------------------------------------------------
(* The order. *)

Ids == DOMAIN task.nodes
Deps(n) == task.nodes[n].deps

\* _stable_topology: always the least node all of whose dependencies were taken; Unset for a
\* cycle and for a dependency that is no node.
RECURSIVE Taken(_)
Taken(done) ==
  LET ready == {n \in Ids \ Range(done) : Deps(n) \subseteq Range(done)}
  IN  IF ready = {} THEN done
      ELSE Taken(Append(done, CHOOSE n \in ready : \A m \in ready : n <= m))
StableTopology == IF Len(Taken(<<>>)) = Cardinality(Ids) THEN Taken(<<>>) ELSE Unset

\* collect(): the dependencies of a node, and theirs.
RECURSIVE Collect(_)
Collect(nodes) ==
  LET more == nodes \union UNION {Deps(n) : n \in nodes} IN IF more = nodes THEN nodes ELSE Collect(more)
Ancestors(n) == Collect(Deps(n))
-----------------------------------------------------------------------------
(* The run. *)

Cur == order[at]
Node == task.nodes[Cur]
Ends(result, error) == phase' = "ended" /\ outcome' = [state |-> result, error |-> error]

\* Duplicate ids, a cycle, or a node that preflight finds unavailable end the task at once.
Start(available) ==
  /\ phase = "new"
  /\ order' = StableTopology
  /\ IF task.duplicate THEN Ends("failed", "invalid")
     ELSE IF StableTopology = Unset THEN Ends("failed", "cycle")
     ELSE IF task.preflight /\ ~available THEN Ends("failed", "resource")
     ELSE phase' = "running" /\ UNCHANGED outcome
  /\ UNCHANGED <<task, at, state, tries, results, undo, undone>>

\* Each parameter names a path; one that leads nowhere is an error.
MappingFails == \E name \in DOMAIN Node.mapping : Resolve(Node.mapping[name], results) \in {Error, Null}

\* The head of the loop over the nodes, for the current one.
Consider ==
  LET condition == Evaluate(Node.condition, results)
      settle(s) == state' = Override(state, [n \in {Cur} |-> s])
                   /\ tries' = Override(tries, [n \in {Cur} |-> 0])
  IN
  /\ phase = "running" /\ at <= Len(order)
  /\ CASE task.cancel_before = Cur -> Ends("cancelled", "cancelled") /\ UNCHANGED <<at, state, tries>>
       [] task.cancel_before # Cur /\ condition = Error ->
            Ends("failed", "condition") /\ settle("failed") /\ UNCHANGED at
       [] task.cancel_before # Cur /\ condition = Bool(FALSE) ->
            at' = at + 1 /\ settle("skipped") /\ UNCHANGED <<phase, outcome>>
       [] OTHER -> IF MappingFails
                   THEN Ends("failed", "mapping") /\ settle("failed") /\ UNCHANGED at
                   ELSE /\ phase' = "attempting"
                        /\ tries' = Override(tries, [n \in {Cur} |-> 0])
                        /\ UNCHANGED <<at, state, outcome>>
  /\ UNCHANGED <<task, order, results, undo, undone>>

MaxRetries(n) == IF task.nodes[n].retries = Unset THEN task.retries ELSE task.nodes[n].retries

\* An attempt succeeds.
Succeed(value) ==
  /\ phase = "attempting"
  /\ tries' = [tries EXCEPT ![Cur] = @ + 1]
  /\ state' = Override(state, [n \in {Cur} |-> "completed"])
  /\ results' = Override(results, [n \in {Cur} |-> value])
  /\ phase' = "running" /\ at' = at + 1
  /\ UNCHANGED <<task, order, undo, undone, outcome>>

\* Completed dependencies of the failed node, last first.
Candidates(failed) ==
  SelectSeq(Reverse(order), LAMBDA n : n \in Ancestors(failed) /\ n \in DOMAIN state
                                       /\ state[n] = "completed")

\* Mutant of ToCompensate: nodes are compensated in the order they ran.
ToCompensateForward(failed) ==
  IF task.policy \in {"best_effort", "strict"}
  THEN SelectSeq(Reverse(Candidates(failed)), LAMBDA n : task.nodes[n].undoes) ELSE <<>>

ToCompensate(failed) ==
  IF task.policy \in {"best_effort", "strict"}
  THEN SelectSeq(Candidates(failed), LAMBDA n : task.nodes[n].undoes) ELSE <<>>

Unsupported(failed) ==
  task.policy = "strict" /\ \E n \in Range(Candidates(failed)) : ~task.nodes[n].undoes

\* The node has failed for good: compensate its ancestors.
GiveUp(error) ==
  IF Unsupported(Cur) THEN Ends("failed", "not_supported") /\ UNCHANGED undo
  ELSE /\ phase' = "compensating" /\ undo' = ToCompensate(Cur)
       /\ outcome' = [state |-> "failed", error |-> error]

\* An attempt times out or is refused; it is repeated if the error is one to retry and the script
\* has another attempt.
AttemptFails(error, retryable, more) ==
  LET again == /\ retryable \/ error = "timeout"
               /\ Node.retry_on = Unset \/ error \in Node.retry_on
               /\ tries[Cur] + 1 <= MaxRetries(Cur) /\ more
  IN
  /\ phase = "attempting"
  /\ tries' = [tries EXCEPT ![Cur] = @ + 1]
  /\ IF again THEN UNCHANGED <<phase, state, undo, outcome>>
     ELSE state' = Override(state, [n \in {Cur} |-> "failed"]) /\ GiveUp(error)
  /\ UNCHANGED <<task, order, at, results, undone>>

\* The script has no attempt for the node.
NoAttempt ==
  /\ phase = "attempting" /\ tries[Cur] = 0
  /\ GiveUp("rejected")
  /\ UNCHANGED <<task, order, at, state, tries, results, undone>>

\* One compensation; under the strict policy the first failure ends the task.
Compensate(works) ==
  /\ phase = "compensating" /\ undo # <<>>
  /\ undone' = Append(undone, Head(undo)) /\ undo' = Tail(undo)
  /\ state' = [state EXCEPT ![Head(undo)] = IF works THEN "compensated" ELSE "compensation_failed"]
  /\ IF ~works /\ task.policy = "strict" THEN Ends("failed", "compensation")
     ELSE UNCHANGED <<phase, outcome>>
  /\ UNCHANGED <<task, order, at, tries, results>>

AfterCompensation ==
  /\ phase = "compensating" /\ undo = <<>>
  /\ phase' = "ended"
  /\ UNCHANGED <<task, order, at, state, tries, results, undo, undone, outcome>>

\* _aggregate: what the nodes nobody depends on returned, in topological order.
Finals == SelectSeq(order, LAMBDA n : (\A m \in Ids : n \notin Deps(m)) /\ state[n] = "completed")
Joined(old, new) ==
  [x \in DOMAIN old \union DOMAIN new |->
     IF x \notin DOMAIN new THEN old[x]
     ELSE IF x \in DOMAIN old /\ task.aggregate = "merge_all" /\ old[x].t = "list" /\ new[x].t = "list"
          THEN Lst(old[x].v \o new[x].v) ELSE new[x]]
Aggregated ==
  LET values == [i \in DOMAIN Finals |-> results[Finals[i]]]
  IN  IF values = <<>> THEN Null
      ELSE IF task.aggregate = "all" THEN Lst(values)
      ELSE Obj(FoldLeft(LAMBDA merged, r : IF r.t = "obj" THEN Joined(merged, r.v) ELSE merged,
                        <<>>, values))

Finish ==
  /\ phase = "running" /\ at > Len(order)
  /\ phase' = "ended"
  /\ outcome' = [state |-> "completed", error |-> Unset, aggregate |-> Aggregated]
  /\ UNCHANGED <<task, order, at, state, tries, results, undo, undone>>

ProfileInit ==
  /\ task \in Tasks
  /\ phase = "new" /\ order = Unset /\ at = 1
  /\ state = <<>> /\ tries = <<>> /\ results = <<>>
  /\ undo = <<>> /\ undone = <<>> /\ outcome = Unset

ProfileNext ==
  \/ \E available \in BOOLEAN : Start(available)
  \/ Consider
  \/ \E value \in Values : Succeed(value)
  \/ \E error \in {"timeout", "refused", "broken"}, retryable, more \in BOOLEAN :
       AttemptFails(error, retryable, more)
  \/ NoAttempt
  \/ \E works \in BOOLEAN : Compensate(works)
  \/ AfterCompensation \/ Finish
-----------------------------------------------------------------------------
(* Reference definitions. *)

\* Conditions as trees, written with the parentheses they need.
RECURSIVE Written(_, _)
Written(e, level) ==
  LET open(l, s) == IF level > l THEN <<[k |-> "("]>> \o s \o <<[k |-> ")"]>> ELSE s
  IN  CASE e.k = "atom" -> e.tokens
        [] e.k = "!" -> <<[k |-> "!"]>> \o Written(e.arg, 2)
        [] e.k = "&&" -> open(1, Written(e.left, 1) \o <<[k |-> "&&"]>> \o Written(e.right, 2))
        [] e.k = "||" -> open(0, Written(e.left, 0) \o <<[k |-> "||"]>> \o Written(e.right, 1))

RECURSIVE Meaning(_, _)
Meaning(e, context) ==
  IF e.k = "atom" THEN Evaluate(e.tokens, context)
  ELSE IF e.k = "!"
  THEN LET m == Meaning(e.arg, context) IN IF m = Error THEN Error ELSE Bool(~m.v)
  ELSE LET l == Meaning(e.left, context)
           r == Meaning(e.right, context)
       IN  IF Error \in {l, r} THEN Error
           ELSE Bool(IF e.k = "&&" THEN l.v /\ r.v ELSE l.v \/ r.v)

ConditionsMean ==
  LET atoms == {[k |-> "atom", tokens |-> a] : a \in Atoms}
      over(E) == E \union {[k |-> "!", arg |-> e] : e \in E}
                   \union [k : {"&&", "||"}, left : E, right : E]
  IN  \A e \in over(over(atoms)) : Evaluate(Written(e, 0), Sample) = Meaning(e, Sample)

\* The validator accepts exactly the acyclic graphs of known nodes, with an order that follows
\* the edges.
DagsJudged ==
  LET nodes(ids, inputs, long) ==
        [i \in DOMAIN ids |-> [id |-> ids[i], inputs |-> inputs, long |-> long]]
      graphs == UNION {[1 .. m -> [from : 1 .. 3, to : 1 .. 4]] : m \in 0 .. MaxEdges}
  IN
  /\ \A edges \in graphs :
       LET verdict == Validate(nodes(<<1, 2, 3>>, {1}, FALSE), edges)
           acyclic == \E rank \in [1 .. 3 -> 1 .. 3] :
                        \A i \in DOMAIN edges : rank[edges[i].from] < rank[edges[i].to]
           place(n) == CHOOSE i \in DOMAIN verdict.sorted : verdict.sorted[i] = n
       IN  /\ verdict.valid <=> (\A i \in DOMAIN edges : edges[i].to # 4) /\ acyclic
           /\ verdict.valid => \A i \in DOMAIN edges : place(edges[i].from) < place(edges[i].to)
  /\ \A ids \in SeqOf(1 .. 2, MaxNodes + 1), inputs \in SUBSET (1 .. 2), long \in BOOLEAN :
       Validate(nodes(ids, inputs, long), <<>>).valid <=>
         ids # <<>> /\ Len(ids) <= MaxNodes /\ IsInjective(ids) /\ inputs \subseteq Range(ids) /\ ~long
-----------------------------------------------------------------------------
(* Properties. *)

Undone(n) == n \in Range(undone)

\* A task runs as its graph says (portable_profile.py:41): a node is attempted after every
\* dependency completed or was skipped, at most once more than its retries; a completed task
\* leaves nothing out, and both aggregators agree on its result.
RunsAsDeclared ==
  /\ \A n \in DOMAIN tries : tries[n] > 0 =>
       /\ tries[n] <= MaxRetries(n) + 1
       /\ \A d \in Deps(n) : d \in DOMAIN state /\ (state[d] \in {"completed", "skipped"} \/ Undone(d))
  /\ phase = "ended" /\ outcome.state = "completed" =>
       /\ \A n \in Ids : state[n] \in {"completed", "skipped"}
       /\ LET values == [i \in DOMAIN Finals |-> results[Finals[i]]]
          IN  values # <<>> /\ task.aggregate # "merge_all" /\ (\A i \in DOMAIN values : values[i].t = "obj")
                => outcome.aggregate = Aggregate(task.aggregate, values, 0)

\* Compensation undoes what the failed node relied on, last first: nothing is undone before
\* something that depends on it, and best_effort leaves no ancestor that can be undone.
UndoneInOrder ==
  /\ \A i, j \in DOMAIN undone : i < j => undone[i] \notin Ancestors(undone[j]) \union {undone[j]}
  /\ phase = "ended" /\ outcome.state = "failed" /\ undone # <<>> =>
       \A n \in Ancestors(Cur) : task.nodes[n].undoes /\ state[n] = "completed" =>
         task.policy = "strict" /\ outcome.error = "compensation"

\* The portable profile does what its task declares, and what it is built from is right: every
\* condition means what its tree means, and the validator of task graphs accepts exactly the
\* acyclic ones.  Leases keep two runners from one task.
ProfileSound == RunsAsDeclared /\ UndoneInOrder /\ LeaseExclusive /\ ConditionsMean /\ DagsJudged
============================================================================
