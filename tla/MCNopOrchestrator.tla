------------------------- MODULE MCNopOrchestrator -------------------------
(* Small tasks for NopOrchestrator. *)
EXTENDS NopOrchestrator

CONSTANTS a, b, c, d

MCNodes == {a, b, c, d}

Task(topo, inputs, k, cond, comp, policy) ==
  [topo |-> topo,
   from |-> [n \in MCNodes |-> IF n \in DOMAIN inputs THEN inputs[n] ELSE {}],
   edges |-> UNION {inputs[n] \X {n} : n \in DOMAIN inputs},
   k |-> [n \in MCNodes |-> IF n \in DOMAIN inputs THEN k ELSE 0],
   cond |-> cond, comp |-> comp, policy |-> policy,
   preflight |-> policy = "strict", callback |-> policy = "always"]

FanIn(k, cond, comp, policy) ==
  Task(<<a, b, c>>, [n \in {c} |-> {a, b}], k, cond, comp, policy)
FanOut(comp, policy) == Task(<<a, c, b>>, [n \in {b, c} |-> {a}], 0, {}, comp, policy)
Chain(comp, policy) ==
  Task(<<a, b, c>>, [n \in {b, c} |-> IF n = b THEN {a} ELSE {b}], 0, {}, comp, policy)
Diamond(k, policy) ==
  Task(<<a, c, b, d>>, [n \in {b, c, d} |-> IF n = d THEN {b, c} ELSE {a}], k, {}, MCNodes, policy)

\* Every input of an end node is a start node.
ShallowDags ==
  {FanIn(1, {b}, {a, b, c}, "best_effort"), FanIn(0, {}, {a, b}, "strict"),
   FanIn(0, {c}, {a}, "strict"), FanIn(3, {}, {a, b}, "none"),
   FanOut({a, b, c}, "always"), FanOut({}, "best_effort")}

DeepDags == {Chain({a, b, c}, "best_effort"), Diamond(1, "strict")}

\* input_from that no edge mirrors, which DagValidator lets pass: b and c wait for each other.
Unmirrored ==
  [FanIn(0, {}, {a}, "best_effort") EXCEPT !.edges = {<<a, c>>}, !.from[b] = {c}, !.from[c] = {b}]

\* Edges that no input_from names: the end node waits for nobody, and is given up all the same.
Unnamed == [FanIn(0, {}, {a}, "best_effort") EXCEPT !.from[c] = {}]

AllDags == ShallowDags \union DeepDags \union {Unmirrored, Unnamed}
=============================================================================
