-------------------------- MODULE NopExpressions ---------------------------
(***************************************************************************)
(* What a NOP task computes with: the values nodes return, paths into them *)
(* (nop/input_mapper.py), conditions (nop/condition.py) and aggregation    *)
(* (nop/aggregator.py).  A condition is its sequence of tokens, a string   *)
(* its rank in the order of strings, the name of a node or field a number. *)
(***************************************************************************)
EXTENDS Integers, Sequences, FiniteSets, SequencesExt

CONSTANTS
  MaxDepth,  \* MAX_INPUT_MAPPING_DEPTH
  MaxNodes   \* MAX_DAG_NODES

Num(n) == [t |-> "num", v |-> n]
Str(n) == [t |-> "str", v |-> n]
Bool(b) == [t |-> "bool", v |-> b]
Obj(f) == [t |-> "obj", v |-> f]
Lst(s) == [t |-> "list", v |-> s]
Null == [t |-> "null"]
Error == [t |-> "error"]  \* an exception
-----------------------------------------------------------------------------
(* Paths: the segments after "$"; context gives the result of each completed node. *)

Field(value, name) ==
  IF value.t = "obj" THEN (IF name \in DOMAIN value.v THEN value.v[name] ELSE Null) ELSE Null

Resolve(path, context) ==
  IF Len(path) > MaxDepth THEN Error ELSE FoldLeft(Field, Obj(context), path)
-----------------------------------------------------------------------------
(* Comparison. *)

\* Python's ==: a Boolean equals the number it counts as.
AsNumber(a) == CASE a.t = "num" -> a.v [] a.t = "bool" -> IF a.v THEN 1 ELSE 0
Numeric(a) == a.t \in {"num", "bool"}
Equals(a, b) ==
  IF Numeric(a) /\ Numeric(b) THEN AsNumber(a) = AsNumber(b) ELSE a.t = b.t /\ a = b

Truthy(a) ==
  CASE a.t = "bool" -> a.v
    [] a.t = "num" -> a.v # 0
    [] a.t = "str" -> a.v # 0  \* the empty string has rank 0
    [] a.t = "null" -> FALSE
    [] OTHER -> TRUE

Ordered(a, op, b) ==
  CASE op = ">" -> a > b [] op = ">=" -> a >= b [] op = "<" -> a < b [] op = "<=" -> a <= b

Compare(a, op, b) ==
  CASE op = "==" -> Equals(a, b)
    [] op = "!=" -> ~Equals(a, b)
    [] OTHER -> a.t = b.t /\ a.t \in {"num", "str"} /\ Ordered(a.v, op, b.v)
-----------------------------------------------------------------------------
(* The parser evaluates as it goes: it yields a verdict and the next position. *)

Comparisons == {">", ">=", "<", "<=", "==", "!="}

Got(val, pos) == [ok |-> TRUE, val |-> val, pos |-> pos]
Failed == [ok |-> FALSE]

ParseValue(s, i, context) ==
  CASE s[i].k = "path" -> LET r == Resolve(s[i].v, context)
                          IN  IF r = Error THEN Failed ELSE Got(r, i + 1)
    [] s[i].k = "lit" -> Got(s[i].v, i + 1)
    [] OTHER -> Failed

\* The value of "true" or "false", or of value (op value)?
ParseSimple(s, i, context) ==
  IF s[i].k = "lit" /\ s[i].v.t = "bool" THEN Got(s[i].v.v, i + 1)
  ELSE LET l == ParseValue(s, i, context)
       IN  IF ~l.ok THEN Failed
           ELSE IF s[l.pos].k \notin Comparisons THEN Got(Truthy(l.val), l.pos)
           ELSE LET r == ParseValue(s, l.pos + 1, context)
                IN  IF r.ok THEN Got(Compare(l.val, s[l.pos].k, r.val), r.pos) ELSE Failed

\* One rule of the grammar: "or", "and", or "not", which is a comparison or a parenthesis at last.
\* Both sides of an operator are always evaluated, so an error on the right counts whatever is on the
\* left, and it does not matter that the code folds a chain from the left.
RECURSIVE ParseRule(_, _, _, _)
ParseRule(rule, s, i, context) ==
  LET inner == ParseRule("or", s, i + 1, context)
      negated == ParseRule("not", s, i + 1, context)
      left == ParseRule(IF rule = "or" THEN "and" ELSE "not", s, i, context)
      right == ParseRule(rule, s, left.pos + 1, context)
      chain(op) == IF ~left.ok \/ s[left.pos].k # op THEN left
                   ELSE IF ~right.ok THEN Failed
                   ELSE Got(IF op = "||" THEN left.val \/ right.val ELSE left.val /\ right.val, right.pos)
  IN  CASE rule = "or" -> chain("||")
        [] rule = "and" -> chain("&&")
        [] rule = "not" /\ s[i].k = "!" -> IF negated.ok THEN Got(~negated.val, negated.pos) ELSE Failed
        [] rule = "not" /\ s[i].k = "(" ->
             IF inner.ok /\ s[inner.pos].k = ")" THEN Got(inner.val, inner.pos + 1) ELSE Failed
        [] OTHER -> ParseSimple(s, i, context)

\* evaluate(): a character that starts no token spoils the whole condition; what follows a
\* complete expression is not looked at.
Evaluate(s, context) ==
  LET tokens == Append(s, [k |-> "eof"])
      r == ParseRule("or", tokens, 1, context)
  IN  IF s = <<>> THEN Bool(TRUE)
      ELSE IF \E i \in DOMAIN s : s[i].k = "bad" THEN Error
      ELSE IF r.ok THEN Bool(r.val) ELSE Error
-----------------------------------------------------------------------------
(* Aggregation. *)

Override(f, g) == [x \in DOMAIN f \union DOMAIN g |-> IF x \in DOMAIN g THEN g[x] ELSE f[x]]

\* What is not an object is kept under a name of its own, "_result_{i}".
ResultKey(i) == 100 + i
Merge(results) ==
  Obj(FoldLeftDomain(LAMBDA merged, i :
        Override(merged, IF results[i].t = "obj" THEN results[i].v
                         ELSE [n \in {ResultKey(i)} |-> results[i]]),
      <<>>, results))

Aggregate(strategy, results, min_required) ==
  IF results = <<>> THEN Obj(<<>>)
  ELSE CASE strategy = "first" -> results[1]
         [] strategy = "all" -> Lst(results)
         [] strategy = "fastest_k" ->
              Lst(SubSeq(results, 1, IF min_required \in 1 .. Len(results) THEN min_required
                                     ELSE Len(results)))
         [] OTHER -> Merge(results)
-----------------------------------------------------------------------------
(* DagValidator.validate (nop/validation.py), for a list of nodes and one of edges. *)

EdgesFrom(edges, n) == SelectSeq(edges, LAMBDA e : e.from = n)
InDegree(edges, n) == Len(SelectSeq(edges, LAMBDA e : e.to = n))

\* Kahn's algorithm: w.queue is served first in, first out.
RECURSIVE Kahn(_, _)
Kahn(edges, w) ==
  IF w.queue = <<>> THEN w.sorted
  ELSE LET cur == Head(w.queue)
           relax(x, e) ==
             LET left == x.remaining[e.to] - 1
             IN  [x EXCEPT !.remaining[e.to] = left,
                           !.queue = IF left = 0 THEN Append(@, e.to) ELSE @]
       IN  Kahn(edges, FoldLeft(relax, [w EXCEPT !.queue = Tail(@), !.sorted = Append(@, cur)],
                                EdgesFrom(edges, cur)))

\* A node has an id, the nodes its input comes from, and a condition within MAX_CONDITION_LENGTH
\* or not.
Validate(nodes, edges) ==
  LET ids == {nodes[i].id : i \in DOMAIN nodes}
      degree == [n \in ids |-> InDegree(edges, n)]
      listed == [i \in DOMAIN nodes |-> nodes[i].id]
      start == SelectSeq(listed, LAMBDA n : degree[n] = 0)
      sorted == Kahn(edges, [queue |-> start, remaining |-> degree, sorted |-> <<>>])
      invalid(error) == [valid |-> FALSE, error |-> error]
  IN  CASE nodes = <<>> -> invalid("invalid")
        [] Len(nodes) > MaxNodes -> invalid("too_large")
        [] nodes # <<>> /\ Len(nodes) <= MaxNodes ->
             IF \/ Len(nodes) # Cardinality(ids)
                \/ \E i \in DOMAIN edges : ~({edges[i].from, edges[i].to} \subseteq ids)
                \/ \E i \in DOMAIN nodes : ~(nodes[i].inputs \subseteq ids)
                \/ start = <<>> \/ \A n \in ids : EdgesFrom(edges, n) # <<>>
             THEN invalid("invalid")
             ELSE IF \E i \in DOMAIN nodes : nodes[i].long THEN invalid("condition")
             ELSE IF Len(sorted) # Len(nodes) THEN invalid("cycle")
             ELSE [valid |-> TRUE, sorted |-> sorted]
============================================================================
