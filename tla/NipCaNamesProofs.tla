-------------------------- MODULE NipCaNamesProofs --------------------------
(***************************************************************************)
(* What NipCa keeps about names: the key of a name, what stays revoked,    *)
(* and the sessions of a group.                                            *)
(***************************************************************************)
EXTENDS NipCaProofs

(* What names what. *)

\* The names a call works with, by its operation.
Named(c) ==
  /\ c.op \in {"register", "approve"} => c.nid \in Agents
  /\ c.op = "group" => c.nid \in Groups
  /\ c.op = "session" => c.nid \in Sessions /\ c.parent \in Groups
  /\ c.op # "session" => c.parent = None
  /\ c.at \in {"serial", "save"} =>
       /\ c.op = "group" => c.role = "group"
       /\ c.op = "session" => c.role = "session"
       /\ c.op \notin {"group", "session"} => c.role = "none"

CallNames ==
  \A x \in Calls : ~Over(x) =>
    Named(call[x]) /\ (Issuing(x) /\ call[x].op = "session" => Known(call[x].parent))

\* Nothing else knows the name of a session under way, but requests that will not find it.
FreshNames ==
  \A x \in Calls : ~Over(x) /\ call[x].op = "session" =>
    /\ ~Known(call[x].nid)
    /\ \A y \in Calls \ {x} : call[y].nid = call[x].nid => call[y].at = "lookup" /\ call[y].op \in {"renew", "revoke"}

\* The roles and parents of the rows, and the group of a session.
RowNames ==
  /\ under = [s \in Sessions |-> under[s]]
  /\ \A i \in 1 .. Len(rows) :
       LET r == rows[i]
       IN  /\ r.role \in {"none", "group", "session"}
           /\ r.role = "group" => r.nid \in Groups
           /\ r.role = "session" => r.nid \in Sessions /\ r.parent = under[r.nid]
           /\ r.role # "session" => r.parent = None
  /\ \A s \in Sessions : under[s] # None =>
       under[s] \in Groups /\ Known(under[s]) /\ \E i \in RowsOf(s) : rows[i].parent = under[s]

\* The queue holds the names of agents.
QueuedNames == \A p \in Calls : pending[p].status = "pending" => pending[p].nid \in Agents

NamesInv == CallNames /\ FreshNames /\ RowNames /\ QueuedNames

\* The rows of a name, after a save and after a revocation.
LEMMA SavedRows ==
  ASSUME Shaped, Shaped', NEW x \in Calls, Saved(x), NEW n
  PROVE  RowsOf(n)' = IF call[x].nid = n THEN RowsOf(n) \union {Len(rows) + 1} ELSE RowsOf(n)
<1>1. /\ DOMAIN rows = 1 .. Len(rows) /\ DOMAIN rows' = 1 .. Len(rows) + 1 /\ Len(rows) \in Nat
      /\ rows'[Len(rows) + 1].nid = call[x].nid /\ \A i \in 1 .. Len(rows) : rows'[i] = rows[i]
  BY DEF Shaped, RowsShaped, Saved
<1>. QED
  BY <1>1 DEF RowsOf

\* Revocation moves no row to another name.
LEMMA MarkedRowsOf ==
  ASSUME Shaped, Shaped', NEW m, Marked(m), NEW n
  PROVE  RowsOf(n)' = RowsOf(n)
<1>1. /\ DOMAIN rows = 1 .. Len(rows) /\ DOMAIN rows' = 1 .. Len(rows)
      /\ \A i \in 1 .. Len(rows) : rows'[i].nid = rows[i].nid
  BY Zenon DEF Shaped, RowsShaped, Marked
<1>. QED
  BY <1>1 DEF RowsOf

\* A name that is known stays known, and only a save makes one known.
LEMMA KnownStays ==
  ASSUME Shaped, Shaped', NEW n,
         \/ rows' = rows \/ (\E m : Marked(m)) \/ (\E x \in Calls : Saved(x))
  PROVE  Known(n) => Known(n)'
BY Zenon, SavedRows, MarkedRowsOf DEF Known, RowsOf

\* What happens to the rows.
LEMMA RowsChange ==
  ASSUME NEW x \in Calls, Moves(x)
  PROVE  \/ rows' = rows /\ ~Saves(x) /\ ~Marks(x) /\ ~Cascades(x)
         \/ (Marks(x) \/ Cascades(x)) /\ \E m : Marked(m)
         \/ Saves(x) /\ Saved(x)
BY Zenon DEF Moves, Begins, Queues, Draws, Targets, Refused, Numbers, Saves, Marks, Lists, Cascades, tables

\* The names of a call follow from its previous ones.
LEMMA CallNamesStep ==
  ASSUME Shaped, Staged, NamesInv, [Next]_vars
  PROVE  CallNames'
<1>1. Shaped' /\ ((\E x \in Calls : Moves(x)) \/ Restarts \/ Aside)
  BY NextKinds
<1>2. ASSUME NEW x \in Calls, Moves(x) PROVE CallNames'
  <2>1. Others(x)
    BY <1>2, MovesAlone
  <2>2. \A n : RowsOf(n) # {} => RowsOf(n)' # {}
    BY <1>1, <1>2, RowsChange, KnownStays DEF Known
  <2>3. ASSUME ~Over(x)' PROVE Named(call'[x])
    <3>1. CASE Begins(x)
      BY <3>1 DEF Begins, Arrived, NamesInv, QueuedNames, Named
    <3>2. CASE ~Begins(x)
      <4>1. ~Over(x) /\ GoesOn(x, call'[x].at) /\ Named(call[x])
        BY Zenon, <1>2, <2>3, <3>2 DEF Moves, Queues, Draws, Targets, Refused, Numbers, Saves, Marks, Lists, Cascades,
                                EndedWith, GoesOn, Over, NamesInv, CallNames
      <4>2. CASE call'[x].at \notin {"serial", "save"}
        BY <4>1, <4>2 DEF GoesOn, Named
      <4>3. CASE call'[x].at \in {"serial", "save"}
        <5>1. Draws(x) \/ Numbers(x)
          BY Zenon, <1>2, <2>3, <3>2, <4>3 DEF Moves, Queues, Targets, Refused, Saves, Marks, Lists, Cascades,
                                EndedWith, GoesOn, Over
        <5>. QED
          BY Zenon, <4>1, <5>1 DEF Draws, Numbers, GoesOn, Named
      <4>. QED
        BY <4>2, <4>3
    <3>. QED
      BY <3>1, <3>2
  <2>4. ASSUME Issuing(x)', call'[x].op = "session" PROVE RowsOf(call'[x].parent) # {}
    <3>1. Draws(x) \/ Numbers(x)
      BY ZenonT(40), <1>2, <2>4 DEF Moves, Begins, Queues, Targets, Refused, Saves, Marks, Lists, Cascades,
                        Arrived, EndedWith, GoesOn, Issuing
    <3>2. CASE Draws(x)
      BY Zenon, <2>4, <3>2 DEF Draws, GoesOn, MayHaveSession, Known
    <3>3. CASE Numbers(x)
      BY <2>4, <3>3 DEF Numbers, GoesOn, NamesInv, CallNames, Issuing, Over, Known
    <3>. QED
      BY <3>1, <3>2, <3>3
  <2>5. ASSUME NEW y \in Calls, ~Over(y)'
        PROVE  /\ Named(call'[y])
               /\ Issuing(y)' /\ call'[y].op = "session" => RowsOf(call'[y].parent) # {}
    <3>1. CASE y = x
      BY <2>3, <2>4, <2>5, <3>1
    <3>2. CASE y # x
      BY <2>1, <2>5, <3>2 DEF Others, NamesInv, CallNames, Over, Issuing, Known
    <3>. QED
      BY <3>1, <3>2
  <2>. QED
    BY <2>2, <2>5 DEF CallNames, Known, RowsOf
<1>3. CASE Restarts
  BY <1>3 DEF Restarts, CallNames, Over, NamesInv, Issuing, tables, Known, RowsOf
<1>4. CASE Aside
  BY <1>4 DEF Aside, CallNames, Over, NamesInv, Issuing, Known, RowsOf
<1>. QED
  BY <1>1, <1>2, <1>3, <1>4

\* The queue holds names of agents, whatever is queued, decided or swept.
LEMMA QueuedNamesStep ==
  ASSUME Shaped, DecisionInv, NamesInv, [Next]_vars
  PROVE  QueuedNames'
<1>1. (\E x \in Calls : Moves(x)) \/ Restarts \/ Aside
  BY NextKinds
<1>2. CASE pending' = pending
  BY <1>2 DEF NamesInv, QueuedNames
<1>3. ASSUME NEW q, NEW v, pending' = [pending EXCEPT ![q].status = v], v # "pending" PROVE QueuedNames'
  <2>1. CASE q \in Calls
    BY <1>3, <2>1, DecidedShape DEF NamesInv, QueuedNames
  <2>2. CASE q \notin Calls
    BY <1>3, <2>2 DEF DecisionInv, NamesInv, QueuedNames
  <2>. QED
    BY <2>1, <2>2
<1>4. ASSUME NEW x \in Calls, Moves(x) PROVE QueuedNames'
  <2>1. CASE Queues(x)
    <3>1. CASE pending' # pending
      <4>1. PICK n \in Agents, k \in Keys :
              pending' = [SweptPending EXCEPT ![x] = [status |-> "pending", nid |-> n, key |-> k, requested |-> now]]
        BY <2>1, <3>1 DEF Queues
      <4>2. /\ pending'[x].nid = n
            /\ \A p \in Calls \ {x} : pending'[p] = pending[p] \/ pending'[p].status = "none"
        BY ZenonT(40), <4>1, QueueShape
      <4>. QED
        BY <4>2 DEF NamesInv, QueuedNames
    <3>. QED
      BY <1>2, <3>1
  <2>2. CASE Saves(x)
    BY Zenon, <1>2, <1>3, <2>2 DEF Saves
  <2>3. CASE ~Queues(x) /\ ~Saves(x)
    BY Zenon, <1>2, <1>4, <2>3 DEF Moves, Begins, Draws, Targets, Refused, Numbers, Marks, Lists, Cascades, enrollment
  <2>. QED
    BY <2>1, <2>2, <2>3
<1>5. CASE Restarts
  BY <1>5 DEF Restarts, QueuedNames, NoPending
<1>6. CASE Aside
  BY Zenon, <1>2, <1>3, <1>6 DEF Aside, CreateToken, RevokeToken, Reject
<1>. QED
  BY <1>1, <1>4, <1>5, <1>6
\* The random name of a session stays its own until its certificate is saved.
LEMMA FreshNamesStep ==
  ASSUME Shaped, Staged, NamesInv, [Next]_vars
  PROVE  FreshNames'
<1>1. Shaped' /\ ((\E x \in Calls : Moves(x)) \/ Restarts \/ Aside)
  BY NextKinds
<1>2. None \notin Sessions /\ Sessions \intersect (Agents \union Groups) = {}
  BY NamesAssumption DEF Nids
<1>3. ASSUME NEW x \in Calls, Moves(x), NEW z \in Calls, ~Over(z)', call'[z].op = "session"
      PROVE  /\ \A i \in DOMAIN rows' : rows'[i].nid # call'[z].nid
             /\ \A y \in Calls \ {z} : call'[y].nid = call'[z].nid =>
                  call'[y].at = "lookup" /\ call'[y].op \in {"renew", "revoke"}
  <2>1. Others(x)
    BY <1>3, MovesAlone
  <2>2. CASE z = x
    <3>1. CASE Begins(x)
      <4>1. RowsOf(call'[x].nid) = {} /\ \A y \in Calls : call[y].nid # call'[x].nid
        BY <1>3, <2>2, <3>1 DEF Begins, Arrived, Known
      <4>2. rows' = rows
        BY Zenon, <3>1 DEF Begins, tables
      <4>. QED
        BY <2>1, <2>2, <4>1, <4>2 DEF Others, RowsOf
    <3>2. CASE ~Begins(x)
      <4>1. Draws(x) \/ Numbers(x)
        BY Zenon, <1>3, <2>2, <3>2 DEF Moves, Queues, Targets, Refused, Saves, Marks, Lists, Cascades, EndedWith, GoesOn,
                                Over, Staged, Issuing, Ops
      <4>2. ~Over(x) /\ call[x].op = "session" /\ call'[x].nid = call[x].nid /\ rows' = rows
        BY Zenon, <1>3, <2>2, <4>1 DEF Draws, Numbers, GoesOn, Over
      <4>. QED
        BY <2>1, <2>2, <4>2 DEF NamesInv, FreshNames, Others, RowsOf, Known
    <3>. QED
      BY <3>1, <3>2
  <2>3. CASE z # x
    <3>1. /\ call'[z] = call[z] /\ call[z].nid \in Sessions /\ RowsOf(call[z].nid) = {}
          /\ \A y \in Calls \ {z} : call[y].nid = call[z].nid =>
               call[y].at = "lookup" /\ call[y].op \in {"renew", "revoke"}
      BY Zenon, <1>3, <2>1, <2>3 DEF Others, Over, NamesInv, FreshNames, CallNames, Named, Known
    <3>2. call'[x].nid = call[z].nid => call'[x].at = "lookup" /\ call'[x].op \in {"renew", "revoke"}
      <4>1. CASE Begins(x)
        BY <1>2, <3>1, <4>1 DEF Begins, Arrived, NamesInv, QueuedNames
      <4>2. CASE Queues(x) \/ Refused(x)
        BY Zenon, <1>2, <3>1, <4>2 DEF Queues, Refused, EndedWith
      <4>3. CASE Draws(x) \/ Targets(x)
        BY Zenon, <2>3, <3>1, <4>3 DEF Draws, Targets, GoesOn, Known, Renewable
      <4>4. CASE Numbers(x) \/ Saves(x) \/ Marks(x) \/ Lists(x) \/ Cascades(x)
        BY Zenon, <1>2, <2>3, <3>1, <4>4 DEF Numbers, Saves, Marks, Lists, Cascades, GoesOn, EndedWith
      <4>. QED
        BY <1>3, <4>1, <4>2, <4>3, <4>4 DEF Moves
    <3>3. \A n : RowsOf(n) = {} /\ (Saves(x) => call[x].nid # n) => RowsOf(n)' = {}
      BY Zenon, <1>1, <1>3, RowsChange, SavedRows, MarkedRowsOf DEF RowsOf
    <3>4. Saves(x) => call[x].nid # call[z].nid
      BY <2>3, <3>1 DEF Saves
    <3>5. \A i \in DOMAIN rows' : rows'[i].nid # call'[z].nid
      BY <3>1, <3>3, <3>4 DEF RowsOf
    <3>. QED
      BY Zenon, <2>1, <3>1, <3>2, <3>5 DEF Others
  <2>. QED
    BY <2>2, <2>3
<1>4. CASE \E x \in Calls : Moves(x)
  BY <1>3, <1>4 DEF FreshNames, Known, RowsOf
<1>5. CASE Restarts
  BY <1>5 DEF Restarts, FreshNames, Over
<1>6. CASE Aside
  BY <1>6 DEF Aside, FreshNames, NamesInv, Over, Known, RowsOf
<1>. QED
  BY <1>1, <1>4, <1>5, <1>6

\* The rows say what their calls were for.
LEMMA RowNamesStep ==
  ASSUME Shaped, Staged, NamesInv, [Next]_vars
  PROVE  RowNames'
<1>1. Shaped' /\ ((\E x \in Calls : Moves(x)) \/ Restarts \/ Aside)
  BY NextKinds
<1>2. RowNames /\ Len(rows) \in Nat /\ DOMAIN rows = 1 .. Len(rows)
  BY DEF NamesInv, Shaped, RowsShaped
<1>3. CASE rows' = rows /\ under' = under
  BY <1>2, <1>3 DEF RowNames, Known, RowsOf
<1>4. ASSUME NEW m, Marked(m), under' = under PROVE RowNames'
  <2>1. \A n : RowsOf(n)' = RowsOf(n)
    BY <1>1, <1>4, MarkedRowsOf
  <2>2. /\ Len(rows') = Len(rows)
        /\ \A i \in 1 .. Len(rows) : rows'[i].nid = rows[i].nid /\ rows'[i].role = rows[i].role /\ rows'[i].parent = rows[i].parent
    BY Zenon, <1>4 DEF Marked
  <2>3. \A s \in Sessions : under[s] # None =>
          under[s] \in Groups /\ RowsOf(under[s]) # {} /\ \E i \in RowsOf(s) : rows'[i].parent = under[s]
    BY <1>2, <2>2 DEF RowNames, Known, RowsOf
  <2>4. \A s \in Sessions : under[s] # None =>
          under[s] \in Groups /\ RowsOf(under[s])' # {} /\ \E i \in RowsOf(s)' : rows'[i].parent = under[s]
    BY <1>4, <2>1, <2>3 DEF RowsOf
  <2>. QED
    BY <1>2, <1>4, <2>2, <2>4 DEF RowNames, Known, RowsOf
<1>5. ASSUME NEW x \in Calls, Saves(x) PROVE RowNames'
  <2>. DEFINE m == Len(rows) + 1
  <2>1. /\ Len(rows') = m /\ \A i \in 1 .. Len(rows) : rows'[i] = rows[i]
        /\ rows'[m].nid = call[x].nid /\ rows'[m].role = call[x].role /\ rows'[m].parent = call[x].parent
        /\ Issuing(x) /\ Named(call[x])
        /\ call[x].op = "session" => RowsOf(call[x].parent) # {} /\ RowsOf(call[x].nid) = {}
    BY <1>5 DEF Saves, Saved, Issuing, Over, NamesInv, CallNames, FreshNames, Known
  <2>2. \A n : RowsOf(n)' = IF call[x].nid = n THEN RowsOf(n) \union {m} ELSE RowsOf(n)
    BY <1>1, <1>5, SavedRows DEF Saves
  <2>3. /\ under' = [s \in Sessions |-> under'[s]]
        /\ call[x].op = "session" => /\ call[x].nid \in Sessions /\ under'[call[x].nid] = call[x].parent
                                     /\ \A s \in Sessions \ {call[x].nid} : under'[s] = under[s]
        /\ call[x].op # "session" => under' = under
    BY Zenon, <1>2, <1>5, <2>1 DEF Saves, RowNames, Named
  <2>4. call[x].role \in {"none", "group", "session"} /\ (call[x].role = "group" <=> call[x].op = "group")
        /\ (call[x].role = "session" <=> call[x].op = "session") /\ (call[x].op # "session" => call[x].parent = None)
        /\ (call[x].op = "group" => call[x].nid \in Groups) /\ (call[x].op = "session" => call[x].parent \in Groups)
    BY <2>1 DEF Named, Issuing
  <2>5. ASSUME NEW i \in 1 .. Len(rows')
        PROVE  /\ rows'[i].role \in {"none", "group", "session"}
               /\ rows'[i].role = "group" => rows'[i].nid \in Groups
               /\ rows'[i].role = "session" => rows'[i].nid \in Sessions /\ rows'[i].parent = under'[rows'[i].nid]
               /\ rows'[i].role # "session" => rows'[i].parent = None
    <3>1. CASE i = m
      BY <2>1, <2>3, <2>4, <3>1
    <3>2. CASE i # m
      <4>1. i \in 1 .. Len(rows) /\ rows'[i] = rows[i]
        BY <1>2, <2>1, <3>2
      <4>2. i \in RowsOf(rows[i].nid)
        BY <1>2, <4>1 DEF RowsOf
      <4>. QED
        BY <1>2, <2>1, <2>3, <4>1, <4>2 DEF RowNames
    <3>. QED
      BY <3>1, <3>2
  <2>6. ASSUME NEW s \in Sessions, under'[s] # None
        PROVE  /\ under'[s] \in Groups /\ RowsOf(under'[s]) # {}
               /\ \E i \in 1 .. m : rows'[i].nid = s /\ rows'[i].parent = under'[s]
    <3>1. CASE call[x].op = "session" /\ s = call[x].nid
      BY <1>2, <2>1, <2>3, <2>4, <3>1
    <3>2. CASE ~(call[x].op = "session" /\ s = call[x].nid)
      <4>1. under'[s] = under[s]
        BY <2>3, <3>2
      <4>2. under[s] \in Groups /\ RowsOf(under[s]) # {} /\ \E i \in 1 .. Len(rows) : rows[i].nid = s /\ rows[i].parent = under[s]
        BY <1>2, <2>6, <4>1 DEF RowNames, Known, RowsOf
      <4>. QED
        BY <1>2, <2>1, <4>1, <4>2
    <3>. QED
      BY <3>1, <3>2
  <2>7. \A n : RowsOf(n) # {} => RowsOf(n)' # {}
    BY <2>2
  <2>8. DOMAIN rows' = 1 .. m
    BY <1>1, <2>1 DEF Shaped, RowsShaped
  <2>. HIDE DEF m
  <2>9. \A s \in Sessions : under'[s] # None => \E i \in DOMAIN rows' : rows'[i].nid = s /\ rows'[i].parent = under'[s]
    BY <2>6, <2>8
  <2>10. \A s \in Sessions : under'[s] # None => \E i \in DOMAIN rows' : rows'[i].nid = under'[s]
    BY <2>6, <2>7 DEF RowsOf
  <2>11. \A s \in Sessions : under'[s] # None => under'[s] \in Groups
    BY <2>6
  <2>12. (\A s \in Sessions : under[s] # None =>
           under[s] \in Groups /\ Known(under[s]) /\ \E i \in RowsOf(s) : rows[i].parent = under[s])'
    BY ONLY <2>9, <2>10, <2>11 DEF Known, RowsOf
  <2>. QED
    BY ONLY <2>3, <2>5, <2>12 DEF RowNames
<1>6. ASSUME NEW x \in Calls, Moves(x), ~Saves(x) PROVE RowNames'
  <2>1. under' = under
    BY Zenon, <1>6 DEF Moves, Begins, Queues, Draws, Targets, Refused, Numbers, Marks, Lists, Cascades, tables
  <2>. QED
    BY <1>3, <1>4, <1>6, <2>1, RowsChange
<1>7. CASE Restarts
  BY <1>3, <1>7 DEF Restarts, tables
<1>8. CASE Aside
  BY <1>3, <1>8 DEF Aside
<1>. QED
  BY <1>1, <1>5, <1>6, <1>7, <1>8

\* The names are kept.
LEMMA NamesStep ==
  ASSUME Shaped, Staged, DecisionInv, NamesInv, [Next]_vars
  PROVE  NamesInv'
BY CallNamesStep, FreshNamesStep, RowNamesStep, QueuedNamesStep DEF NamesInv
-----------------------------------------------------------------------------
(* get_by_nid *)

\* get_by_nid finds a row of the name, and none was issued later.
LEMMA LatestRow ==
  ASSUME Shaped, Timed, NEW n, Known(n)
  PROVE  Latest(n) \in RowsOf(n) /\ \A j \in RowsOf(n) : rows[j].issued <= rows[Latest(n)].issued
<1>1. DOMAIN rows = 1 .. Len(rows)
  BY DEF Shaped, RowsShaped
<1>2. PICK k \in 1 .. Len(rows) : rows[k].nid = n
  BY <1>1 DEF Known, RowsOf
<1>3. PICK i \in RowsOf(n) : \A j \in RowsOf(n) : rows[j].issued <= rows[i].issued
  BY Zenon, <1>1, <1>2 DEF Timed, Topped, RowsOf
<1>. QED
  BY <1>3 DEF Latest
-----------------------------------------------------------------------------
(* The in-memory store. *)

\* The row get_by_nid returns there.
Last(n, i) == i \in RowsOf(n) /\ \A j \in RowsOf(n) : j <= i

\* Rows are in the order of their instants, revocation takes the last one first, and the rows of a
\* name have one key.
RowsInv ==
  \A i, j \in 1 .. Len(rows) :
    /\ i < j => rows[i].issued < rows[j].issued
    /\ rows[i].nid = rows[j].nid => /\ i <= j /\ rows[i].revoked => rows[j].revoked
                                    /\ rows[i].key = rows[j].key

\* What the lookup of a call found still holds.
FoundInv ==
  \A x \in Calls :
    /\ Issuing(x) => \A i \in 1 .. Len(rows) :
         /\ rows[i].issued < call[x].issued
         /\ rows[i].nid = call[x].nid => call[x].op = "renew" /\ ~rows[i].revoked /\ rows[i].key = call[x].key
         /\ rows[i].nid = call[x].parent /\ call[x].op = "session" => ~rows[i].revoked
    /\ call[x].at = "mark" => \A i \in 1 .. Len(rows) : Last(call[x].nid, i) => rows[i].role = call[x].role

TableInv == store = "memory" => RowsInv /\ FoundInv

\* get_by_nid returns the row inserted last; if it is not revoked no row of the name is.
LEMMA LastRow ==
  ASSUME Shaped, Timed, RowsInv, NEW n, Known(n)
  PROVE  /\ Last(n, Latest(n)) /\ Latest(n) \in 1 .. Len(rows)
         /\ \A i \in 1 .. Len(rows) : rows[i].nid = n =>
              /\ rows[i].key = Record(n).key
              /\ rows[i].revoked => Record(n).revoked
<1>1. Latest(n) \in RowsOf(n) /\ \A j \in RowsOf(n) : rows[j].issued <= rows[Latest(n)].issued
  BY LatestRow
<1>2. DOMAIN rows = 1 .. Len(rows) /\ Len(rows) \in Nat
  BY DEF Shaped, RowsShaped
<1>3. Latest(n) \in 1 .. Len(rows) /\ rows[Latest(n)].nid = n
  BY <1>1, <1>2 DEF RowsOf
<1>. DEFINE l == Latest(n)
<1>. HIDE DEF l
<1>4. ASSUME NEW j \in RowsOf(n) PROVE j <= l
  <2>1. j \in 1 .. Len(rows) /\ l \in 1 .. Len(rows) /\ rows[j].issued <= rows[l].issued
    BY <1>1, <1>2, <1>3 DEF RowsOf, l
  <2>2. rows[j].issued \in Nat /\ rows[l].issued \in Nat
    BY <2>1 DEF Timed
  <2>. QED
    BY <1>2, <2>1, <2>2 DEF RowsInv
<1>5. ASSUME NEW i \in 1 .. Len(rows), rows[i].nid = n
      PROVE  rows[i].key = rows[l].key /\ (rows[i].revoked => rows[l].revoked)
  <2>1. i \in RowsOf(n) /\ l \in 1 .. Len(rows) /\ rows[l].nid = n
    BY <1>2, <1>3, <1>5 DEF RowsOf, l
  <2>. QED
    BY <1>4, <1>5, <2>1 DEF RowsInv
<1>. QED
  BY <1>1, <1>3, <1>4, <1>5 DEF Last, Record, l

\* There is one last row.
LEMMA LastOne ==
  ASSUME Shaped, NEW n, NEW i, NEW j, Last(n, i), Last(n, j)
  PROVE  i = j
BY DEF Last, RowsOf, Shaped, RowsShaped

\* Over this store nothing else is under way.
LEMMA OnlyOne ==
  ASSUME NEW x \in Calls, Moves(x), store = "memory"
  PROVE  \A y \in Calls \ {x} : Over(y) /\ call'[y] = call[y]
BY MovesAlone DEF MayRun, Others

\* A step that leaves the rows alone, and no call between its lookup and what it found.
LEMMA TableRest ==
  ASSUME TableInv, NEW x \in Calls, Moves(x), store = "memory", rows' = rows,
         call'[x].at \notin {"serial", "save", "mark"}
  PROVE  RowsInv' /\ FoundInv'
<1>1. \A y \in Calls \ {x} : Over(y) /\ call'[y] = call[y]
  BY OnlyOne
<1>. QED
  BY <1>1 DEF TableInv, RowsInv, FoundInv, Over, Issuing

\* A certificate is drawn: what was looked up is what is in the table.
LEMMA TableDraws ==
  ASSUME Shaped, Timed, NamesInv, TableInv, NEW x \in Calls, Draws(x), store = "memory"
  PROVE  RowsInv' /\ FoundInv'
<1>1. \A y \in Calls \ {x} : Over(y) /\ call'[y] = call[y]
  BY Zenon, OnlyOne DEF Moves
<1>2. RowsInv /\ DOMAIN rows = 1 .. Len(rows)
  BY DEF TableInv, Shaped, RowsShaped
<1>3. /\ call[x].at = "lookup" /\ rows' = rows /\ GoesOn(x, "serial") /\ call'[x].issued = instants + 1
  BY Zenon DEF Draws
<1>4. \A i \in 1 .. Len(rows) : rows[i].issued < instants + 1
  BY DEF Timed
<1>5. ASSUME NEW i \in 1 .. Len(rows), rows[i].nid = call[x].nid
      PROVE  call[x].op = "renew" /\ ~rows[i].revoked /\ rows[i].key = call'[x].key
  <2>1. Known(call[x].nid)
    BY <1>2, <1>5 DEF Known, RowsOf
  <2>2. call[x].op = "renew" /\ Renewable(call[x].nid) /\ call'[x].key = Record(call[x].nid).key
    BY Zenon, <1>3, <2>1 DEF Draws, NamesInv, FreshNames, Over
  <2>. QED
    BY Zenon, <1>2, <1>5, <2>1, <2>2, LastRow DEF Renewable
<1>6. ASSUME NEW i \in 1 .. Len(rows), rows[i].nid = call[x].parent, call[x].op = "session"
      PROVE  ~rows[i].revoked
  <2>1. MayHaveSession(call[x].parent)
    BY Zenon, <1>6 DEF Draws
  <2>. QED
    BY Zenon, <1>2, <1>6, <2>1, LastRow DEF MayHaveSession
<1>7. RowsInv'
  BY <1>2, <1>3 DEF RowsInv
<1>8. ASSUME NEW y \in Calls \ {x} PROVE ~Issuing(y)' /\ call'[y].at # "mark"
  BY <1>1 DEF Over, Issuing
<1>. QED
  BY <1>3, <1>4, <1>5, <1>6, <1>7, <1>8 DEF FoundInv, GoesOn

\* It is saved.
LEMMA TableSaves ==
  ASSUME Shaped, Shaped', Timed, TableInv, NEW x \in Calls, Saves(x), store = "memory"
  PROVE  RowsInv' /\ FoundInv'
<1>1. \A y \in Calls \ {x} : Over(y) /\ call'[y] = call[y]
  BY Zenon, OnlyOne DEF Moves
<1>. DEFINE m == Len(rows) + 1
<1>2. RowsInv /\ FoundInv /\ Len(rows) \in Nat
  BY DEF TableInv, Shaped, RowsShaped
<1>3. /\ Len(rows') = m /\ \A i \in 1 .. Len(rows) : rows'[i] = rows[i]
      /\ rows'[m].nid = call[x].nid /\ rows'[m].key = call[x].key /\ rows'[m].issued = call[x].issued
      /\ rows'[m].revoked = FALSE /\ Issuing(x) /\ call'[x].at = "done"
  BY Zenon DEF Saves, Saved, Issuing, EndedWith
<1>4. \A i \in 1 .. Len(rows) :
        /\ rows[i].issued < rows'[m].issued
        /\ rows[i].nid = rows'[m].nid => ~rows[i].revoked /\ rows[i].key = rows'[m].key
  BY <1>2, <1>3 DEF FoundInv
<1>5. ASSUME NEW i \in 1 .. m, NEW j \in 1 .. m
      PROVE  /\ i < j => rows'[i].issued < rows'[j].issued
             /\ rows'[i].nid = rows'[j].nid => /\ i <= j /\ rows'[i].revoked => rows'[j].revoked
                                               /\ rows'[i].key = rows'[j].key
  <2>1. CASE i # m /\ j # m
    BY <1>2, <1>3, <2>1 DEF RowsInv
  <2>2. CASE i = m
    BY <1>2, <1>3, <1>4, <2>2
  <2>3. CASE i # m /\ j = m
    BY <1>2, <1>3, <1>4, <2>3
  <2>. QED
    BY Zenon, <2>1, <2>2, <2>3
<1>6. RowsInv'
  BY Zenon, <1>3, <1>5 DEF RowsInv
<1>7. FoundInv'
  BY Zenon, <1>1, <1>3 DEF FoundInv, Over, Issuing
<1>. QED
  BY <1>6, <1>7

\* The last live row of a name is revoked.
LEMMA TableMarks ==
  ASSUME Shaped, TableInv, NEW x \in Calls, Marks(x) \/ Cascades(x), store = "memory"
  PROVE  RowsInv' /\ FoundInv'
<1>1. \A y \in Calls \ {x} : Over(y) /\ call'[y] = call[y]
  BY Zenon, OnlyOne DEF Moves
<1>2. PICK n : Marked(n)
  BY Zenon DEF Marks, Cascades
<1>3. RowsInv /\ DOMAIN rows = 1 .. Len(rows) /\ Len(rows') = Len(rows) /\ Len(rows) \in Nat
  BY <1>2 DEF TableInv, Shaped, RowsShaped, Marked
<1>4. \A i \in Hit(n) : i \in 1 .. Len(rows) /\ rows[i].nid = n /\ \A j \in 1 .. Len(rows) : rows[j].nid = n /\ ~rows[j].revoked => j <= i
  BY <1>3 DEF Hit, LiveRowsOf, RowsOf
<1>5. ASSUME NEW i \in 1 .. Len(rows), NEW j \in 1 .. Len(rows)
      PROVE  /\ i < j => rows'[i].issued < rows'[j].issued
             /\ rows'[i].nid = rows'[j].nid => /\ i <= j /\ rows'[i].revoked => rows'[j].revoked
                                               /\ rows'[i].key = rows'[j].key
  <2>1. /\ rows'[i].nid = rows[i].nid /\ rows'[i].key = rows[i].key /\ rows'[i].issued = rows[i].issued
        /\ rows'[j].nid = rows[j].nid /\ rows'[j].key = rows[j].key /\ rows'[j].issued = rows[j].issued
        /\ rows'[i].revoked = IF i \in Hit(n) THEN TRUE ELSE rows[i].revoked
        /\ rows'[j].revoked = IF j \in Hit(n) THEN TRUE ELSE rows[j].revoked
    BY Zenon, <1>2 DEF Marked
  <2>2. ASSUME rows[i].nid = rows[j].nid, i <= j, rows'[i].revoked PROVE rows'[j].revoked
    <3>1. CASE i \in Hit(n)
      BY <1>4, <2>1, <2>2, <3>1
    <3>2. CASE i \notin Hit(n)
      BY Zenon, <1>3, <2>1, <2>2, <3>2 DEF RowsInv
    <3>. QED
      BY <3>1, <3>2
  <2>. QED
    BY <1>3, <2>1, <2>2 DEF RowsInv
<1>6. RowsInv'
  BY <1>3, <1>5 DEF RowsInv
<1>7. call'[x].at \notin {"serial", "save", "mark"}
  BY Zenon DEF Marks, Cascades, GoesOn, EndedWith
<1>8. FoundInv'
  BY Zenon, <1>1, <1>7 DEF FoundInv, Over, Issuing
<1>. QED
  BY <1>6, <1>8

\* The table of the in-memory store stays in order.
LEMMA TableStep ==
  ASSUME Shaped, Timed, NamesInv, TableInv, [Next]_vars
  PROVE  TableInv'
<1>1. Shaped' /\ ((\E x \in Calls : Moves(x)) \/ Restarts \/ Aside)
  BY NextKinds
<1>2. ASSUME NEW x \in Calls, Moves(x), store = "memory" PROVE RowsInv' /\ FoundInv'
  <2>1. CASE Draws(x)
    BY <1>2, <2>1, TableDraws
  <2>2. CASE Saves(x)
    BY <1>1, <1>2, <2>2, TableSaves
  <2>3. CASE Marks(x) \/ Cascades(x)
    BY <1>2, <2>3, TableMarks
  <2>4. CASE Begins(x) \/ Queues(x) \/ Refused(x) \/ Lists(x)
    <3>1. rows' = rows /\ call'[x].at \notin {"serial", "save", "mark"}
      BY <2>4, Elsewhere
    <3>. QED
      BY <1>2, <3>1, TableRest
  <2>5. CASE Targets(x)
    <3>1. \A y \in Calls \ {x} : Over(y) /\ call'[y] = call[y]
      BY <1>2, OnlyOne
    <3>2. /\ rows' = rows /\ Known(call[x].nid) /\ GoesOn(x, "mark")
          /\ call'[x].role = rows[Latest(call[x].nid)].role
      BY Zenon, <2>5 DEF Targets, tables, Record
    <3>3. Last(call[x].nid, Latest(call[x].nid))
      BY Zenon, <1>2, <3>2, LastRow DEF TableInv
    <3>4. \A i \in 1 .. Len(rows) : Last(call[x].nid, i) => rows[i].role = call'[x].role
      BY Zenon, <3>2, <3>3, LastOne
    <3>5. \A i \in 1 .. Len(rows') : Last(call[x].nid, i)' => Last(call[x].nid, i)
      BY Zenon, <3>2 DEF Last, RowsOf, GoesOn
    <3>6. call'[x].at = "mark" => \A i \in 1 .. Len(rows') : Last(call[x].nid, i)' => rows'[i].role = call'[x].role
      BY Zenon, <3>2, <3>4, <3>5
    <3>7. ~Issuing(x)'
      BY Zenon, <3>2 DEF GoesOn, Issuing
    <3>8. ASSUME NEW y \in Calls \ {x} PROVE ~Issuing(y)' /\ call'[y].at # "mark"
      BY <3>1 DEF Over, Issuing
    <3>9. FoundInv'
      BY Zenon, <3>6, <3>7, <3>8 DEF FoundInv
    <3>10. RowsInv'
      BY Zenon, <1>2, <3>2 DEF TableInv, RowsInv
    <3>. QED
      BY <3>9, <3>10
  <2>6. CASE Numbers(x)
    <3>1. \A y \in Calls \ {x} : Over(y) /\ call'[y] = call[y]
      BY <1>2, OnlyOne
    <3>2. /\ rows' = rows /\ GoesOn(x, "save") /\ call'[x].key = call[x].key /\ call'[x].issued = call[x].issued
          /\ Issuing(x)
      BY Zenon, <2>6 DEF Numbers, Issuing
    <3>3. RowsInv'
      BY <1>2, <3>2 DEF TableInv, RowsInv
    <3>4. ASSUME NEW y \in Calls \ {x} PROVE ~Issuing(y)' /\ call'[y].at # "mark"
      BY <3>1 DEF Over, Issuing
    <3>5. FoundInv'
      <4>1. /\ FoundInv /\ call'[x].at = "save" /\ call'[x].nid = call[x].nid /\ call'[x].op = call[x].op
            /\ call'[x].parent = call[x].parent
        BY Zenon, <1>2, <3>2 DEF TableInv, GoesOn
      <4>2. \A i \in 1 .. Len(rows) :
              /\ rows[i].issued < call[x].issued
              /\ rows[i].nid = call[x].nid => call[x].op = "renew" /\ ~rows[i].revoked /\ rows[i].key = call[x].key
              /\ rows[i].nid = call[x].parent /\ call[x].op = "session" => ~rows[i].revoked
        BY Zenon, <3>2, <4>1 DEF FoundInv
      <4>3. \A i \in 1 .. Len(rows') :
              /\ rows'[i].issued < call'[x].issued
              /\ rows'[i].nid = call'[x].nid => call'[x].op = "renew" /\ ~rows'[i].revoked /\ rows'[i].key = call'[x].key
              /\ rows'[i].nid = call'[x].parent /\ call'[x].op = "session" => ~rows'[i].revoked
        BY <3>2, <4>1, <4>2
      <4>. QED
        BY <3>4, <4>1, <4>3 DEF FoundInv
    <3>. QED
      BY <3>3, <3>5
  <2>. QED
    BY <1>2, <2>1, <2>2, <2>3, <2>4, <2>5, <2>6 DEF Moves
<1>3. CASE \E x \in Calls : Moves(x)
  BY <1>2, <1>3, MovesAlone DEF TableInv
<1>4. CASE Restarts
  BY <1>4 DEF Restarts, tables, TableInv
<1>5. CASE Aside
  <2>1. rows' = rows /\ call' = call /\ store' = store
    BY Zenon, <1>5 DEF Aside
  <2>2. \A n, i : Last(n, i)' = Last(n, i)
    BY Zenon, <2>1 DEF Last, RowsOf
  <2>3. RowsInv => RowsInv'
    BY Zenon, <2>1 DEF RowsInv
  <2>4. FoundInv => FoundInv'
    BY Zenon, <2>1, <2>2 DEF FoundInv, Issuing
  <2>. QED
    BY Zenon, <2>1, <2>3, <2>4 DEF TableInv
<1>. QED
  BY <1>1, <1>3, <1>4, <1>5

\* The group was revoked as a group.
Fallen(g) == \E i \in RowsOf(g) : Last(g, i) /\ rows[i].revoked /\ rows[i].role = "group"
Dead(n) == \E i \in RowsOf(n) : Last(n, i) /\ rows[i].revoked

\* The revocation has still to reach the session.
Awaits(s, x) ==
  /\ call[x].op = "revoke"
  /\ \/ call[x].at = "children" /\ call[x].nid = under[s]
     \/ call[x].at = "cascade" /\ s \in call[x].left

\* The sessions of a fallen group are dead, but for those the revocation has still to reach.
GroupInv ==
  store = "memory" =>
    \A s \in Sessions : under[s] # None /\ Fallen(under[s]) => Dead(s) \/ \E x \in Calls : Awaits(s, x)

\* What is dead stays dead over this store: the only rows added are of names nothing was revoked of.
LEMMA DeadStays ==
  ASSUME Shaped, Shaped', TableInv, NEW x \in Calls, Moves(x), store = "memory", NEW n, Dead(n)
  PROVE  Dead(n)'
<1>1. PICK i \in RowsOf(n) : Last(n, i) /\ rows[i].revoked
  BY DEF Dead
<1>2. i \in 1 .. Len(rows) /\ rows[i].nid = n /\ Len(rows) \in Nat
  BY DEF RowsOf, Shaped, RowsShaped
<1>3. RowsOf(n)' = RowsOf(n) /\ rows'[i].revoked
  <2>1. CASE rows' = rows
    BY <1>1, <2>1 DEF RowsOf
  <2>2. CASE \E m : Marked(m)
    <3>1. PICK m : Marked(m)
      BY <2>2
    <3>. QED
      BY Zenon, <1>1, <1>2, <3>1, MarkedRowsOf DEF Marked
  <2>3. CASE Saves(x) /\ Saved(x)
    <3>1. call[x].nid # n
      BY <1>1, <1>2, <2>3 DEF Saves, TableInv, FoundInv, Issuing
    <3>2. RowsOf(n)' = RowsOf(n)
      BY <2>3, <3>1, SavedRows
    <3>. QED
      BY Zenon, <1>1, <1>2, <2>3, <3>2 DEF Saved
  <2>. QED
    BY <2>1, <2>2, <2>3, RowsChange
<1>. QED
  BY <1>1, <1>3 DEF Dead, Last

\* The last live row of a name that is not dead is its last row, and all its rows are live.
LEMMA LiveLast ==
  ASSUME Shaped, Timed, RowsInv, NEW n, Known(n), ~Dead(n)
  PROVE  \A i \in RowsOf(n) : ~rows[i].revoked
<1>1. /\ Last(n, Latest(n)) /\ Latest(n) \in RowsOf(n)
      /\ \A i \in 1 .. Len(rows) : rows[i].nid = n => (rows[i].revoked => rows[Latest(n)].revoked)
  BY LastRow DEF Record, Last
<1>. QED
  BY <1>1 DEF Dead, RowsOf, Shaped, RowsShaped

\* Revoking such a name kills it.
LEMMA MarkKills ==
  ASSUME Shaped, Shaped', Timed, RowsInv, NEW n, Known(n), Marked(n), store = "memory"
  PROVE  Dead(n)'
<1>1. Last(n, Latest(n)) /\ Latest(n) \in 1 .. Len(rows) /\ Latest(n) \in RowsOf(n)
  BY Zenon, LastRow DEF Last
<1>. DEFINE l == Latest(n)
<1>. HIDE DEF l
<1>2. rows'[l].revoked
  <2>1. CASE rows[l].revoked
    BY Zenon, <1>1, <2>1 DEF Marked, l
  <2>2. CASE ~rows[l].revoked
    <3>1. l \in Hit(n)
      BY <1>1, <2>2 DEF Hit, LiveRowsOf, Last, l
    <3>. QED
      BY Zenon, <1>1, <3>1 DEF Marked, l
  <2>. QED
    BY <2>1, <2>2
<1>3. RowsOf(n)' = RowsOf(n) /\ Last(n, l) /\ l \in RowsOf(n)
  BY <1>1, MarkedRowsOf DEF l
<1>. QED
  BY <1>2, <1>3 DEF Dead, Last

\* A group falls when it is marked as one: the revocation goes on to its sessions.
LEMMA Falls ==
  ASSUME Shaped, Shaped', TableInv, NEW x \in Calls, Moves(x), store = "memory", NEW g, Fallen(g)', ~Fallen(g)
  PROVE  \/ Marks(x) /\ call[x].nid = g /\ GoesOn(x, "children")
         \/ Cascades(x) /\ Marked(g) /\ g \in call[x].left
<1>1. PICK i \in RowsOf(g)' : Last(g, i)' /\ rows'[i].revoked /\ rows'[i].role = "group"
  BY Zenon DEF Fallen
<1>2. CASE rows' = rows
  BY Zenon, <1>2 DEF Fallen, Last, RowsOf
<1>3. CASE Saves(x) /\ Saved(x)
  <2>1. rows'[Len(rows) + 1].revoked = FALSE /\ \A j \in 1 .. Len(rows) : rows'[j] = rows[j]
    BY Zenon, <1>3 DEF Saved
  <2>2. Len(rows) \in Nat /\ \A j \in RowsOf(g) : j \in 1 .. Len(rows)
    BY DEF RowsOf, Shaped, RowsShaped
  <2>3. CASE call[x].nid = g
    <3>1. RowsOf(g)' = RowsOf(g) \union {Len(rows) + 1}
      BY <1>3, <2>3, SavedRows
    <3>2. Len(rows) + 1 <= i /\ i \in RowsOf(g) \union {Len(rows) + 1}
      BY <1>1, <3>1 DEF Last
    <3>3. i = Len(rows) + 1
      BY <2>2, <3>2
    <3>. QED
      BY <1>1, <2>1, <3>3
  <2>4. CASE call[x].nid # g
    <3>1. RowsOf(g)' = RowsOf(g)
      BY <1>3, <2>4, SavedRows
    <3>2. rows'[i] = rows[i] /\ Last(g, i) /\ i \in RowsOf(g)
      BY Zenon, <1>1, <2>1, <2>2, <3>1 DEF Last
    <3>. QED
      BY Zenon, <1>1, <3>2 DEF Fallen
  <2>. QED
    BY Zenon, <2>3, <2>4
<1>4. ASSUME NEW m, Marked(m) PROVE m = g /\ Last(g, i) /\ i \in LiveRowsOf(g) /\ rows[i].role = "group"
  <2>1. RowsOf(g)' = RowsOf(g)
    BY <1>4, MarkedRowsOf
  <2>2. i \in RowsOf(g) /\ Last(g, i) /\ i \in 1 .. Len(rows) /\ rows[i].nid = g
    BY <1>1, <2>1 DEF Last, RowsOf, Shaped, RowsShaped
  <2>3. rows[i].role = "group" /\ rows'[i].revoked = IF i \in Hit(m) THEN TRUE ELSE rows[i].revoked
    BY Zenon, <1>1, <1>4, <2>2 DEF Marked
  <2>4. ~rows[i].revoked
    BY Zenon, <2>2, <2>3 DEF Fallen
  <2>5. i \in Hit(m)
    BY Zenon, <1>1, <2>3, <2>4
  <2>. QED
    BY Zenon, <2>2, <2>3, <2>4, <2>5 DEF Hit, LiveRowsOf, RowsOf
<1>5. CASE Marks(x)
  <2>1. call[x].nid = g /\ Last(g, i) /\ i \in LiveRowsOf(g) /\ rows[i].role = "group"
    BY Zenon, <1>4, <1>5 DEF Marks
  <2>2. call[x].role = "group"
    BY Zenon, <1>5, <2>1 DEF Marks, TableInv, FoundInv, LiveRowsOf, RowsOf, Shaped, RowsShaped
  <2>. QED
    BY Zenon, <1>5, <2>1, <2>2 DEF Marks
<1>6. CASE Cascades(x)
  BY Zenon, <1>4, <1>6 DEF Cascades
<1>. QED
  BY Zenon, <1>2, <1>3, <1>5, <1>6, RowsChange

\* What a revocation cascades to are sessions.
LeftNames ==
  \A x \in Calls : /\ ~Over(x) /\ call[x].op = "revoke" => call[x].nid # None
                   /\ call[x].at = "cascade" => call[x].left \subseteq Sessions

\* The names left to a cascade stay sessions.
LEMMA LeftStep ==
  ASSUME Shaped, Staged, NamesInv, LeftNames, [Next]_vars
  PROVE  LeftNames'
<1>1. (\E x \in Calls : Moves(x)) \/ Restarts \/ Aside
  BY NextKinds
<1>2. ASSUME NEW x \in Calls, Moves(x) PROVE LeftNames'
  <2>1. Others(x)
    BY <1>2, MovesAlone
  <2>2. ~Over(x)' /\ call'[x].op = "revoke" => call'[x].nid # None
    <3>1. CASE Begins(x)
      BY Zenon, <3>1, BeginsAs, NamesAssumption
    <3>2. CASE ~Begins(x)
      BY Zenon, <1>2, <3>2 DEF Moves, Queues, Draws, Targets, Refused, Numbers, Saves, Marks, Lists, Cascades,
                        EndedWith, GoesOn, Over, LeftNames
    <3>. QED
      BY Zenon, <3>1, <3>2
  <2>3. call'[x].at = "cascade" => call'[x].left \subseteq Sessions
    <3>1. CASE Lists(x)
      <4>1. call[x].nid # None
        BY Zenon, <3>1 DEF Lists, LeftNames, Staged, Over, Issuing
      <4>2. LiveChildren(call[x].nid) \subseteq Sessions
        BY Zenon, <4>1 DEF LiveChildren, NamesInv, RowNames, Shaped, RowsShaped
      <4>. QED
        BY Zenon, <3>1, <4>2 DEF Lists, EndedWith
    <3>2. CASE Cascades(x)
      BY Zenon, <3>2 DEF Cascades, EndedWith, LeftNames
    <3>3. CASE ~Lists(x) /\ ~Cascades(x)
      BY <1>2, <3>3 DEF Moves, Begins, Queues, Draws, Targets, Refused, Numbers, Saves, Marks, Arrived, EndedWith, GoesOn
    <3>. QED
      BY Zenon, <3>1, <3>2, <3>3
  <2>. QED
    BY Zenon, <2>1, <2>2, <2>3 DEF LeftNames, Others, Over
<1>3. CASE Restarts
  BY <1>3 DEF Restarts, LeftNames, Over
<1>4. CASE Aside
  BY Zenon, <1>4 DEF Aside, LeftNames, Over
<1>. QED
  BY <1>1, <1>2, <1>3, <1>4

\* A session that is still alive when its group's sessions are listed is on the list.
LEMMA Listed ==
  ASSUME Shaped, Timed, NamesInv, RowsInv, NEW s \in Sessions, under[s] # None, ~Dead(s)
  PROVE  s \in LiveChildren(under[s])
<1>1. PICK i \in RowsOf(s) : rows[i].parent = under[s]
  BY DEF NamesInv, RowNames
<1>2. ~rows[i].revoked /\ rows[i].nid = s /\ i \in DOMAIN rows
  BY Zenon, <1>1, LiveLast DEF Known, RowsOf
<1>. QED
  BY Zenon, <1>1, <1>2 DEF LiveChildren

\* A new session is not one of a fallen group.
LEMMA NewSession ==
  ASSUME Shaped, TableInv, NamesInv, NEW x \in Calls, Saves(x), store = "memory",
         NEW s \in Sessions, under'[s] # under[s]
  PROVE  ~Fallen(under'[s])
<1>1. call[x].op = "session" /\ under'[s] = call[x].parent
  BY DEF Saves, NamesInv, RowNames
<1>2. \A i \in 1 .. Len(rows) : rows[i].nid = call[x].parent => ~rows[i].revoked
  BY <1>1 DEF Saves, TableInv, FoundInv, Issuing
<1>. QED
  BY <1>1, <1>2 DEF Fallen, RowsOf, Shaped, RowsShaped

\* The sessions of a fallen group stay accounted for.
LEMMA GroupMoves ==
  ASSUME Shaped, Shaped', Staged, Timed, NamesInv, TableInv, LeftNames, GroupInv, store = "memory",
         NEW x \in Calls, Moves(x), NEW s \in Sessions, NEW g, g = under'[s], g # None, Fallen(g)'
  PROVE  Dead(s)' \/ Awaits(s, x)'
<1>1. CASE under'[s] # under[s]
  <2>1. Saves(x)
    BY Zenon, <1>1 DEF Moves, Begins, Queues, Draws, Targets, Refused, Numbers, Marks, Lists, Cascades, tables
  <2>2. ~Fallen(g)
    BY Zenon, <1>1, <2>1, NewSession
  <2>3. Marks(x) \/ Cascades(x)
    BY Zenon, <2>2, Falls
  <2>. QED
    BY <2>1, <2>3 DEF Saves, Marks, Cascades
<1>2. CASE under'[s] = under[s]
  <2>1. g \in Groups /\ g = under[s] /\ Known(s)
    BY <1>2 DEF NamesInv, RowNames, Known
  <2>2. RowsInv
    BY DEF TableInv
  <2>3. CASE Dead(s)
    BY <2>3, DeadStays
  <2>4. CASE ~Dead(s) /\ Fallen(g)
    <3>1. Awaits(s, x)
      <4>1. PICK y \in Calls : Awaits(s, y)
        BY Zenon, <2>1, <2>4 DEF GroupInv
      <4>2. y = x
        BY Zenon, <4>1, OnlyOne DEF Awaits, Over
      <4>. QED
        BY <4>1, <4>2
    <3>2. CASE call[x].at = "children"
      <4>1. Lists(x)
        BY Zenon, <3>2 DEF Moves, Begins, Queues, Draws, Targets, Refused, Numbers, Saves, Marks, Cascades, MayStart
      <4>2. s \in LiveChildren(call[x].nid)
        BY Zenon, <2>1, <2>2, <2>4, <3>1, <3>2, Listed DEF Awaits
      <4>. QED
        BY Zenon, <3>1, <4>1, <4>2 DEF Lists, GoesOn, Awaits
    <3>3. CASE call[x].at = "cascade"
      <4>1. Cascades(x)
        BY Zenon, <3>3 DEF Moves, Begins, Queues, Draws, Targets, Refused, Numbers, Saves, Marks, Lists, MayStart
      <4>2. PICK n \in call[x].left :
              /\ Marked(n)
              /\ \/ call[x].left = {n} /\ EndedWith(x, "ok")
                 \/ GoesOn(x, "cascade") /\ call'[x].left = call[x].left \ {n}
        BY Zenon, <4>1 DEF Cascades
      <4>3. CASE n = s
        BY Zenon, <2>1, <2>2, <4>2, <4>3, MarkKills
      <4>4. CASE n # s
        BY Zenon, <3>1, <3>3, <4>2, <4>4 DEF Awaits, GoesOn
      <4>. QED
        BY Zenon, <4>3, <4>4
    <3>. QED
      BY Zenon, <3>1, <3>2, <3>3 DEF Awaits
  <2>5. CASE ~Dead(s) /\ ~Fallen(g)
    <3>1. CASE Marks(x) /\ call[x].nid = g /\ GoesOn(x, "children")
      BY Zenon, <1>2, <3>1 DEF Marks, GoesOn, Awaits, Staged, Issuing
    <3>2. CASE Cascades(x) /\ g \in call[x].left
      BY Zenon, <2>1, <3>2, NamesAssumption DEF Cascades, LeftNames
    <3>. QED
      BY Zenon, <2>5, <3>1, <3>2, Falls
  <2>. QED
    BY <2>3, <2>4, <2>5
<1>. QED
  BY Zenon, <1>1, <1>2

\* The sessions of fallen groups stay accounted for, whatever the step.
LEMMA GroupStep ==
  ASSUME Shaped, Staged, Timed, NamesInv, TableInv, LeftNames, GroupInv, [Next]_vars
  PROVE  GroupInv'
<1>1. Shaped' /\ ((\E x \in Calls : Moves(x)) \/ Restarts \/ Aside)
  BY NextKinds
<1>2. ASSUME NEW x \in Calls, Moves(x) PROVE GroupInv'
  <2>1. store' = store
    BY <1>2, MovesAlone
  <2>2. ASSUME store = "memory", NEW s \in Sessions, NEW g, g = under'[s], g # None, Fallen(g)'
        PROVE  Dead(s)' \/ Awaits(s, x)'
    BY <1>1, <1>2, <2>2, GroupMoves
  <2>. QED
    BY Zenon, <2>1, <2>2 DEF GroupInv
<1>3. CASE Restarts
  BY <1>3 DEF Restarts, tables, GroupInv
<1>4. CASE Aside
  <2>1. rows' = rows /\ call' = call /\ store' = store /\ under' = under
    BY Zenon, <1>4 DEF Aside
  <2>2. \A n : RowsOf(n)' = RowsOf(n)
    BY Zenon, <2>1 DEF RowsOf
  <2>3. \A n, i : Last(n, i)' = Last(n, i)
    BY Zenon, <2>2 DEF Last
  <2>4. \A n : Fallen(n)' = Fallen(n) /\ Dead(n)' = Dead(n)
    BY Zenon, <2>1, <2>2, <2>3 DEF Fallen, Dead
  <2>. QED
    BY Zenon, <2>1, <2>4 DEF GroupInv, Awaits
<1>. QED
  BY <1>1, <1>2, <1>3, <1>4
-----------------------------------------------------------------------------
(* The results about names, keys and groups. *)

CaInv == store \in Stores /\ Staged /\ Timed /\ DecisionInv /\ NamesInv /\ TableInv /\ LeftNames /\ GroupInv

\* Everything the results below need holds in every reachable state.
LEMMA CaInvariant == Spec => [](Shaped /\ CaInv)
<1>1. Init => CaInv
  <2>. SUFFICES ASSUME Init PROVE CaInv
    OBVIOUS
  <2>1. /\ call = [x \in Calls |-> Idle] /\ Idle.at = "idle" /\ Idle.op = "none" /\ Idle.nid = None
        /\ Idle.result = "none" /\ Idle.item = None
    BY Zenon DEF Init, Idle
  <2>0. \A x \in Calls : Over(x) /\ ~Issuing(x) /\ call[x].at = "idle"
    BY <2>1 DEF Over, Issuing
  <2>2. rows = << >> /\ Len(rows) = 0 /\ DOMAIN rows = {} /\ instants = 0
    BY DEF Init
  <2>3. Timed /\ LeftNames
    BY <2>0, <2>2 DEF Timed, Topped, LeftNames
  <2>4. store \in Stores /\ Staged /\ DecisionInv
    BY DecisionInit DEF Init
  <2>5. NamesInv
    <3>1. CallNames /\ FreshNames
      BY Zenon, <2>0 DEF CallNames, FreshNames
    <3>2. RowNames
      BY <2>2 DEF Init, RowNames
    <3>3. QueuedNames
      BY Zenon DEF Init, QueuedNames, NoPending
    <3>. QED
      BY <3>1, <3>2, <3>3 DEF NamesInv
  <2>6. TableInv
    <3>1. 1 .. Len(rows) = {}
      BY <2>2
    <3>2. RowsInv
      BY ONLY <3>1 DEF RowsInv
    <3>3. FoundInv
      BY ONLY Zenon, <2>0, <3>1 DEF FoundInv
    <3>. QED
      BY <3>2, <3>3 DEF TableInv
  <2>7. GroupInv
    BY DEF Init, GroupInv
  <2>. QED
    BY <2>3, <2>4, <2>5, <2>6, <2>7 DEF CaInv
<1>2. Shaped /\ CaInv /\ [Next]_vars => CaInv'
  <2>. SUFFICES ASSUME Shaped, CaInv, [Next]_vars PROVE CaInv'
    OBVIOUS
  <2>1. (\E x \in Calls : Moves(x)) \/ Restarts \/ Aside
    BY NextKinds
  <2>2. store' = store
    BY <2>1, MovesAlone DEF Restarts, Aside, tables
  <2>. QED
    BY <2>2, StagedStep, TimedStep, DecisionStep, NamesStep, TableStep, LeftStep, GroupStep DEF CaInv
<1>. QED
  BY <1>1, <1>2, ShapeInvariant, PTL DEF Spec

\* Over the in-memory store a name keeps the key it was first registered with: every row of it was
\* issued when it had none, or renewed the key of the last one.
THEOREM KeySafe == Spec => []KeyBound
<1>1. Shaped /\ CaInv => KeyBound
  BY DEF CaInv, TableInv, RowsInv, KeyBound, Shaped, RowsShaped
<1>. QED
  BY <1>1, CaInvariant, PTL

\* get_by_nid finds a revoked record exactly when the name is dead.
LEMMA RecordDead ==
  ASSUME Shaped, Timed, RowsInv, NEW n
  PROVE  /\ Known(n) /\ Record(n).revoked => Dead(n)
         /\ Dead(n) => Known(n) /\ Record(n).revoked
<1>1. CASE Known(n)
  <2>1. Last(n, Latest(n)) /\ Latest(n) \in RowsOf(n)
    BY Zenon, <1>1, LastRow DEF Last
  <2>2. ASSUME NEW i \in RowsOf(n), Last(n, i) PROVE i = Latest(n)
    BY <2>1, <2>2, LastOne
  <2>. QED
    BY Zenon, <1>1, <2>1, <2>2 DEF Dead, Record
<1>2. CASE ~Known(n)
  BY <1>2 DEF Known, Dead
<1>. QED
  BY <1>1, <1>2

\* Over the in-memory store no step brings a revoked name back: not a registration, not a renewal,
\* not an approval that was waiting.
THEOREM DeadSafe == Spec => DeadStaysDead
<1>. DEFINE Found == \A n \in Nids : store = "memory" => (Dead(n) <=> Known(n) /\ Record(n).revoked)
<1>1. Shaped /\ CaInv => Found
  BY RecordDead DEF CaInv, TableInv
<1>2. Shaped /\ CaInv /\ Found /\ Found' /\ [Next]_vars =>
        [\A n \in Nids : store = "memory" /\ Known(n) /\ Record(n).revoked => (Record(n).revoked)']_vars
  <2>. SUFFICES ASSUME Shaped, CaInv, Found, Found', [Next]_vars,
                       NEW n \in Nids, store = "memory", Known(n), Record(n).revoked
                PROVE  (Record(n).revoked)'
    BY Zenon
  <2>1. Dead(n)
    OBVIOUS
  <2>2. Shaped' /\ ((\E x \in Calls : Moves(x)) \/ Restarts \/ Aside)
    BY Zenon, NextKinds
  <2>3. Dead(n)' /\ store' = "memory"
    <3>1. ASSUME NEW x \in Calls, Moves(x) PROVE Dead(n)' /\ store' = "memory"
      BY Zenon, <2>1, <2>2, <3>1, DeadStays, MovesAlone DEF CaInv
    <3>2. CASE Restarts
      BY <3>2 DEF Restarts
    <3>3. CASE Aside
      BY Zenon, <2>1, <3>3 DEF Aside, Dead, Last, RowsOf
    <3>. QED
      BY Zenon, <2>2, <3>1, <3>2, <3>3
  <2>. QED
    BY <2>3
<1>. HIDE DEF Found
<1>. QED
  BY <1>1, <1>2, CaInvariant, PTL DEF Spec, DeadStaysDead

\* A session that verifies although its group was revoked was renewed out of the group; over the
\* in-memory store its group had been renewed too, so that it was no longer revoked as one.
THEOREM GroupSafe == Spec => []GroupTakesSessions
<1>1. Shaped /\ CaInv => GroupTakesSessions
  <2>. SUFFICES ASSUME Shaped, CaInv, NEW s \in Sessions, Quiet, under[s] # None, Verifies(s), Record(under[s]).revoked
                PROVE  /\ Record(s).role = "none"
                       /\ store = "sql" \/ Record(under[s]).role = "none"
    BY Zenon DEF GroupTakesSessions
  <2>. DEFINE g == under[s]
  <2>1. Timed /\ NamesInv /\ RowNames /\ g \in Groups /\ Known(g) /\ Known(s)
    BY Zenon DEF CaInv, NamesInv, RowNames, Known
  <2>2. Latest(s) \in 1 .. Len(rows) /\ Record(s).nid = s
    BY Zenon, <2>1, LatestRow DEF Record, RowsOf, Shaped, RowsShaped
  <2>3. Latest(g) \in 1 .. Len(rows) /\ Record(g).nid = g
    BY Zenon, <2>1, LatestRow DEF Record, RowsOf, Shaped, RowsShaped
  <2>4. Record(s).role = "none"
    <3>1. Record(s).role # "session"
      BY <2>1, <2>2 DEF RowNames, Record, Verifies
    <3>2. Record(s).role # "group"
      BY <2>1, <2>2, NamesAssumption DEF RowNames, Record
    <3>. QED
      BY Zenon, <2>1, <2>2, <3>1, <3>2 DEF RowNames, Record
  <2>5. ASSUME store = "memory" PROVE Record(g).role = "none"
    <3>1. RowsInv /\ ~Dead(s)
      BY Zenon, <2>1, <2>5, RecordDead DEF CaInv, TableInv, Verifies
    <3>2. ~Fallen(g)
      BY Zenon, <2>1, <2>5, <3>1 DEF CaInv, GroupInv, Awaits, Quiet, Over
    <3>3. Record(g).role # "group"
      <4>1. Last(g, Latest(g)) /\ Latest(g) \in RowsOf(g)
        BY Zenon, <2>1, <3>1, LastRow DEF Last
      <4>. QED
        BY Zenon, <3>2, <4>1 DEF Fallen, Record
    <3>4. Record(g).role # "session"
      BY Zenon, <2>1, <2>3, NamesAssumption DEF RowNames, Record
    <3>. QED
      BY Zenon, <2>1, <2>3, <3>3, <3>4 DEF RowNames, Record
  <2>6. store \in {"memory", "sql"}
    BY NamesAssumption DEF CaInv
  <2>. QED
    BY Zenon, <2>4, <2>5, <2>6
<1>. QED
  BY <1>1, CaInvariant, PTL
=============================================================================
