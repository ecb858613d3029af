--------------------------- MODULE AnchorNodeProofs ---------------------------
(* Proofs about the anchor node: its rate limiter, its reputation gate and its event streams. *)
EXTENDS AnchorNode, FiniteSetTheorems, TLAPS
-----------------------------------------------------------------------------
(* The rate limiter. *)

Holds(r) == r.at \in {"refusing", "handling", "answering", "spawned", "lost"}
Holders(a) == {x \in Requests : req[x].agent = a /\ Holds(req[x])}

\* Every grant belongs to a request that has not given it back.
SlotInv ==
  /\ req = [x \in Requests |-> req[x]] /\ slots = [a \in Agents |-> slots[a]]
  /\ \A x \in Requests : /\ req[x] = [at |-> req[x].at, agent |-> req[x].agent]
                         /\ Holds(req[x]) => req[x].agent \in Agents
  /\ \A a \in Agents : slots[a] = Cardinality(Holders(a))

\* What a step does to the grants: it leaves them, or request x becomes r, with a grant that it
\* keeps, takes or gives back.
Keeps(x, r) ==
  /\ slots' = slots /\ (Holds(r) <=> Holds(req[x])) /\ (Holds(r) => r.agent = req[x].agent)
Takes(x, r) ==
  /\ ~Holds(req[x]) /\ Holds(r) /\ r.agent \in Agents
  /\ slots' = [slots EXCEPT ![r.agent] = @ + 1]
GivesBack(x, r) ==
  /\ Holds(req[x]) /\ ~Holds(r)
  /\ slots' = [slots EXCEPT ![req[x].agent] = @ - 1]
SlotMove(x) ==
  \E r : /\ r = [at |-> r.at, agent |-> r.agent]
         /\ req' = [req EXCEPT ![x] = r]
         /\ Keeps(x, r) \/ Takes(x, r) \/ GivesBack(x, r)

\* Such a move keeps the account.
LEMMA MoveKeeps ==
  ASSUME SlotInv, NEW x \in Requests, SlotMove(x)
  PROVE  SlotInv'
<1>1. PICK r : /\ r = [at |-> r.at, agent |-> r.agent]
               /\ req' = [req EXCEPT ![x] = r]
               /\ Keeps(x, r) \/ Takes(x, r) \/ GivesBack(x, r)
  BY Zenon DEF SlotMove
<1>2. /\ req' = [y \in Requests |-> req'[y]] /\ req'[x] = r
      /\ \A y \in Requests \ {x} : req'[y] = req[y]
  BY <1>1 DEF SlotInv
<1>3. slots' = [a \in Agents |-> slots'[a]]
  BY <1>1 DEF SlotInv, Keeps, Takes, GivesBack
<1>4. ASSUME NEW y \in Requests
      PROVE  /\ req'[y] = [at |-> req'[y].at, agent |-> req'[y].agent]
             /\ Holds(req'[y]) => req'[y].agent \in Agents
  BY <1>1, <1>2 DEF SlotInv, Keeps, Takes, GivesBack
<1>5. ASSUME NEW a \in Agents
      PROVE  slots'[a] = Cardinality(Holders(a)')
  <2> DEFINE H == Holders(a)
             G == Holders(a)'
  <2>1. /\ IsFiniteSet(H) /\ Cardinality(H) \in Nat /\ slots[a] = Cardinality(H)
        /\ H \subseteq Requests /\ G \subseteq Requests
    <3>1. H \subseteq Requests /\ G \subseteq Requests
      BY DEF Holders
    <3> QED BY <3>1, FS_Subset, FS_CardinalityType, AnchorAssumption DEF SlotInv
  <2>2. /\ \A y \in Requests \ {x} : y \in G <=> y \in H
        /\ x \in H <=> req[x].agent = a /\ Holds(req[x])
        /\ x \in G <=> r.agent = a /\ Holds(r)
    BY <1>2 DEF Holders, Holds
  <2> HIDE DEF H, G
  <2>3. CASE (x \in G <=> x \in H) /\ slots'[a] = slots[a]
    <3>1. G = H
      BY <2>1, <2>2, <2>3
    <3> QED BY <2>1, <2>3, <3>1 DEF G
  <2>4. CASE x \in G /\ x \notin H /\ slots'[a] = slots[a] + 1
    <3>1. G = H \cup {x}
      BY <2>1, <2>2, <2>4
    <3>2. Cardinality(G) = Cardinality(H) + 1
      BY Zenon, <2>1, <2>4, <3>1, FS_AddElement
    <3> QED BY <2>1, <2>4, <3>2 DEF G
  <2>5. CASE x \notin G /\ x \in H /\ slots'[a] = slots[a] - 1
    <3>1. G = H \ {x}
      BY <2>1, <2>2, <2>5
    <3>2. Cardinality(G) = Cardinality(H) - 1
      BY Zenon, <2>1, <2>5, <3>1, FS_RemoveElement
    <3> QED BY <2>1, <2>5, <3>2 DEF G
  <2>6. \/ (x \in G <=> x \in H) /\ slots'[a] = slots[a]
        \/ x \in G /\ x \notin H /\ slots'[a] = slots[a] + 1
        \/ x \notin G /\ x \in H /\ slots'[a] = slots[a] - 1
    BY <1>1, <2>2 DEF Keeps, Takes, GivesBack, SlotInv
  <2> QED BY <2>3, <2>4, <2>5, <2>6
<1> QED BY <1>2, <1>3, <1>4, <1>5 DEF SlotInv

\* The handlers move requests in no other way.
LEMMA InvokeMoves ==
  ASSUME SlotInv, NEW x \in Requests, Invoke(x)
  PROVE  SlotMove(x)
<1>0. /\ req = [y \in Requests |-> req[y]] /\ req[x] = [at |-> req[x].at, agent |-> req[x].agent]
      /\ Holds(req[x]) => req[x].agent \in Agents
  BY DEF SlotInv
<1>1. ASSUME NEW at, Moves(x, at)
      PROVE  req' = [req EXCEPT ![x] = [at |-> at, agent |-> req[x].agent]]
  <2>1. PICK old, agent : req[x] = [at |-> old, agent |-> agent]
    BY <1>0
  <2>2. req' = [req EXCEPT ![x] = [req[x] EXCEPT !.at = at]]
    BY <1>0, <1>1 DEF Moves
  <2>3. [req[x] EXCEPT !.at = at] = [at |-> at, agent |-> agent]
    BY <2>1
  <2> QED BY Zenon, <2>1, <2>2, <2>3
<1>2. ASSUME NEW at, Moves(x, at), at \in {"done", "background"}, Holds(req[x]), Release(x)
      PROVE  SlotMove(x)
  <2> DEFINE r == [at |-> at, agent |-> req[x].agent]
  <2>1. GivesBack(x, r)
    BY <1>0, <1>2 DEF GivesBack, Holds, Release
  <2> QED BY <1>1, <1>2, <2>1 DEF SlotMove
<1>3. ASSUME NEW at, Moves(x, at), UNCHANGED slots, Holds([at |-> at]) <=> Holds(req[x])
      PROVE  SlotMove(x)
  <2> DEFINE r == [at |-> at, agent |-> req[x].agent]
  <2>1. Keeps(x, r)
    BY <1>3 DEF Keeps, Holds
  <2> QED BY <1>1, <1>3, <2>1 DEF SlotMove
<1>4. ASSUME NEW agent \in Agents \union {None}, NEW kind, NEW asynchronous, NEW epoch,
             NEW budget, NEW assurance, NEW up,
             Admit(x, agent, kind, asynchronous, epoch, budget, assurance, up)
      PROVE  SlotMove(x)
  <2>1. agent \in Agents /\ ~Holds(req[x])
    BY <1>4 DEF Admit, Granted, Holds
  <2>2. PICK at \in {"refusing", "done", "spawned", "handling"} :
          /\ req' = [req EXCEPT ![x] = [at |-> at, agent |-> agent]]
          /\ slots' = IF at = "done" THEN slots ELSE [slots EXCEPT ![agent] = @ + 1]
    BY Zenon, <1>4 DEF Admit
  <2> DEFINE r == [at |-> at, agent |-> agent]
  <2>3. Keeps(x, r) \/ Takes(x, r)
    BY <2>1, <2>2 DEF Keeps, Takes, Holds
  <2> QED BY Zenon, <2>2, <2>3 DEF SlotMove
<1>5. ASSUME NEW agent, NEW kind, NEW asynchronous, NEW epoch,
             Dismiss(x, agent, kind, asynchronous, epoch)
      PROVE  SlotMove(x)
  BY <1>3, <1>5 DEF Dismiss, Holds
<1>6. ASSUME NEW delivered \in BOOLEAN, RefusalSent(x, delivered)
      PROVE  SlotMove(x)
  BY <1>2, <1>3, <1>6 DEF RefusalSent, Holds
<1>7. ASSUME NEW how, HandlerEnds(x, how)
      PROVE  SlotMove(x)
  BY <1>2, <1>3, <1>7 DEF HandlerEnds, Holds
<1>8. CASE Answered(x) \/ BackgroundEnds(x)
  BY <1>2, <1>3, <1>8 DEF Answered, BackgroundEnds, Holds
<1> QED BY Zenon, <1>4, <1>5, <1>6, <1>7, <1>8 DEF Invoke

\* Other steps leave requests and grants alone.
LEMMA OthersIdle ==
  ASSUME [Next]_vars
  PROVE  UNCHANGED <<req, slots>> \/ \E x \in Requests : Invoke(x)
<1>1. ASSUME NEW s \in Streams, Stream(s) PROVE UNCHANGED <<req, slots>>
  BY <1>1 DEF Stream, Subscribe, WriteEvent, ReadLine, Exhausted, CutOff, EndStream
<1> QED BY <1>1 DEF Next, vars, Query, TakeOwnership, Quorum, Event

\* Nothing is granted at the start, and every step keeps the account.
LEMMA SlotStarts == Init => SlotInv
<1> SUFFICES ASSUME Init PROVE SlotInv
  OBVIOUS
<1>1. \A x \in Requests : req[x] = [at |-> "idle", agent |-> None]
  BY DEF Init, Idle
<1>2. \A a \in Agents : Holders(a) = {}
  BY <1>1 DEF Holders, Holds
<1>3. \A x \in Requests : req[x].at = "idle" /\ req[x].agent = None
  BY <1>1
<1>4. \A x \in Requests : ~Holds(req[x]) /\ req[x] = [at |-> req[x].at, agent |-> req[x].agent]
  BY <1>1, <1>3 DEF Holds
<1>5. \A a \in Agents : slots[a] = Cardinality(Holders(a))
  BY Zenon, <1>2, FS_EmptySet DEF Init
<1> QED BY <1>4, <1>5 DEF Init, SlotInv

\* As InvokeMoves and MoveKeeps say.
LEMMA SlotStep == SlotInv /\ [Next]_vars => SlotInv'
<1> SUFFICES ASSUME SlotInv, [Next]_vars PROVE SlotInv'
  OBVIOUS
<1>1. CASE UNCHANGED <<req, slots>>
  BY Zenon, <1>1 DEF SlotInv, Holders
<1> QED BY <1>1, OthersIdle, InvokeMoves, MoveKeeps

\* Every grant of the limiter is given back once, by the request that took it, on each of the ways
\* through _handle_invoke but the refusal that could not be sent, for any number of requests.
THEOREM SlotsSafe == Spec => []SlotsReturned
<1>1. SlotInv => SlotsReturned
  BY DEF SlotInv, SlotsReturned, Holders, Holds
<1> QED
  BY <1>1, SlotStarts, SlotStep, PTL DEF Spec
-----------------------------------------------------------------------------
(* The reputation gate. *)

Reported == [incident: Incidents \union {"*"}, severity: Nat, at: Nat]

\* What is cached is what the log said at t, or what stands for a log that could not be asked; all
\* that was reported since is as young as the cached answer.
AnswerOf(nid, t) ==
  /\ fetched[nid].until = t + policy.cache_ttl
  /\ IF outage[nid] # None
       THEN outage[nid] = t /\ fetched[nid].entries = Unavailable(t)
       ELSE \E n \in 0..Len(log[nid]) :
              /\ fetched[nid].entries = SubSeq(log[nid], 1, n)
              /\ \A i \in 1..Len(log[nid]) : log[nid][i].at < t => i <= n

GateInv ==
  /\ now \in Nat /\ policy \in Policies
  /\ log \in [Agents -> Seq(Reported)]
  /\ fetched = [a \in Agents |-> fetched[a]] /\ outage = [a \in Agents |-> outage[a]]
  /\ bans = [a \in Agents |-> bans[a]]
  /\ policy.cache_ttl = 0 => \A a \in Agents : fetched[a] = None
  /\ \A a \in Agents : fetched[a] # None => \E t \in 0..now : AnswerOf(a, t)

\* The cache starts empty.
LEMMA GateInit == Init => GateInv
<1> SUFFICES ASSUME Init PROVE GateInv
  OBVIOUS
<1>1. <<>> \in Seq(Reported)
  OBVIOUS
<1> QED BY <1>1 DEF Init, ReputationInit, GateInv

\* An evaluation keeps the cache truthful, and lets an agent pass only if its reputation allows.
LEMMA GateEvaluates ==
  ASSUME GateInv, NEW nid \in Agents, NEW assurance, NEW up \in BOOLEAN, NEW outcome,
         Evaluate(nid, assurance, up, outcome)
  PROVE  GateInv' /\ (outcome = "accept" => MayPass(nid)')
<1>0. /\ now \in Nat /\ policy \in Policies /\ policy.cache_ttl \in Nat /\ None \notin Nat
      /\ log \in [Agents -> Seq(Reported)]
      /\ fetched = [a \in Agents |-> fetched[a]] /\ outage = [a \in Agents |-> outage[a]]
      /\ bans = [a \in Agents |-> bans[a]]
  BY PolicyAssumption DEF GateInv
<1>1. CASE UNCHANGED reputation /\ (outcome = "accept" => ~policy.enabled)
  <2>1. UNCHANGED <<now, policy, log, bans, fetched, outage>>
    BY <1>1 DEF reputation
  <2>2. GateInv'
    BY Zenon, <2>1 DEF GateInv, AnswerOf, Unavailable
  <2>3. outcome = "accept" => ~(policy.enabled)'
    BY <1>1, <2>1
  <2>4. ~(policy.enabled)' => MayPass(nid)'
    BY DEF MayPass
  <2> QED BY <2>2, <2>3, <2>4
<1>2. CASE /\ policy.enabled /\ ~Banned(nid) /\ UNCHANGED <<now, policy, log>>
           /\ outcome = Outcome(FetchEntries(nid, up))
           /\ bans' = IF outcome = "ban" THEN [bans EXCEPT ![nid] = now + policy.ban_ttl] ELSE bans
           /\ fetched' = IF policy.cache_ttl = 0 \/ Cached(nid) THEN fetched
                         ELSE [fetched EXCEPT ![nid] = [until |-> now + policy.cache_ttl,
                                                        entries |-> FetchEntries(nid, up)]]
           /\ outage' = IF Cached(nid) THEN outage ELSE [outage EXCEPT ![nid] = IF up THEN None ELSE now]
  <2> DEFINE E == FetchEntries(nid, up)
             L == log[nid]
             ttl == policy.cache_ttl
  <2>0. L \in Seq(Reported) /\ Len(L) \in Nat /\ \A i \in 1..Len(L) : L[i].at \in Nat
    <3>1. L \in Seq(Reported)
      BY <1>0
    <3>2. Len(L) \in Nat /\ \A i \in 1..Len(L) : L[i] \in Reported
      BY <3>1
    <3> QED BY <3>1, <3>2 DEF Reported
  <2>1. \A es : Outcome(es)' = Outcome(es)
    BY <1>2 DEF Outcome, AnyMatches, RuleMatches, Recent, IncidentMatch, SevMatch
  <2>2. \A t : Unavailable(t)' = Unavailable(t)
    BY <1>2 DEF Unavailable
  <2>3. outcome = "accept" => Banned(nid)' = Banned(nid)
    BY <1>2 DEF Banned
  <2>4. fetched' = [a \in Agents |-> fetched'[a]] /\ outage' = [a \in Agents |-> outage'[a]] /\ bans' = [a \in Agents |-> bans'[a]]
    BY Zenon, <1>0, <1>2
  <2>5. ASSUME NEW a \in Agents, NEW t, fetched'[a] = fetched[a], outage'[a] = outage[a]
        PROVE  AnswerOf(a, t)' <=> AnswerOf(a, t)
    <3>1. Unavailable(t)' = Unavailable(t) /\ log' = log /\ policy' = policy
      BY <1>2, <2>2
    <3> QED BY <2>5, <3>1 DEF AnswerOf
  <2>6. CASE Cached(nid)
    <3>1. fetched' = fetched /\ outage' = outage /\ E = fetched[nid].entries
      BY <1>2, <2>6 DEF FetchEntries
    <3>2. PICK t \in 0..now : AnswerOf(nid, t)
      BY <2>6 DEF GateInv, Cached
    <3>3. t + ttl > now /\ t \in Nat /\ t <= now
      BY <1>0, <2>6, <3>2 DEF Cached, AnswerOf
    <3>4. GateInv'
      <4>1. \A a \in Agents, u \in 0..now : AnswerOf(a, u)' <=> AnswerOf(a, u)
        BY <2>5, <3>1
      <4>2. \A a \in Agents : fetched'[a] # None => \E u \in 0..now : AnswerOf(a, u)'
        BY <3>1, <4>1 DEF GateInv
      <4>3. ttl = 0 => \A a \in Agents : fetched'[a] = None
        BY <3>1 DEF GateInv
      <4> QED BY Zenon, <1>0, <1>2, <2>4, <4>2, <4>3 DEF GateInv
    <3>5. ASSUME outcome = "accept" PROVE MayPass(nid)'
      <4>1. CASE outage[nid] # None
        BY <1>2, <2>1, <2>2, <2>3, <3>1, <3>2, <3>3, <3>5, <4>1 DEF AnswerOf, MayPass
      <4>2. CASE outage[nid] = None
        <5>1. PICK n \in 0..Len(L) : /\ E = SubSeq(L, 1, n)
                                     /\ \A i \in 1..Len(L) : L[i].at < t => i <= n
          BY <3>1, <3>2, <4>2 DEF AnswerOf
        <5>2. \A i \in 1..Len(L) : L[i].at + ttl <= now => i <= n
          BY <1>0, <2>0, <3>3, <5>1
        <5>3. Outcome(SubSeq(L, 1, n)) = "accept"
          BY Zenon, <1>2, <3>5, <5>1
        <5> QED BY <1>2, <2>1, <2>3, <3>1, <3>5, <4>2, <5>2, <5>3 DEF MayPass
      <4> QED BY <4>1, <4>2
    <3> QED BY <3>4, <3>5
  <2>7. CASE ~Cached(nid)
    <3>1. /\ E = IF up THEN L ELSE Unavailable(now)
          /\ outage'[nid] = IF up THEN None ELSE now
          /\ \A a \in Agents \ {nid} : outage'[a] = outage[a] /\ fetched'[a] = fetched[a]
          /\ \/ ttl = 0 /\ fetched' = fetched
             \/ fetched'[nid] = [until |-> now + ttl, entries |-> E]
      BY <1>0, <1>2, <2>7 DEF FetchEntries
    <3>2. L = SubSeq(L, 1, Len(L))
      BY <2>0
    <3>3. ASSUME NEW t, t = now, fetched'[nid] # None PROVE AnswerOf(nid, t)'
      <4>1. fetched'[nid] = [until |-> now + ttl, entries |-> E]
        BY <3>1, <3>3 DEF GateInv
      <4>2. CASE up
        <5>1. \A i \in 1..Len(L) : L[i].at < now => i <= Len(L)
          OBVIOUS
        <5>2. fetched'[nid].entries = SubSeq(L, 1, Len(L)) /\ fetched'[nid].until = now + ttl
          BY <3>1, <3>2, <4>1, <4>2
        <5>3. outage'[nid] = None /\ Len(L) \in 0..Len(L)
          BY <2>0, <3>1, <4>2
        <5> QED BY Zenon, <1>2, <3>3, <5>1, <5>2, <5>3 DEF AnswerOf
      <4>3. CASE ~up
        BY <1>0, <1>2, <2>2, <3>1, <3>3, <4>1, <4>3 DEF AnswerOf
      <4> QED BY <4>2, <4>3
    <3>4. ASSUME NEW a \in Agents \ {nid}, fetched'[a] # None PROVE \E t \in 0..now : AnswerOf(a, t)'
      <4>1. PICK t \in 0..now : AnswerOf(a, t)
        BY <3>1, <3>4 DEF GateInv
      <4> QED BY Zenon, <2>5, <3>1, <4>1
    <3>5. GateInv'
      <4>1. \A a \in Agents : fetched'[a] # None => \E t \in 0..now : AnswerOf(a, t)'
        <5>1. now \in 0..now
          BY <1>0
        <5> QED BY <3>3, <3>4, <5>1
      <4>2. ttl = 0 => \A a \in Agents : fetched'[a] = None
        BY <1>2 DEF GateInv
      <4> QED BY Zenon, <1>0, <1>2, <2>4, <4>1, <4>2 DEF GateInv
    <3>6. ASSUME outcome = "accept" PROVE MayPass(nid)'
      <4>1. CASE up
        <5>1. \A i \in 1..Len(L) : L[i].at + ttl <= now => i <= Len(L)
          OBVIOUS
        <5>2. Outcome(SubSeq(L, 1, Len(L))) = "accept" /\ Len(L) \in 0..Len(L) /\ outage'[nid] = None
          <6>1. E = L /\ Outcome(E) = "accept" /\ outage'[nid] = None
            BY <1>2, <3>1, <3>6, <4>1
          <6>2. Len(L) \in 0..Len(L)
            BY <2>0
          <6> QED BY Zenon, <3>2, <6>1, <6>2
        <5> QED BY Zenon, <1>2, <2>1, <2>3, <3>6, <5>1, <5>2 DEF MayPass
      <4>2. CASE ~up
        BY Zenon, <1>0, <1>2, <2>1, <2>2, <2>3, <3>1, <3>6, <4>2 DEF MayPass
      <4> QED BY <4>1, <4>2
    <3> QED BY <3>5, <3>6
  <2> QED BY <2>6, <2>7
<1> QED BY <1>1, <1>2 DEF Evaluate
\* Only an admission asks the evaluator or starts a handler.
LEMMA AdmitsOrNot ==
  ASSUME NEW x \in Requests, Invoke(x)
  PROVE  \/ \E agent \in Agents \union {None}, kind \in DOMAIN Actions \union {"unknown"},
               asynchronous \in BOOLEAN, epoch \in 1..MaxEpoch, budget \in Budgets,
               assurance \in 0..policy.min_assurance, up \in {TRUE, ~policy.enabled} :
                 Admit(x, agent, kind, asynchronous, epoch, budget, assurance, up)
         \/ /\ UNCHANGED reputation
            /\ \E at : Moves(x, at) /\ (req[x].at = "idle" => at = "done")
<1> DEFINE Rest == /\ UNCHANGED reputation
                   /\ \E at : Moves(x, at) /\ (req[x].at = "idle" => at = "done")
<1>1. ASSUME NEW agent, NEW kind, NEW asynchronous, NEW epoch,
             Dismiss(x, agent, kind, asynchronous, epoch)
      PROVE  Rest
  BY Zenon, <1>1 DEF Dismiss
<1>2. ASSUME NEW delivered \in BOOLEAN, RefusalSent(x, delivered)
      PROVE  Rest
  BY <1>2 DEF RefusalSent
<1>3. ASSUME NEW how, HandlerEnds(x, how)
      PROVE  Rest
  BY <1>3 DEF HandlerEnds
<1>4. CASE Answered(x) \/ BackgroundEnds(x)
  <2>1. Rest
    BY <1>4 DEF Answered, BackgroundEnds
  <2> QED BY Zenon, <2>1
<1> HIDE DEF Rest
<1>5. Rest \/ \E agent \in Agents \union {None}, kind \in DOMAIN Actions \union {"unknown"},
               asynchronous \in BOOLEAN, epoch \in 1..MaxEpoch, budget \in Budgets,
               assurance \in 0..policy.min_assurance, up \in {TRUE, ~policy.enabled} :
                 Admit(x, agent, kind, asynchronous, epoch, budget, assurance, up)
  BY Zenon, <1>1, <1>2, <1>3, <1>4 DEF Invoke, Rest
<1> QED BY Zenon, <1>5 DEF Rest

\* Between evaluations the log grows at its end, and time passes.
LEMMA GateStep == GateInv /\ [Next]_vars => GateInv'
<1> SUFFICES ASSUME GateInv, [Next]_vars PROVE GateInv'
  OBVIOUS
<1>0. /\ now \in Nat /\ policy \in Policies /\ policy.cache_ttl \in Nat /\ None \notin Nat
      /\ log \in [Agents -> Seq(Reported)]
      /\ fetched = [a \in Agents |-> fetched[a]] /\ outage = [a \in Agents |-> outage[a]]
      /\ bans = [a \in Agents |-> bans[a]]
  BY PolicyAssumption DEF GateInv
<1>1. ASSUME NEW x \in Requests, NEW agent \in Agents \union {None}, NEW kind, NEW asynchronous, NEW epoch,
             NEW budget, NEW assurance, NEW up \in {TRUE, ~policy.enabled},
             Admit(x, agent, kind, asynchronous, epoch, budget, assurance, up)
      PROVE  GateInv'
  <2>1. agent \in Agents
    BY <1>1 DEF Admit, Granted
  <2>2. PICK outcome \in {"accept", "throttle", "reject", "ban"} : Evaluate(agent, assurance, up, outcome)
    BY <1>1 DEF Admit
  <2>3. up \in BOOLEAN
    BY Zenon, <1>1
  <2> QED BY <2>1, <2>2, <2>3, GateEvaluates
<1>2. ASSUME UNCHANGED reputation
      PROVE  GateInv'
  <2>1. UNCHANGED <<now, policy, log, bans, fetched, outage>>
    BY <1>2 DEF reputation
  <2> QED BY Zenon, <2>1 DEF GateInv, AnswerOf, Unavailable
<1>3. CASE Tick
  <2>1. now' = now + 1 /\ UNCHANGED <<policy, log, bans, fetched, outage>>
    BY <1>3 DEF Tick
  <2>2. \A a \in Agents, t \in 0..now : AnswerOf(a, t)' <=> AnswerOf(a, t)
    BY <2>1 DEF AnswerOf, Unavailable
  <2>3. \A t \in 0..now : t \in 0..(now + 1)
    BY <1>0
  <2>4. \A a \in Agents : fetched'[a] # None => \E t \in 0..now' : AnswerOf(a, t)'
    BY <2>1, <2>2, <2>3 DEF GateInv
  <2> QED BY <1>0, <2>1, <2>4 DEF GateInv
<1>4. ASSUME NEW nid \in Agents, ClearBan(nid)
      PROVE  GateInv'
  <2>1. UNCHANGED <<now, policy, log, fetched, outage>> /\ bans' = [bans EXCEPT ![nid] = None]
    BY <1>4 DEF ClearBan
  <2>2. \A a \in Agents, t \in 0..now : AnswerOf(a, t)' <=> AnswerOf(a, t)
    BY <2>1 DEF AnswerOf, Unavailable
  <2>3. bans' = [a \in Agents |-> bans'[a]]
    BY Zenon, <1>0, <2>1
  <2> QED BY <1>0, <2>1, <2>2, <2>3 DEF GateInv
<1>5. ASSUME NEW nid \in Agents, NEW i \in Incidents, NEW v \in {2, Critical}, Report(nid, i, v)
      PROVE  GateInv'
  <2> DEFINE e == [incident |-> i, severity |-> v, at |-> now]
             L == log[nid]
  <2>1. /\ UNCHANGED <<now, policy, bans, fetched, outage>>
        /\ log' = [log EXCEPT ![nid] = Append(L, e)]
    BY <1>0, <1>5 DEF Report
  <2>2. e \in Reported /\ L \in Seq(Reported)
    <3>1. v \in Nat
      BY DEF Critical
    <3> QED BY Zenon, <1>0, <3>1 DEF Reported
  <2>3. log' \in [Agents -> Seq(Reported)]
    BY <1>0, <2>1, <2>2
  <2>4. ASSUME NEW a \in Agents, NEW t \in 0..now, AnswerOf(a, t)
        PROVE  AnswerOf(a, t)'
    <3>1. CASE a # nid
      <4>1. log'[a] = log[a]
        BY <1>0, <2>1, <3>1
      <4> QED BY Zenon, <2>1, <2>4, <4>1 DEF AnswerOf, Unavailable
    <3>2. CASE a = nid
      <4>1. log'[a] = Append(L, e)
        BY <1>0, <2>1, <3>2
      <4>2. CASE outage[a] # None
        BY <2>1, <2>4, <4>2 DEF AnswerOf, Unavailable
      <4>3. CASE outage[a] = None
        <5>1. PICK n \in 0..Len(L) : /\ fetched[a].entries = SubSeq(L, 1, n)
                                     /\ \A k \in 1..Len(L) : L[k].at < t => k <= n
          BY Zenon, <2>4, <3>2, <4>3 DEF AnswerOf
        <5>2. /\ Len(L) \in Nat /\ Len(Append(L, e)) = Len(L) + 1 /\ Append(L, e)[Len(L) + 1] = e
              /\ \A k \in 1..Len(L) : Append(L, e)[k] = L[k]
          BY <2>2
        <5>3. SubSeq(Append(L, e), 1, n) = SubSeq(L, 1, n)
          BY <2>2, <5>1, <5>2
        <5>4. \A k \in 1..(Len(L) + 1) : Append(L, e)[k].at < t => k <= n
          <6>1. e.at = now /\ ~(now < t)
            BY <1>0
          <6> HIDE DEF e
          <6>2. ASSUME NEW k \in 1..(Len(L) + 1), Append(L, e)[k].at < t PROVE k <= n
            <7>1. k # Len(L) + 1
              BY <5>2, <6>1, <6>2
            <7>2. k \in 1..Len(L) /\ Append(L, e)[k] = L[k]
              BY <5>2, <7>1
            <7> QED BY <5>1, <6>2, <7>2
          <6> QED BY <6>2
        <5>5. n \in 0..(Len(L) + 1)
          BY <5>1, <5>2
        <5> HIDE DEF e
        <5> QED BY Zenon, <2>1, <2>4, <4>1, <4>3, <5>1, <5>2, <5>3, <5>4, <5>5 DEF AnswerOf
      <4> QED BY <4>2, <4>3
    <3> QED BY <3>1, <3>2
  <2> QED BY Zenon, <1>0, <2>1, <2>3, <2>4 DEF GateInv
<1>6. ASSUME NEW x \in Requests, Invoke(x)
      PROVE  GateInv'
  <2>1. \/ \E agent \in Agents \union {None}, kind \in DOMAIN Actions \union {"unknown"},
             asynchronous \in BOOLEAN, epoch \in 1..MaxEpoch, budget \in Budgets,
             assurance \in 0..policy.min_assurance, up \in {TRUE, ~policy.enabled} :
               Admit(x, agent, kind, asynchronous, epoch, budget, assurance, up)
        \/ UNCHANGED reputation
    BY Zenon, <1>6, AdmitsOrNot
  <2> QED BY Zenon, <1>1, <1>2, <2>1
<1>7. CASE Evaluator
  BY <1>3, <1>4, <1>5, <1>7 DEF Evaluator
<1>8. CASE \/ \E s \in Streams : Stream(s)
           \/ \E epoch \in 1..MaxEpoch : Query(epoch) \/ TakeOwnership(epoch)
           \/ \E lost \in BOOLEAN : Quorum(lost)
           \/ \E kind \in {"member", "resync", "odd"} : Event(kind)
  BY Zenon, <1>2, <1>8 DEF Stream, Subscribe, WriteEvent, ReadLine, Exhausted, CutOff, EndStream, Query,
     TakeOwnership, Quorum, Event
<1>9. CASE UNCHANGED vars
  BY <1>2, <1>9 DEF vars
<1> QED BY <1>6, <1>7, <1>8, <1>9 DEF Next

\* A request passes the gate only if its agent is not banned and the policy accepts what the log said
\* of it, but for what cache_ttl_seconds may hide, for every policy and however the log grows,
\* fails and bans run out meanwhile.
THEOREM GateSafe == Spec => PassesOnReputation
<1>1. ASSUME SlotInv, GateInv, [Next]_vars, NEW x \in Requests,
             req[x].at = "idle", req'[x].at \in {"handling", "spawned"}
      PROVE  MayPass(req[x].agent)'
  <2>1. PICK y \in Requests : Invoke(y)
    BY <1>1, OthersIdle
  <2>2. y = x
    BY <1>1, <2>1, InvokeMoves DEF SlotMove, SlotInv
  <2>3. ASSUME NEW agent \in Agents \union {None}, NEW kind, NEW asynchronous, NEW epoch,
             NEW budget, NEW assurance, NEW up \in {TRUE, ~policy.enabled},
             Admit(x, agent, kind, asynchronous, epoch, budget, assurance, up)
        PROVE  MayPass(req[x].agent)'
    <3>1. agent \in Agents /\ up \in BOOLEAN
      BY Zenon, <2>3 DEF Admit, Granted
    <3>2. PICK outcome : /\ Evaluate(agent, assurance, up, outcome)
                         /\ outcome # "accept" => req'[x].at = "refusing"
                         /\ req'[x].agent = agent
      BY <1>1, <2>3 DEF Admit, SlotInv
    <3>3. MayPass(agent)'
      BY Zenon, <1>1, <3>1, <3>2, GateEvaluates
    <3> QED BY <3>2, <3>3
  <2>4. ASSUME NEW at, Moves(x, at), req[x].at = "idle" => at = "done"
        PROVE  FALSE
    <3>1. req' = [req EXCEPT ![x] = [req[x] EXCEPT !.at = "done"]]
      BY <1>1, <2>4 DEF Moves, SlotInv
    <3>2. [req[x] EXCEPT !.at = "done"].at = "done"
      BY <1>1 DEF SlotInv
    <3> QED BY <1>1, <3>1, <3>2 DEF SlotInv
  <2>5. PICK agent \in Agents \union {None}, kind \in DOMAIN Actions \union {"unknown"},
             asynchronous \in BOOLEAN, epoch \in 1..MaxEpoch, budget \in Budgets,
             assurance \in 0..policy.min_assurance, up \in {TRUE, ~policy.enabled} :
               Admit(x, agent, kind, asynchronous, epoch, budget, assurance, up)
    <3>1. Invoke(x)
      BY <2>1, <2>2
    <3>2. ~\E at : Moves(x, at) /\ (req[x].at = "idle" => at = "done")
      BY <2>4
    <3> QED BY Zenon, <3>1, <3>2, AdmitsOrNot
  <2> QED BY Zenon, <2>3, <2>5
<1>2. SlotInv /\ GateInv /\ [Next]_vars =>
        [\A x \in Requests : req[x].at = "idle" /\ req'[x].at \in {"handling", "spawned"}
           => MayPass(req[x].agent)']_vars
  BY <1>1
<1> QED
  BY <1>2, SlotStarts, SlotStep, GateInit, GateStep, PTL DEF Spec, PassesOnReputation
-----------------------------------------------------------------------------
(* Topology streams. *)

Events == [kind: {"member", "resync", "odd", "anchor_state"}, version: Nat]
Written == {e \in Events : e.kind # "odd"}
Lines == {Ack, ErrorLine, Cut} \union {Envelope(e) : e \in Written}

StreamRec ==
  [server: {"idle", "open", "ended"}, from: Nat, pos: Nat, lines: Seq(Lines),
   client: {"idle", "acking", "reading", "raised", "over"}, seen: Seq(Events)]

\* What a subscriber reads for an event.
AsRead(e) == IF e.kind = "resync" THEN TopologyEvent("resync", 0) ELSE e

\* Line i of stream r stands for event At(r, i) of the feed, the acknowledgement for none.
Shift(r) == IF r.client = "acking" THEN 1 ELSE 0
At(r, i) == r.from + Len(r.seen) + i - Shift(r)

\* How the lines under way and what was read follow the feed f.
LineOK(r, f, i) ==
  \/ r.lines[i] \in {ErrorLine, Cut} /\ i = Len(r.lines) /\ r.server = "ended"
  \/ /\ At(r, i) <= r.pos /\ f[At(r, i)] \in Written /\ r.lines[i] = Envelope(f[At(r, i)])
     /\ f[At(r, i)].kind = "resync" => i = Len(r.lines) /\ r.server = "ended"
SeenOK(r, f, i) ==
  /\ r.from + i <= r.pos /\ f[r.from + i] \in Written /\ r.seen[i] = AsRead(f[r.from + i])
  /\ f[r.from + i].kind = "resync" => i = Len(r.seen) /\ r.client = "over"
StreamOK(r, f) ==
  /\ r.from <= r.pos /\ r.pos <= Len(f)
  /\ r.server = "idle" => r.lines = <<>> /\ r.seen = <<>>
  /\ r.client = "acking" =>
       /\ r.seen = <<>>
       /\ r.lines # <<>> => r.lines[1] = Ack \/ (r.lines[1] = Cut /\ r.server = "ended")
  /\ r.server = "open" => /\ r.client \in {"acking", "reading"}
                          /\ Len(r.seen) + Len(r.lines) - Shift(r) = r.pos - r.from
  /\ \A i \in 1..Len(r.lines) : Shift(r) < i => LineOK(r, f, i)
  /\ \A i \in 1..Len(r.seen) : SeenOK(r, f, i)

StreamInv ==
  /\ feed \in Seq(Events) /\ stream \in [Streams -> StreamRec]
  /\ \A s \in Streams : StreamOK(stream[s], feed)

\* The client reads from the envelope of an event what was written, but for a resync's version.
LEMMA Parses ==
  ASSUME NEW e \in Written
  PROVE  ParseEvent(Envelope(e)) = AsRead(e) /\ Envelope(e) \notin {Ack, ErrorLine, Cut} /\ AsRead(e) \in Events
<1>1. /\ DOMAIN WireName = {"member", "anchor_state", "resync"}
      /\ WireName["member"] = "member_joined" /\ WireName["anchor_state"] = "anchor_state"
      /\ WireName["resync"] = "resync_required"
  BY DEF WireName
<1>2. /\ e.kind \in {"member", "anchor_state", "resync"} /\ e.version \in Nat /\ e.version # None
      /\ e = [kind |-> e.kind, version |-> e.version]
  BY PolicyAssumption DEF Written, Events
<1>3. /\ Envelope(e).event_type = WireName[e.kind]
      /\ Envelope(e).seq = IF e.kind = "resync" THEN None ELSE e.version
      /\ DOMAIN Envelope(e) = {"event_type", "seq"}
  BY DEF Envelope
<1>4. (CHOOSE k \in DOMAIN WireName : WireName[k] = Envelope(e).event_type) = e.kind
  BY <1>1, <1>2, <1>3
<1>5. ParseEvent(Envelope(e)) = TopologyEvent(e.kind, IF Envelope(e).seq = None THEN 0 ELSE Envelope(e).seq)
  BY Zenon, <1>4 DEF ParseEvent
<1>6. DOMAIN Ack = {"status"} /\ DOMAIN ErrorLine = {"error"} /\ DOMAIN Cut = {"error"}
  BY DEF Ack, ErrorLine, Cut
<1>7. AsRead(e) \in Events /\ ParseEvent(Envelope(e)) = AsRead(e)
  BY <1>2, <1>3, <1>5 DEF AsRead, TopologyEvent, Events
<1>8. {"event_type", "seq"} # {"status"} /\ {"event_type", "seq"} # {"error"}
  <2>1. "event_type" \notin {"status"} /\ "event_type" \notin {"error"}
    OBVIOUS
  <2> QED BY <2>1
<1> QED BY <1>3, <1>6, <1>7, <1>8

\* Later events do not disturb a stream.
LEMMA FeedGrows ==
  ASSUME NEW r \in StreamRec, NEW f \in Seq(Events), NEW e \in Events, StreamOK(r, f)
  PROVE  StreamOK(r, Append(f, e)) /\ Append(f, e) \in Seq(Events)
<1> DEFINE g == Append(f, e)
<1>1. /\ g \in Seq(Events) /\ Len(f) \in Nat /\ Len(g) = Len(f) + 1
      /\ \A n \in 1..Len(f) : g[n] = f[n]
  OBVIOUS
<1>2. /\ r.from \in Nat /\ r.pos \in Nat /\ r.lines \in Seq(Lines) /\ r.seen \in Seq(Events)
      /\ r.from <= r.pos /\ r.pos <= Len(f)
  BY DEF StreamRec, StreamOK
<1> HIDE DEF g
<1>3. ASSUME NEW i \in 1..Len(r.lines), Shift(r) < i, LineOK(r, f, i) PROVE LineOK(r, g, i)
  <2>1. At(r, i) \in Int /\ At(r, i) >= 1
    BY <1>2, <1>3 DEF At, Shift
  <2>2. At(r, i) <= r.pos => At(r, i) \in 1..Len(f)
    BY <1>1, <1>2, <2>1
  <2> QED BY Zenon, <1>1, <1>3, <2>2 DEF LineOK
<1>4. ASSUME NEW i \in 1..Len(r.seen), SeenOK(r, f, i) PROVE SeenOK(r, g, i)
  <2>1. r.from + i \in 1..Len(f)
    BY <1>1, <1>2, <1>4 DEF SeenOK
  <2> QED BY <1>1, <1>4, <2>1 DEF SeenOK
<1>5. r.pos <= Len(g)
  BY <1>1, <1>2
<1>6. StreamOK(r, g)
  BY Zenon, <1>3, <1>4, <1>5 DEF StreamOK
<1> QED BY <1>1, <1>6 DEF g

\* The lines of an open stream: how many there are, after one more too, and the first of them.
LEMMA OpenLines ==
  ASSUME NEW r \in StreamRec, NEW f \in Seq(Events), StreamOK(r, f), r.server = "open"
  PROVE  /\ r.from + Len(r.seen) + (Len(r.lines) + 1) - Shift(r) = r.pos + 1
         /\ Len(r.seen) + (Len(r.lines) + 1) - Shift(r) = (r.pos + 1) - r.from
         /\ r.client = "acking" => Len(r.lines) >= 1 /\ r.lines[1] = Ack /\ r.seen = <<>>
<1>1. /\ r.from \in Int /\ r.pos \in Int /\ r.seen \in Seq(Events) /\ r.lines \in Seq(Lines)
      /\ Len(r.seen) \in Int /\ Len(r.lines) \in Int
  BY DEF StreamRec
<1>2. Shift(r) \in Int /\ (r.client = "acking" => Shift(r) = 1)
  BY DEF Shift
<1>3. Len(r.seen) + Len(r.lines) - Shift(r) = r.pos - r.from /\ r.from <= r.pos
  BY DEF StreamOK
<1>4. \E a, b, c, d, h \in Int : a = r.from /\ b = r.pos /\ c = Len(r.seen) /\ d = Len(r.lines) /\ h = Shift(r)
  BY ONLY <1>1, <1>2, Zenon
<1>5. PICK a, b, c, d, h \in Int :
        a = r.from /\ b = r.pos /\ c = Len(r.seen) /\ d = Len(r.lines) /\ h = Shift(r)
  BY ONLY Zenon, <1>4
<1>6. c + d - h = b - a /\ a <= b
  BY ONLY <1>3, <1>5
<1>7. a + c + (d + 1) - h = b + 1 /\ c + (d + 1) - h = (b + 1) - a
  BY ONLY <1>6, a \in Int, b \in Int, c \in Int, d \in Int, h \in Int
<1>8. ASSUME r.client = "acking"
      PROVE  Len(r.lines) >= 1 /\ r.lines[1] = Ack /\ r.seen = <<>>
  <2>1. r.seen = <<>> /\ (r.lines # <<>> => r.lines[1] = Ack)
    BY <1>8 DEF StreamOK
  <2>2. c = 0 /\ h = 1
    BY <1>2, <1>5, <1>8, <2>1
  <2>3. d >= 1
    BY ONLY <1>6, <2>2, a \in Int, b \in Int, d \in Int
  <2>4. Len(r.lines) >= 1
    BY ONLY <1>5, <2>3
  <2>5. r.lines # <<>>
    BY <1>1, <2>4
  <2> QED BY ONLY <2>1, <2>4, <2>5
<1> QED BY ONLY <1>5, <1>7, <1>8

\* A line written behind others leaves the first.
LEMMA FirstStays ==
  ASSUME NEW S, NEW l \in Seq(S), Len(l) >= 1, NEW x
  PROVE  Append(l, x)[1] = l[1]
OBVIOUS

\* One more element behind the others.
LEMMA OneMore ==
  ASSUME NEW S, NEW l \in Seq(S), NEW x
  PROVE  /\ Len(Append(l, x)) = Len(l) + 1 /\ Append(l, x)[Len(l) + 1] = x
         /\ \A i \in 1..Len(l) : Append(l, x)[i] = l[i]
OBVIOUS

\* What follows the first elements of a sequence.
LEMMA RestOf ==
  ASSUME NEW S, NEW l \in Seq(S), NEW a \in Nat, a <= Len(l)
  PROVE  /\ Len(SubSeq(l, a + 1, Len(l))) = Len(l) - a
         /\ \A i \in 1..(Len(l) - a) : SubSeq(l, a + 1, Len(l))[i] = l[a + i]
OBVIOUS

\* The server writes the next event of the feed, or ends at one it cannot write.
LEMMA WriteFollows ==
  ASSUME NEW r \in StreamRec, NEW f \in Seq(Events), StreamOK(r, f), r.server = "open", r.pos < Len(f),
         NEW q \in StreamRec, q.from = r.from, q.pos = r.pos + 1, q.client = r.client, q.seen = r.seen,
         NEW e, e = f[r.pos + 1],
         q.lines = IF e.kind = "odd" THEN r.lines ELSE Append(r.lines, Envelope(e)),
         q.server = IF e.kind \in {"resync", "odd"} THEN "ended" ELSE "open"
  PROVE  StreamOK(q, f)
<1>1. /\ r.from \in Nat /\ r.pos \in Nat /\ r.lines \in Seq(Lines) /\ r.seen \in Seq(Events)
      /\ Len(r.lines) \in Nat /\ Len(r.seen) \in Nat /\ Len(f) \in Nat
      /\ r.from <= r.pos /\ r.pos <= Len(f)
      /\ Shift(r) \in Int /\ r.client \in {"acking", "reading"}
  BY DEF StreamRec, StreamOK, Shift
<1>2. Shift(q) = Shift(r) /\ \A i : At(q, i) = At(r, i)
  BY Zenon DEF Shift, At
<1>3. e \in Events
  BY <1>1
<1>4. ASSUME NEW i \in 1..Len(r.lines), Shift(r) < i
      PROVE  /\ r.lines[i] \notin {ErrorLine, Cut} /\ At(r, i) <= r.pos /\ f[At(r, i)] \in Written
             /\ r.lines[i] = Envelope(f[At(r, i)]) /\ f[At(r, i)].kind # "resync"
  <2>1. LineOK(r, f, i)
    BY Zenon, <1>4 DEF StreamOK
  <2>2. /\ At(r, i) <= r.pos /\ f[At(r, i)] \in Written
        /\ r.lines[i] = Envelope(f[At(r, i)]) /\ f[At(r, i)].kind # "resync"
    BY Zenon, <2>1 DEF LineOK
  <2> QED BY Zenon, <2>2, Parses
<1>5. ASSUME NEW i \in 1..Len(q.lines), Shift(q) < i
      PROVE  LineOK(q, f, i)
  <2>1. CASE i \in 1..Len(r.lines)
    <3>1. q.lines[i] = r.lines[i]
      BY <1>1, <2>1
    <3>2. At(r, i) \in Int
      BY <1>1, <2>1 DEF At
    <3>3. /\ At(q, i) <= r.pos /\ f[At(q, i)] \in Written
          /\ q.lines[i] = Envelope(f[At(q, i)]) /\ f[At(q, i)].kind # "resync"
      BY Zenon, <1>2, <1>4, <1>5, <2>1, <3>1
    <3>4. At(q, i) <= r.pos + 1
      BY <1>1, <1>2, <3>2, <3>3
    <3> QED BY Zenon, <3>3, <3>4 DEF LineOK
  <2>2. CASE i \notin 1..Len(r.lines)
    <3>1. /\ e.kind # "odd" /\ q.lines = Append(r.lines, Envelope(e))
          /\ i = Len(r.lines) + 1 /\ Len(q.lines) = i /\ q.lines[i] = Envelope(e)
      <4>1. e.kind # "odd" /\ q.lines = Append(r.lines, Envelope(e))
        BY Zenon, <2>2
      <4>2. Len(q.lines) = Len(r.lines) + 1 /\ q.lines[Len(r.lines) + 1] = Envelope(e)
        BY <1>1, <4>1
      <4> QED BY <1>1, <2>2, <4>1, <4>2
    <3>2. At(q, i) = r.pos + 1
      <4>1. At(q, i) = r.from + Len(r.seen) + (Len(r.lines) + 1) - Shift(r)
        BY Zenon, <1>2, <3>1 DEF At
      <4>2. r.from + Len(r.seen) + (Len(r.lines) + 1) - Shift(r) = r.pos + 1
        BY Zenon, OpenLines
      <4> QED BY ONLY <4>1, <4>2
    <3> QED BY <1>1, <1>3, <3>1, <3>2 DEF LineOK, Written
  <2> QED BY Zenon, <2>1, <2>2
<1>6. ASSUME NEW i \in 1..Len(q.seen)
      PROVE  SeenOK(q, f, i)
  <2>1. SeenOK(r, f, i)
    BY Zenon DEF StreamOK
  <2> QED BY <1>1, <2>1 DEF SeenOK
<1>7. q.client = "acking" =>
        /\ q.seen = <<>>
        /\ q.lines # <<>> => q.lines[1] = Ack \/ (q.lines[1] = Cut /\ q.server = "ended")
  <2> SUFFICES ASSUME r.client = "acking" PROVE q.seen = <<>> /\ q.lines[1] = Ack
    BY Zenon
  <2>1. Len(r.lines) >= 1 /\ r.lines[1] = Ack /\ r.seen = <<>>
    BY Zenon, OpenLines
  <2>2. Append(r.lines, Envelope(e))[1] = r.lines[1]
    BY Zenon, <1>1, <2>1, FirstStays
  <2> QED BY Zenon, <2>1, <2>2
<1>8. q.server = "open" => Len(q.seen) + Len(q.lines) - Shift(q) = q.pos - q.from
  <2> SUFFICES ASSUME q.server = "open" PROVE Len(q.seen) + Len(q.lines) - Shift(q) = q.pos - q.from
    BY Zenon
  <2>1. q.lines = Append(r.lines, Envelope(e))
    BY Zenon
  <2>2. Len(q.lines) = Len(r.lines) + 1
    BY <1>1, <2>1
  <2>3. Len(r.seen) + (Len(r.lines) + 1) - Shift(r) = (r.pos + 1) - r.from
    BY Zenon, OpenLines
  <2> QED BY Zenon, <1>2, <2>2, <2>3
<1> QED BY <1>1, <1>5, <1>6, <1>7, <1>8 DEF StreamOK

\* The stream is ended by the server, or cut off: a prefix of its lines is left, and at most one
\* line that is no event.
LEMMA EndFollows ==
  ASSUME NEW r \in StreamRec, NEW f \in Seq(Events), StreamOK(r, f), r.server = "open",
         NEW q \in StreamRec, q.from = r.from, q.pos = r.pos, q.client = r.client, q.seen = r.seen,
         q.server = "ended",
         NEW n \in 0..Len(r.lines), NEW last \in {ErrorLine, Cut},
         q.lines = Append(SubSeq(r.lines, 1, n), last) \/ q.lines = r.lines,
         n = 0 /\ r.client = "acking" => last = Cut
  PROVE  StreamOK(q, f)
<1>1. /\ r.from \in Nat /\ r.pos \in Nat /\ r.lines \in Seq(Lines) /\ r.seen \in Seq(Events)
      /\ Len(r.lines) \in Nat /\ Len(r.seen) \in Nat /\ Len(f) \in Nat
      /\ r.from <= r.pos /\ r.pos <= Len(f)
      /\ r.client \in {"acking", "reading"} /\ Shift(r) \in {0, 1}
  BY DEF StreamRec, StreamOK, Shift
<1>2. Shift(q) = Shift(r) /\ \A i : At(q, i) = At(r, i)
  BY DEF Shift, At
<1>3. q.lines # r.lines => /\ Len(q.lines) = n + 1 /\ q.lines[n + 1] = last
                           /\ \A i \in 1..n : i \in 1..Len(r.lines) /\ q.lines[i] = r.lines[i]
  <2> SUFFICES ASSUME q.lines = Append(SubSeq(r.lines, 1, n), last)
               PROVE  /\ Len(q.lines) = n + 1 /\ q.lines[n + 1] = last
                      /\ \A i \in 1..n : i \in 1..Len(r.lines) /\ q.lines[i] = r.lines[i]
    BY Zenon
  <2> DEFINE p == SubSeq(r.lines, 1, n)
  <2>1. p \in Seq(Lines) /\ Len(p) = n /\ \A i \in 1..n : i \in 1..Len(r.lines) /\ p[i] = r.lines[i]
    BY <1>1
  <2> HIDE DEF p
  <2>2. q.lines = Append(p, last)
    BY DEF p
  <2>3. Len(q.lines) = n + 1 /\ q.lines[n + 1] = last
    BY <2>1, <2>2
  <2>4. \A i \in 1..n : q.lines[i] = p[i]
    BY <2>1, <2>2
  <2> QED BY Zenon, <2>1, <2>3, <2>4
<1>4. ASSUME NEW i \in 1..Len(r.lines), Shift(r) < i
      PROVE  /\ At(r, i) <= r.pos /\ f[At(r, i)] \in Written
             /\ r.lines[i] = Envelope(f[At(r, i)]) /\ f[At(r, i)].kind # "resync"
  <2>1. LineOK(r, f, i)
    BY Zenon, <1>4 DEF StreamOK
  <2> QED BY Zenon, <2>1 DEF LineOK
<1>5. ASSUME NEW i \in 1..Len(q.lines), Shift(q) < i
      PROVE  LineOK(q, f, i)
  <2>1. CASE i \in 1..Len(r.lines) /\ q.lines[i] = r.lines[i]
    BY Zenon, <1>2, <1>4, <1>5, <2>1 DEF LineOK
  <2>2. CASE ~(i \in 1..Len(r.lines) /\ q.lines[i] = r.lines[i])
    <3>1. q.lines # r.lines /\ i = n + 1
      BY <1>3, <1>5, <2>2
    <3> QED BY Zenon, <1>3, <3>1 DEF LineOK
  <2> QED BY Zenon, <2>1, <2>2
<1>6. ASSUME NEW i \in 1..Len(q.seen)
      PROVE  SeenOK(q, f, i)
  <2>1. SeenOK(r, f, i)
    BY Zenon DEF StreamOK
  <2> QED BY Zenon, <1>1, <2>1 DEF SeenOK
<1>7. q.client = "acking" =>
        /\ q.seen = <<>>
        /\ q.lines # <<>> => q.lines[1] = Ack \/ (q.lines[1] = Cut /\ q.server = "ended")
  <2> SUFFICES ASSUME r.client = "acking" PROVE q.seen = <<>> /\ q.lines[1] \in {Ack, Cut}
    BY Zenon
  <2>1. Len(r.lines) >= 1 /\ r.lines[1] = Ack /\ r.seen = <<>>
    BY Zenon, OpenLines
  <2>2. CASE q.lines = r.lines
    <3> QED BY ONLY <2>1, <2>2, q.seen = r.seen
  <2>3. CASE q.lines # r.lines /\ n = 0
    BY <1>3, <2>1, <2>3
  <2>4. CASE q.lines # r.lines /\ n # 0
    <3>1. 1 \in 1..n
      BY <1>1, <2>4
    <3> QED BY Zenon, <1>3, <2>1, <2>4, <3>1
  <2> QED BY Zenon, <2>2, <2>3, <2>4
<1> QED BY Zenon, <1>1, <1>5, <1>6, <1>7 DEF StreamOK

\* The lines left when the first has been read, each standing for the event it stood for.
LEMMA TailFollows ==
  ASSUME NEW r \in StreamRec, NEW f \in Seq(Events), StreamOK(r, f), r.lines # <<>>,
         NEW q \in StreamRec, q.from = r.from, q.pos = r.pos, q.server = r.server,
         q.lines = Tail(r.lines), q.client # "acking",
         \/ r.client = "acking" /\ q.seen = r.seen
         \/ r.client = "reading" /\ Len(q.seen) = Len(r.seen) + 1
         \/ Len(r.lines) = 1
  PROVE  /\ Len(q.lines) = Len(r.lines) - 1 /\ Shift(q) = 0
         /\ \A i \in 1..Len(q.lines) : LineOK(q, f, i)
<1>1. /\ r.from \in Int /\ Len(r.seen) \in Int /\ r.lines \in Seq(Lines) /\ Len(r.lines) \in Nat
      /\ Len(q.seen) \in Int /\ Len(r.lines) >= 1
  BY DEF StreamRec
<1>2. Len(q.lines) = Len(r.lines) - 1 /\ \A i \in 1..Len(q.lines) : q.lines[i] = r.lines[i + 1]
  BY <1>1
<1>3. Shift(q) = 0 /\ (r.client = "acking" => Shift(r) = 1) /\ (r.client = "reading" => Shift(r) = 0)
  BY DEF Shift
<1>4. ASSUME NEW i \in 1..Len(q.lines)
      PROVE  LineOK(q, f, i)
  <2>1. /\ i + 1 \in 1..Len(r.lines) /\ i \in Int /\ 1 < i + 1 /\ Len(r.lines) # 1
        /\ i + 1 = Len(r.lines) => i = Len(q.lines)
    BY <1>1, <1>2
  <2>2. CASE r.client = "acking" /\ q.seen = r.seen
    <3>1. LineOK(r, f, i + 1)
      BY Zenon, <1>3, <2>1, <2>2 DEF StreamOK
    <3>2. At(q, i) = r.from + Len(r.seen) + i - 0 /\ At(r, i + 1) = r.from + Len(r.seen) + (i + 1) - 1
      BY Zenon, <1>3, <2>2 DEF At
    <3>3. At(q, i) = At(r, i + 1)
      BY ONLY <1>1, <2>1, <3>2
    <3> QED BY Zenon, <1>2, <2>1, <3>1, <3>3 DEF LineOK
  <2>3. CASE r.client = "reading" /\ Len(q.seen) = Len(r.seen) + 1
    <3>1. LineOK(r, f, i + 1)
      BY <1>3, <2>1, <2>3 DEF StreamOK
    <3>2. At(q, i) = r.from + (Len(r.seen) + 1) + i - 0 /\ At(r, i + 1) = r.from + Len(r.seen) + (i + 1) - 0
      BY Zenon, <1>3, <2>3 DEF At
    <3>3. \A a, b, c \in Int : a + (b + 1) + c - 0 = a + b + (c + 1) - 0
      OBVIOUS
    <3>4. At(q, i) = At(r, i + 1)
      BY ONLY Zenon, <1>1, <2>1, <3>2, <3>3, Zenon
    <3> QED BY Zenon, <1>2, <2>1, <3>1, <3>4 DEF LineOK
  <2> QED BY Zenon, <2>1, <2>2, <2>3
<1> QED BY Zenon, <1>2, <1>3, <1>4

\* The client reads a line.
LEMMA ReadFollows ==
  ASSUME NEW r \in StreamRec, NEW f \in Seq(Events), StreamOK(r, f),
         r.client \in {"acking", "reading"}, r.lines # <<>>,
         NEW line, line = r.lines[1], NEW over, over = (line \in {ErrorLine, Cut}),
         NEW q \in StreamRec, q.from = r.from, q.pos = r.pos, q.server = r.server,
         q.lines = Tail(r.lines),
         q.client = IF over THEN "raised"
                    ELSE IF r.client = "reading" /\ ParseEvent(line).kind = "resync" THEN "over"
                    ELSE "reading",
         q.seen = IF r.client = "acking" \/ over THEN r.seen ELSE Append(r.seen, ParseEvent(line))
  PROVE  StreamOK(q, f)
<1>1. /\ r.from \in Nat /\ r.pos \in Nat /\ r.lines \in Seq(Lines) /\ r.seen \in Seq(Events)
      /\ Len(r.lines) \in Nat /\ Len(r.lines) >= 1 /\ Len(r.seen) \in Nat /\ Len(f) \in Nat
      /\ r.from <= r.pos /\ r.pos <= Len(f)
  BY DEF StreamRec, StreamOK
<1>2. Ack \notin {ErrorLine, Cut}
  <2>1. DOMAIN Ack = {"status"} /\ DOMAIN ErrorLine = {"error"} /\ DOMAIN Cut = {"error"}
    BY Zenon DEF Ack, ErrorLine, Cut
  <2>2. "status" \notin {"error"}
    BY Zenon
  <2> QED BY Zenon, <2>1, <2>2
<1>3. r.server # "idle"
  BY Zenon DEF StreamOK
<1>4. /\ q.client \in {"raised", "over", "reading"} /\ q.client # "acking"
  BY Zenon
<1>5. ASSUME NEW i \in 1..Len(r.seen)
      PROVE  /\ r.from + i <= r.pos /\ f[r.from + i] \in Written
             /\ r.seen[i] = AsRead(f[r.from + i]) /\ f[r.from + i].kind # "resync"
  <2>1. SeenOK(r, f, i)
    BY Zenon DEF StreamOK
  <2> QED BY Zenon, <2>1 DEF SeenOK
<1>6. CASE r.client = "acking"
  <2>1. r.seen = <<>> /\ q.seen = r.seen /\ Len(r.seen) = 0 /\ Shift(r) = 1
    BY Zenon, <1>6 DEF StreamOK, Shift
  <2>2. Len(q.lines) = Len(r.lines) - 1 /\ Shift(q) = 0 /\ \A i \in 1..Len(q.lines) : LineOK(q, f, i)
    BY Zenon, <1>4, <1>6, <2>1, TailFollows
  <2>3. ASSUME q.server = "open"
        PROVE  q.client = "reading" /\ Len(q.seen) + Len(q.lines) - Shift(q) = q.pos - q.from
    <3>1. line = Ack
      BY Zenon, <1>6, <2>3 DEF StreamOK
    <3>2. q.client = "reading"
      BY Zenon, <1>2, <1>6, <3>1
    <3>3. 0 + Len(r.lines) - 1 = r.pos - r.from
      BY Zenon, <2>1, <2>3 DEF StreamOK
    <3>4. 0 + (Len(r.lines) - 1) - 0 = r.pos - r.from
      BY ONLY <1>1, <3>3
    <3> QED BY Zenon, <2>1, <2>2, <3>2, <3>4
  <2>4. \A i \in 1..Len(q.seen) : SeenOK(q, f, i)
    <3>1. 1..0 = {}
      OBVIOUS
    <3> QED BY ONLY <2>1, <3>1
  <2> QED BY Zenon, <1>1, <1>3, <1>4, <2>2, <2>3, <2>4 DEF StreamOK
<1>7. CASE r.client = "reading"
  <2>1. Shift(r) = 0 /\ 1 \in 1..Len(r.lines)
    BY <1>1, <1>7 DEF Shift
  <2>2. LineOK(r, f, 1)
    BY <2>1 DEF StreamOK
  <2>3. CASE over
    <3>1. Len(r.lines) = 1 /\ r.server = "ended"
      BY Zenon, <2>2, <2>3, Parses DEF LineOK
    <3>2. \A i \in 1..Len(q.lines) : LineOK(q, f, i)
      BY Zenon, <1>4, <3>1, TailFollows
    <3>3. q.seen = r.seen
      BY Zenon, <2>3
    <3>4. \A i \in 1..Len(q.seen) : SeenOK(q, f, i)
      BY Zenon, <1>5, <3>3 DEF SeenOK
    <3> QED BY Zenon, <1>1, <1>4, <3>1, <3>2, <3>4 DEF StreamOK
  <2>4. CASE ~over
    <3> DEFINE n == r.from + (Len(r.seen) + 1)
    <3>1. At(r, 1) = r.from + Len(r.seen) + 1 - 0
      BY Zenon, <2>1 DEF At
    <3>2. At(r, 1) = n /\ n \in Nat
      BY ONLY <1>1, <3>1
    <3> HIDE DEF n
    <3>3. n <= r.pos /\ f[n] \in Written /\ line = Envelope(f[n])
      BY Zenon, <2>2, <2>4, <3>2 DEF LineOK
    <3>4. f[n].kind = "resync" => Len(r.lines) = 1 /\ r.server = "ended"
      BY Zenon, <2>2, <2>4, <3>2 DEF LineOK
    <3>5. ParseEvent(line) = AsRead(f[n])
      BY Zenon, <3>3, Parses
    <3>6. (ParseEvent(line).kind = "resync") <=> (f[n].kind = "resync")
      BY <3>5 DEF AsRead, TopologyEvent
    <3>7. q.seen = Append(r.seen, AsRead(f[n]))
      BY Zenon, <1>7, <2>4, <3>5
    <3>8. /\ Len(q.seen) = Len(r.seen) + 1 /\ q.seen[Len(r.seen) + 1] = AsRead(f[n])
          /\ \A i \in 1..Len(r.seen) : q.seen[i] = r.seen[i]
      BY ONLY <1>1, <3>7, OneMore
    <3>9. Len(q.lines) = Len(r.lines) - 1 /\ Shift(q) = 0 /\ \A i \in 1..Len(q.lines) : LineOK(q, f, i)
      BY Zenon, <1>4, <1>7, <3>8, TailFollows
    <3>10. ASSUME NEW i \in 1..Len(q.seen)
           PROVE  SeenOK(q, f, i)
      <4>1. CASE i \in 1..Len(r.seen)
        BY Zenon, <1>5, <3>8, <4>1 DEF SeenOK
      <4>2. CASE i \notin 1..Len(r.seen)
        <5>1. i = Len(r.seen) + 1
          <6>1. \A a \in Nat : \A j \in 1..(a + 1) : j \notin 1..a => j = a + 1
            OBVIOUS
          <6> QED BY Zenon, <1>1, <3>8, <4>2, <6>1
        <5>2. r.from + i = n
          BY Zenon, <5>1 DEF n
        <5>3. f[n].kind = "resync" => q.client = "over"
          BY Zenon, <1>7, <2>4, <3>6
        <5> QED BY Zenon, <3>3, <3>8, <5>1, <5>2, <5>3 DEF SeenOK
      <4> QED BY Zenon, <4>1, <4>2
    <3>11. ASSUME q.server = "open"
           PROVE  q.client = "reading" /\ Len(q.seen) + Len(q.lines) - Shift(q) = q.pos - q.from
      <4>1. q.client = "reading"
        BY Zenon, <1>7, <2>4, <3>4, <3>6, <3>11
      <4>2. Len(r.seen) + Len(r.lines) - 0 = r.pos - r.from
        BY Zenon, <2>1, <3>11 DEF StreamOK
      <4>3. (Len(r.seen) + 1) + (Len(r.lines) - 1) - 0 = r.pos - r.from
        <5>1. \A a, b \in Int : (a + 1) + (b - 1) - 0 = a + b - 0
          OBVIOUS
        <5>2. Len(r.seen) \in Int /\ Len(r.lines) \in Int
          BY <1>1
        <5> QED BY ONLY <4>2, <5>1, <5>2, Zenon
      <4> QED BY Zenon, <3>8, <3>9, <4>1, <4>3
    <3> QED BY Zenon, <1>1, <1>3, <1>4, <3>9, <3>10, <3>11 DEF StreamOK
  <2> QED BY Zenon, <2>3, <2>4
<1> QED BY Zenon, <1>6, <1>7

\* The client has read everything and the body is closed.
LEMMA OverFollows ==
  ASSUME NEW r \in StreamRec, NEW f \in Seq(Events), StreamOK(r, f),
         r.lines = <<>>, r.server = "ended", r.client \in {"acking", "reading"},
         NEW q \in StreamRec, q.from = r.from, q.pos = r.pos, q.server = r.server,
         q.lines = r.lines, q.seen = r.seen, q.client = "over"
  PROVE  StreamOK(q, f)
<1>1. r.from <= r.pos /\ r.pos <= Len(f)
  BY Zenon DEF StreamOK
<1>2. \A i \in 1..Len(q.seen) : SeenOK(q, f, i)
  <2> SUFFICES ASSUME NEW i \in 1..Len(r.seen) PROVE SeenOK(q, f, i)
    BY Zenon
  <2>1. SeenOK(r, f, i)
    BY Zenon DEF StreamOK
  <2> QED BY Zenon, <2>1 DEF SeenOK
<1>3. \A i \in 1..Len(q.lines) : LineOK(q, f, i)
  <2>1. Len(q.lines) = 0 /\ 1..0 = {}
    OBVIOUS
  <2> QED BY ONLY <2>1
<1> QED BY Zenon, <1>1, <1>2, <1>3 DEF StreamOK

\* A subscription starts, or is refused.
LEMMA SubscribeFollows ==
  ASSUME NEW r \in StreamRec, NEW f \in Seq(Events), StreamOK(r, f), r.server = "idle",
         NEW since \in 0..Len(f), NEW q,
         \/ q = [server |-> "open", from |-> since, pos |-> since, lines |-> <<Ack>>,
                 client |-> "acking", seen |-> <<>>]
         \/ /\ q \in StreamRec /\ q.server = "ended" /\ q.client = "raised"
            /\ q.from = r.from /\ q.pos = r.pos /\ q.lines = r.lines /\ q.seen = r.seen
  PROVE  q \in StreamRec /\ StreamOK(q, f)
<1>1. r.lines = <<>> /\ r.seen = <<>> /\ r.from <= r.pos /\ r.pos <= Len(f) /\ r.from \in Nat /\ r.pos \in Nat
  BY Zenon DEF StreamOK, StreamRec
<1>2. Ack \in Lines /\ Len(f) \in Nat /\ since \in Nat /\ since <= Len(f)
  BY DEF Lines
<1>3. 1..0 = {} /\ Len(<<>>) = 0
  OBVIOUS
<1>4. CASE q = [server |-> "open", from |-> since, pos |-> since, lines |-> <<Ack>>,
                client |-> "acking", seen |-> <<>>]
  <2>1. q \in StreamRec
    <3>1. <<Ack>> \in Seq(Lines) /\ <<>> \in Seq(Events)
      BY <1>2
    <3> QED BY <1>2, <1>4, <3>1 DEF StreamRec
  <2>2. /\ q.server = "open" /\ q.client = "acking" /\ q.seen = <<>> /\ q.lines = <<Ack>>
        /\ q.from = since /\ q.pos = since
    BY Zenon, <1>4
  <2>3. Shift(q) = 1 /\ Len(q.lines) = 1 /\ q.lines[1] = Ack /\ Len(q.seen) = 0
    BY <2>2 DEF Shift
  <2>4. Len(q.seen) + Len(q.lines) - Shift(q) = q.pos - q.from
    BY <1>2, <2>2, <2>3
  <2>5. \A i \in 1..Len(q.lines) : ~(Shift(q) < i)
    BY <2>3
  <2>6. \A i \in 1..Len(q.seen) : SeenOK(q, f, i)
    BY ONLY <1>3, <2>3
  <2> QED BY <1>2, <2>1, <2>2, <2>3, <2>4, <2>5, <2>6 DEF StreamOK
<1>5. CASE /\ q \in StreamRec /\ q.server = "ended" /\ q.client = "raised"
           /\ q.from = r.from /\ q.pos = r.pos /\ q.lines = r.lines /\ q.seen = r.seen
  <2>1. q \in StreamRec
    BY Zenon, <1>5
  <2>2. /\ q.server = "ended" /\ q.client = "raised" /\ q.seen = <<>> /\ q.lines = <<>>
        /\ q.from = r.from /\ q.pos = r.pos
    BY Zenon, <1>1, <1>5
  <2>3. Len(q.seen) = 0 /\ Len(q.lines) = 0
    BY Zenon, <1>3, <2>2
  <2>4. (\A i \in 1..Len(q.lines) : LineOK(q, f, i)) /\ \A i \in 1..Len(q.seen) : SeenOK(q, f, i)
    BY ONLY <1>3, <2>3
  <2> QED BY Zenon, <1>1, <2>1, <2>2, <2>4 DEF StreamOK
<1> QED BY Zenon, <1>4, <1>5

\* The topology service's feed goes on, or does not.
FeedStep == feed' = feed \/ \E e \in Events : feed' = Append(feed, e)

\* One stream moves, and the feed goes on.
LEMMA StreamPut ==
  ASSUME StreamInv, FeedStep, NEW s \in Streams, NEW q \in StreamRec, StreamOK(q, feed),
         stream' = [stream EXCEPT ![s] = q]
  PROVE  StreamInv'
<1>1. /\ stream' \in [Streams -> StreamRec] /\ feed \in Seq(Events)
      /\ \A t \in Streams : StreamOK(stream'[t], feed)
  BY DEF StreamInv
<1>2. CASE feed' = feed
  BY <1>1, <1>2 DEF StreamInv
<1>3. CASE \E e \in Events : feed' = Append(feed, e)
  <2>1. PICK e \in Events : feed' = Append(feed, e)
    BY <1>3
  <2>2. \A t \in Streams : StreamOK(stream'[t], feed') /\ stream'[t] \in StreamRec
    BY <1>1, <2>1, FeedGrows
  <2>3. feed' \in Seq(Events)
    BY <1>1, <2>1
  <2> QED BY <1>1, <2>2, <2>3 DEF StreamInv
<1> QED BY <1>2, <1>3 DEF FeedStep

\* No stream moves.
LEMMA StreamRest ==
  ASSUME StreamInv, FeedStep, stream' = stream
  PROVE  StreamInv'
<1>1. /\ stream \in [Streams -> StreamRec] /\ feed \in Seq(Events)
      /\ \A t \in Streams : StreamOK(stream[t], feed)
  BY DEF StreamInv
<1>2. CASE feed' = feed
  BY <1>1, <1>2 DEF StreamInv
<1>3. CASE \E e \in Events : feed' = Append(feed, e)
  <2>1. PICK e \in Events : feed' = Append(feed, e)
    BY <1>3
  <2>2. \A t \in Streams : StreamOK(stream[t], feed')
    BY <1>1, <2>1, FeedGrows
  <2>3. feed' \in Seq(Events)
    BY <1>1, <2>1
  <2> QED BY <1>1, <2>2, <2>3 DEF StreamInv
<1> QED BY <1>2, <1>3 DEF FeedStep

\* Every step of a stream keeps the account.
LEMMA StreamMoves ==
  ASSUME StreamInv, FeedStep, NEW s \in Streams, Stream(s)
  PROVE  StreamInv'
<1>1. PICK r \in StreamRec : r = stream[s]
  BY DEF StreamInv
<1>2. /\ stream \in [Streams -> StreamRec] /\ feed \in Seq(Events) /\ StreamOK(r, feed)
  BY <1>1 DEF StreamInv
<1>3. ASSUME NEW epoch \in 1..MaxEpoch, NEW since \in 0..Len(feed), Subscribe(s, epoch, since)
      PROVE  StreamInv'
  <2>1. PICK q : /\ stream' = [stream EXCEPT ![s] = q]
                 /\ \/ q = [server |-> "open", from |-> since, pos |-> since, lines |-> <<Ack>>,
                            client |-> "acking", seen |-> <<>>]
                    \/ q = [r EXCEPT !.server = "ended", !.client = "raised"]
    BY Zenon, <1>1, <1>2, <1>3 DEF Subscribe
  <2>2. ASSUME q = [r EXCEPT !.server = "ended", !.client = "raised"]
        PROVE  /\ q \in StreamRec /\ q.server = "ended" /\ q.client = "raised"
               /\ q.from = r.from /\ q.pos = r.pos /\ q.lines = r.lines /\ q.seen = r.seen
    BY Zenon, <2>2 DEF StreamRec
  <2>3. r.server = "idle"
    BY <1>1, <1>3 DEF Subscribe
  <2>4. q \in StreamRec /\ StreamOK(q, feed)
    BY <1>2, <2>1, <2>2, <2>3, SubscribeFollows
  <2> QED BY Zenon, <2>1, <2>4, StreamPut
<1>4. CASE WriteEvent(s)
  <2>1. PICK e : e = feed[r.pos + 1]
    OBVIOUS
  <2>2. r.server = "open" /\ r.pos < Len(feed) /\ r.pos \in Nat /\ r.lines \in Seq(Lines)
    BY Zenon, <1>1, <1>4 DEF WriteEvent, StreamRec
  <2>3. e \in Events
    BY <1>2, <2>1, <2>2
  <2>4. PICK lines : lines = IF e.kind = "odd" THEN r.lines ELSE Append(r.lines, Envelope(e))
    BY Zenon
  <2>5. PICK server : server = IF e.kind \in {"resync", "odd"} THEN "ended" ELSE "open"
    OBVIOUS
  <2>6. PICK q : q = [r EXCEPT !.pos = r.pos + 1, !.lines = lines, !.server = server]
    OBVIOUS
  <2>7. stream' = [stream EXCEPT ![s] = q]
    <3>1. stream' = [stream EXCEPT ![s].pos = r.pos + 1, ![s].lines = lines, ![s].server = server]
      BY Zenon, <1>1, <1>4, <2>1, <2>2, <2>4, <2>5 DEF WriteEvent
    <3> QED BY Zenon, <1>1, <1>2, <2>6, <3>1
  <2>8. lines \in Seq(Lines) /\ server \in {"idle", "open", "ended"} /\ r.pos + 1 \in Nat
    BY <2>2, <2>3, <2>4, <2>5 DEF Lines, Written
  <2>9. /\ q \in StreamRec /\ q.server = server /\ q.lines = lines /\ q.from = r.from
        /\ q.pos = r.pos + 1 /\ q.client = r.client /\ q.seen = r.seen
    BY Zenon, <2>6, <2>8 DEF StreamRec
  <2>10. StreamOK(q, feed)
    BY Zenon, <1>2, <2>1, <2>2, <2>4, <2>5, <2>9, WriteFollows
  <2> QED BY Zenon, <2>7, <2>9, <2>10, StreamPut
<1>5. CASE ReadLine(s)
  <2>1. /\ r.client \in {"acking", "reading"} /\ r.lines # <<>> /\ r.lines \in Seq(Lines)
        /\ r.seen \in Seq(Events)
    BY Zenon, <1>1, <1>5 DEF ReadLine, StreamRec
  <2>2. PICK line : line = r.lines[1]
    BY Zenon
  <2>3. PICK over : over = (line \in {ErrorLine, Cut})
    OBVIOUS
  <2>4. PICK client : client = IF over THEN "raised"
                               ELSE IF r.client = "reading" /\ ParseEvent(line).kind = "resync" THEN "over"
                               ELSE "reading"
    OBVIOUS
  <2>5. PICK seen : seen = IF r.client = "acking" \/ over THEN r.seen ELSE Append(r.seen, ParseEvent(line))
    BY Zenon
  <2>6. PICK q : q = [r EXCEPT !.lines = Tail(r.lines), !.client = client, !.seen = seen]
    OBVIOUS
  <2>7. stream' = [stream EXCEPT ![s] = q]
    <3>1. Head(r.lines) = line
      BY <2>1, <2>2
    <3>2. stream' = [stream EXCEPT ![s].lines = Tail(r.lines), ![s].client = client, ![s].seen = seen]
      BY Zenon, <1>1, <1>5, <2>3, <2>4, <2>5, <3>1 DEF ReadLine
    <3> QED BY Zenon, <1>1, <1>2, <2>6, <3>2
  <2>8. r.client = "acking" \/ over \/ ParseEvent(line) \in Events
    <3> SUFFICES ASSUME r.client = "reading", ~over PROVE ParseEvent(line) \in Events
      BY <2>1
    <3>1. Shift(r) < 1 /\ 1 \in 1..Len(r.lines)
      BY <2>1 DEF Shift
    <3>2. LineOK(r, feed, 1)
      BY Zenon, <1>2, <3>1 DEF StreamOK
    <3>3. PICK e \in Written : line = Envelope(e)
      BY Zenon, <2>2, <2>3, <3>2 DEF LineOK
    <3> QED BY <3>3, Parses
  <2>9. /\ client \in {"idle", "acking", "reading", "raised", "over"} /\ seen \in Seq(Events)
        /\ Tail(r.lines) \in Seq(Lines)
    <3>1. Tail(r.lines) \in Seq(Lines)
      BY <2>1
    <3>2. client \in {"idle", "acking", "reading", "raised", "over"}
      BY <2>1, <2>4
    <3>3. seen \in Seq(Events)
      BY <2>1, <2>5, <2>8
    <3> QED BY Zenon, <3>1, <3>2, <3>3
  <2>10. /\ q \in StreamRec /\ q.server = r.server /\ q.lines = Tail(r.lines) /\ q.from = r.from
         /\ q.pos = r.pos /\ q.client = client /\ q.seen = seen
    BY Zenon, <2>6, <2>9 DEF StreamRec
  <2>11. StreamOK(q, feed)
    BY <1>2, <2>1, <2>2, <2>3, <2>4, <2>5, <2>10, ReadFollows
  <2> QED BY Zenon, <2>7, <2>10, <2>11, StreamPut
<1>6. CASE Exhausted(s)
  <2>1. r.client \in {"acking", "reading"} /\ r.lines = <<>> /\ r.server = "ended"
    BY <1>1, <1>6 DEF Exhausted
  <2>2. PICK q : q = [r EXCEPT !.client = "over"]
    BY Zenon
  <2>3. stream' = [stream EXCEPT ![s] = q]
    BY <1>1, <1>2, <1>6, <2>2 DEF Exhausted
  <2>4. /\ q \in StreamRec /\ q.server = r.server /\ q.lines = r.lines /\ q.from = r.from
        /\ q.pos = r.pos /\ q.client = "over" /\ q.seen = r.seen
    BY <2>2 DEF StreamRec
  <2>5. StreamOK(q, feed)
    BY Zenon, <1>2, <2>1, <2>4, OverFollows
  <2> QED BY Zenon, <2>3, <2>4, <2>5, StreamPut
<1>7. ASSUME NEW n \in 0..Len(r.lines), NEW last \in {ErrorLine, Cut}, NEW lines \in Seq(Lines),
             r.server = "open",
             stream' = [stream EXCEPT ![s].server = "ended", ![s].lines = lines],
             lines = Append(SubSeq(r.lines, 1, n), last) \/ lines = r.lines,
             n = 0 /\ r.client = "acking" => last = Cut
      PROVE  StreamInv'
  <2>1. PICK q : q = [r EXCEPT !.server = "ended", !.lines = lines]
    OBVIOUS
  <2>2. stream' = [stream EXCEPT ![s] = q]
    BY Zenon, <1>1, <1>2, <1>7, <2>1
  <2>3. /\ q \in StreamRec /\ q.server = "ended" /\ q.lines = lines /\ q.from = r.from
        /\ q.pos = r.pos /\ q.client = r.client /\ q.seen = r.seen
    BY Zenon, <2>1 DEF StreamRec
  <2>4. StreamOK(q, feed)
    BY Zenon, <1>2, <1>7, <2>3, EndFollows
  <2> QED BY Zenon, <2>2, <2>3, <2>4, StreamPut
<1>8. ErrorLine \in Lines /\ Cut \in Lines /\ r.lines \in Seq(Lines)
  BY DEF Lines, StreamRec
<1>9. CASE CutOff(s)
  <2>1. PICK n \in 0..Len(r.lines) :
          stream' = [stream EXCEPT ![s].server = "ended", ![s].lines = Append(SubSeq(r.lines, 1, n), Cut)]
    BY Zenon, <1>1, <1>9 DEF CutOff
  <2>2. r.server = "open"
    BY <1>1, <1>9 DEF CutOff
  <2>3. SubSeq(r.lines, 1, n) \in Seq(Lines)
    BY <1>8
  <2>4. Append(SubSeq(r.lines, 1, n), Cut) \in Seq(Lines)
    BY <1>8, <2>3
  <2> QED BY Zenon, <1>7, <2>1, <2>2, <2>4
<1>10. ASSUME NEW error \in BOOLEAN, EndStream(s, error)
       PROVE  StreamInv'
  <2>1. PICK lines : lines = IF error THEN Append(r.lines, ErrorLine) ELSE r.lines
    BY Zenon
  <2>2. r.server = "open" /\ stream' = [stream EXCEPT ![s].server = "ended", ![s].lines = lines]
    BY <1>1, <1>10, <2>1 DEF EndStream
  <2>3. Len(r.lines) \in 0..Len(r.lines) /\ SubSeq(r.lines, 1, Len(r.lines)) = r.lines
    BY <1>8
  <2>4. lines \in Seq(Lines)
    BY <1>8, <2>1
  <2>5. lines = Append(SubSeq(r.lines, 1, Len(r.lines)), ErrorLine) \/ lines = r.lines
    BY ONLY <2>1, <2>3
  <2>6. ~(Len(r.lines) = 0 /\ r.client = "acking")
    BY <1>2, <2>2, OpenLines
  <2> QED BY Zenon, <1>7, <2>2, <2>3, <2>4, <2>5, <2>6
<1> QED BY <1>3, <1>4, <1>5, <1>6, <1>9, <1>10 DEF Stream

\* Other steps leave the streams, and the feed only grows.
LEMMA FeedOnly ==
  ASSUME [Next]_vars, feed \in Seq(Events)
  PROVE  FeedStep /\ (stream' = stream \/ \E s \in Streams : Stream(s))
<1>1. StateEvent \in Events
  BY DEF StateEvent, TopologyEvent, Events
<1>2. ASSUME NEW epoch, FenceEffect(epoch)
      PROVE  FeedStep
  BY <1>1, <1>2 DEF FenceEffect, FeedStep
<1>3. CASE vars' = vars
  BY <1>3 DEF vars, FeedStep
<1>4. ASSUME NEW x \in Requests, Invoke(x)
      PROVE  FeedStep /\ stream' = stream
  <2>1. ASSUME NEW agent, NEW kind, NEW asynchronous, NEW epoch,
               Dismiss(x, agent, kind, asynchronous, epoch)
        PROVE  FeedStep /\ stream' = stream
    <3>1. stream' = stream /\ (UNCHANGED feed \/ FenceEffect(epoch))
      BY Zenon, <2>1 DEF Dismiss
    <3> QED BY <1>2, <3>1 DEF FeedStep
  <2>2. ASSUME NEW agent, NEW kind, NEW asynchronous, NEW epoch, NEW budget, NEW assurance, NEW up,
               Admit(x, agent, kind, asynchronous, epoch, budget, assurance, up)
        PROVE  FeedStep /\ stream' = stream
    BY Zenon, <2>2 DEF Admit, FeedStep
  <2> QED BY Zenon, <1>4, <2>1, <2>2 DEF Invoke, RefusalSent, HandlerEnds, Answered, BackgroundEnds, FeedStep
<1>5. ASSUME NEW s \in Streams, Stream(s)
      PROVE  FeedStep
  BY Zenon, <1>2, <1>5 DEF Stream, Subscribe, WriteEvent, ReadLine, Exhausted, CutOff, EndStream, FeedStep
<1>6. ASSUME NEW epoch, Query(epoch) \/ TakeOwnership(epoch)
      PROVE  FeedStep /\ stream' = stream
  BY Zenon, <1>1, <1>2, <1>6 DEF Query, TakeOwnership, FeedStep
<1>7. ASSUME NEW lost, Quorum(lost)
      PROVE  FeedStep /\ stream' = stream
  BY <1>1, <1>7 DEF Quorum, FeedStep
<1>8. ASSUME NEW kind \in {"member", "resync", "odd"}, Event(kind)
      PROVE  FeedStep /\ stream' = stream
  <2>1. TopologyEvent(kind, Len(feed) + 1) \in Events
    BY DEF TopologyEvent, Events
  <2> QED BY <1>8, <2>1 DEF Event, FeedStep
<1>9. CASE Evaluator /\ UNCHANGED <<guard, slots, req, feed, stream>>
  BY <1>9 DEF FeedStep
<1> QED BY <1>3, <1>4, <1>5, <1>6, <1>7, <1>8, <1>9 DEF Next

\* As FeedOnly, StreamMoves and StreamRest say.
LEMMA StreamStep == StreamInv /\ [Next]_vars => StreamInv'
<1> SUFFICES ASSUME StreamInv, [Next]_vars PROVE StreamInv'
  OBVIOUS
<1>1. feed \in Seq(Events)
  BY DEF StreamInv
<1> QED BY <1>1, FeedOnly, StreamMoves, StreamRest

\* What a subscriber has read at any time is, event for event, what the topology service sent from
\* where it subscribed: no gap, nothing out of order, nothing behind a resync and never an event
\* the server cannot write, through broken connections, protocol errors and fencing.
THEOREM StreamSafe == Spec => []StreamFaithful
<1>1. Init => StreamInv
  <2> SUFFICES ASSUME Init PROVE StreamInv
    OBVIOUS
  <2>1. /\ NoStream.server = "idle" /\ NoStream.from = 0 /\ NoStream.pos = 0 /\ NoStream.lines = <<>>
        /\ NoStream.client = "idle" /\ NoStream.seen = <<>> /\ NoStream \in StreamRec
    BY DEF NoStream, StreamRec
  <2>2. 1..0 = {} /\ Len(<<>>) = 0
    OBVIOUS
  <2>3. feed = <<>> /\ stream = [s \in Streams |-> NoStream]
    BY DEF Init
  <2>4. StreamOK(NoStream, <<>>)
    BY <2>1, <2>2 DEF StreamOK
  <2> QED BY <2>1, <2>3, <2>4 DEF StreamInv
<1>2. StreamInv => StreamFaithful
  <2> SUFFICES ASSUME StreamInv, NEW s \in Streams
               PROVE  /\ Len(stream[s].seen) <= Len(SubSeq(feed, stream[s].from + 1, Len(feed)))
                      /\ \A i \in 1..Len(stream[s].seen) :
                           LET e == SubSeq(feed, stream[s].from + 1, Len(feed))[i]
                           IN  /\ stream[s].seen[i] = IF e.kind = "resync" THEN TopologyEvent("resync", 0) ELSE e
                               /\ e.kind # "odd"
                               /\ e.kind = "resync" => i = Len(stream[s].seen)
    BY Zenon DEF StreamFaithful
  <2>1. PICK r \in StreamRec : r = stream[s]
    BY DEF StreamInv
  <2>2. StreamOK(r, feed) /\ feed \in Seq(Events)
    BY <2>1 DEF StreamInv
  <2>3. /\ r.from \in Nat /\ r.pos \in Nat /\ r.from <= r.pos /\ r.pos <= Len(feed)
        /\ r.seen \in Seq(Events) /\ Len(r.seen) \in Nat /\ Len(feed) \in Nat
    BY <2>2 DEF StreamOK, StreamRec
  <2>4. PICK sent : sent = SubSeq(feed, r.from + 1, Len(feed))
    BY Zenon
  <2>5. Len(sent) = Len(feed) - r.from /\ \A i \in 1..(Len(feed) - r.from) : sent[i] = feed[r.from + i]
    <3>1. \A a, b, n \in Nat : a <= b /\ b <= n => a <= n
      OBVIOUS
    <3>2. r.from <= Len(feed)
      BY Zenon, <2>3, <3>1
    <3> QED BY Zenon, <2>2, <2>3, <2>4, <3>2, RestOf
  <2>6. ASSUME NEW i \in 1..Len(r.seen)
        PROVE  /\ r.from + i <= r.pos /\ feed[r.from + i] \in Written
               /\ r.seen[i] = AsRead(feed[r.from + i])
               /\ feed[r.from + i].kind = "resync" => i = Len(r.seen)
    <3>1. SeenOK(r, feed, i)
      BY Zenon, <2>2 DEF StreamOK
    <3> QED BY Zenon, <3>1 DEF SeenOK
  <2>7. Len(r.seen) <= Len(feed) - r.from
    <3>1. CASE Len(r.seen) = 0
      BY <2>3, <3>1
    <3>2. CASE Len(r.seen) # 0
      <4>1. Len(r.seen) \in 1..Len(r.seen)
        BY <2>3, <3>2
      <4>2. r.from + Len(r.seen) <= r.pos
        BY Zenon, <2>6, <4>1
      <4> QED BY <2>3, <4>2
    <3> QED BY <3>1, <3>2
  <2>8. ASSUME NEW i \in 1..Len(r.seen)
        PROVE  /\ r.seen[i] = IF sent[i].kind = "resync" THEN TopologyEvent("resync", 0) ELSE sent[i]
               /\ sent[i].kind # "odd"
               /\ sent[i].kind = "resync" => i = Len(r.seen)
    <3>1. i \in 1..(Len(feed) - r.from)
      BY <2>3, <2>7
    <3>2. sent[i] = feed[r.from + i]
      BY <2>5, <3>1
    <3> QED BY Zenon, <2>6, <3>2 DEF AsRead, Written
  <2> QED BY Zenon, <2>1, <2>4, <2>5, <2>7, <2>8
<1> QED
  BY <1>1, <1>2, StreamStep, PTL DEF Spec
=============================================================================
