-------------------------- MODULE LlmContextLocks --------------------------
(***************************************************************************)
(* What each operation of LlmContextStore does to the store; its records   *)
(* stay well formed, a running mutation keeps its lock, and a key is busy  *)
(* exactly while it runs.                                                  *)
(***************************************************************************)
EXTENDS LlmContextStore, TLAPS

\* What one sweep may make of a context e: nothing, a tombstone of an idle active
\* context, or nothing at all once its tombstone has run out.
Aged(e, s) ==
  \/ s = e
  \/ /\ e.state = "active" /\ e.reservation = None
     /\ s.state = "expired" /\ s.owner = e.owner /\ s.version = e.version
     /\ s.binding = e.binding /\ s.transcript = e.transcript
     /\ s.tombstone_until = now + Tombstone /\ s.reservation = None
  \/ /\ s = NoEntry
     /\ \/ e.state = "active" /\ e.reservation = None /\ Tombstone = 0
        \/ e.state \in {"expired", "released"} /\ e.tombstone_until <= now

\* What one sweep may make of a recorded outcome x.
AgedOutcome(x, y) ==
  \/ y = x /\ (x.state \in {"failed", "completed"} => x.retain_until > now)
  \/ y = NoOutcome /\ x.state \in {"failed", "completed"} /\ x.retain_until <= now

\* Contexts that differ in nothing but the reservation that holds them and their clocks.
SameContext(e, s) ==
  /\ s.state = e.state /\ s.owner = e.owner /\ s.version = e.version
  /\ s.binding = e.binding /\ s.transcript = e.transcript
  /\ s.tombstone_until = e.tombstone_until

\* _sweep on a context that is not locked (context_store.py:619-631).
LEMMA ExpiredEntry ==
  ASSUME NEW e \in Entry, now \in Nat
  PROVE  /\ Expire(e) \in Entry
         /\ \/ Expire(e) = e
            \/ /\ e.state = "active" /\ e.reservation = None
               /\ Expire(e).state = "expired"
               /\ Expire(e).owner = e.owner /\ Expire(e).version = e.version
               /\ Expire(e).binding = e.binding /\ Expire(e).transcript = e.transcript
               /\ Expire(e).tombstone_until = now + Tombstone
               /\ Expire(e).reservation = None
<1>. DEFINE x == [e EXCEPT !.state = "expired", !.expires_at = NoTime,
                           !.tombstone_until = now + Tombstone]
<1>0. now + Tombstone \in Nat
  BY OptionsAssumption
<1>1. x \in Entry
  BY Zenon, <1>0 DEF Entry, NoTime
<1>2. /\ x.state = "expired" /\ x.owner = e.owner /\ x.version = e.version
      /\ x.binding = e.binding /\ x.transcript = e.transcript
      /\ x.tombstone_until = now + Tombstone /\ x.reservation = e.reservation
  BY DEF Entry
<1>3. Expire(e) = e \/ (Expire(e) = x /\ e.state = "active" /\ e.reservation = None)
  BY DEF Expire
<1>. HIDE DEF x
<1>4. QED
  BY <1>1, <1>2, <1>3

\* The null record of a context, field by field.
LEMMA NoEntryFields ==
  /\ NoEntry \in Entry
  /\ NoEntry.state = "absent" /\ NoEntry.owner = None /\ NoEntry.version = 0
  /\ NoEntry.reservation = None /\ NoEntry.transcript = << >>
BY DEF NoEntry, Entry, NoTime

\* Both context passes of _sweep together (context_store.py:619-641).
LEMMA SweptEntry ==
  ASSUME NEW e \in Entry, now \in Nat
  PROVE  Forget(Expire(e)) \in Entry /\ Aged(e, Forget(Expire(e)))
<1>1. Forget(Expire(e)) = Expire(e) \/
        (/\ Forget(Expire(e)) = NoEntry /\ Expire(e).state \in {"expired", "released"}
         /\ Expire(e).tombstone_until <= now)
  BY DEF Forget
<1>2. CASE Forget(Expire(e)) = Expire(e)
  BY <1>2, ExpiredEntry DEF Aged
<1>3. CASE /\ Forget(Expire(e)) = NoEntry /\ Expire(e).state \in {"expired", "released"}
           /\ Expire(e).tombstone_until <= now
  BY <1>3, ExpiredEntry, NoEntryFields, OptionsAssumption DEF Aged
<1>4. QED
  BY <1>1, <1>2, <1>3

\* The idempotency pass of _sweep (context_store.py:642-649).
LEMMA SweptOutcome ==
  ASSUME NEW x \in Outcome, now \in Nat
  PROVE  ForgetOutcome(x) \in Outcome /\ AgedOutcome(x, ForgetOutcome(x))
<1>1. NoOutcome \in Outcome
  BY DEF NoOutcome, Outcome
<1>2. x.retain_until \in Nat
  BY DEF Outcome
<1>3. QED
  BY <1>1, <1>2 DEF ForgetOutcome, AgedOutcome

\* The whole sweep keeps the types and ages every record on its own.
LEMMA Swept ==
  ASSUME now \in Nat, NEW cs \in [ContextIds -> Entry], NEW is \in [IdemKeys -> Outcome]
  PROVE  /\ SweepContexts(cs) \in [ContextIds -> Entry]
         /\ SweepOutcomes(is) \in [IdemKeys -> Outcome]
         /\ \A c \in ContextIds : Aged(cs[c], SweepContexts(cs)[c])
         /\ \A i \in IdemKeys : AgedOutcome(is[i], SweepOutcomes(is)[i])
<1>1. \A c \in ContextIds : Forget(Expire(cs[c])) \in Entry /\ Aged(cs[c], Forget(Expire(cs[c])))
  BY SweptEntry
<1>2. \A i \in IdemKeys :
        ForgetOutcome(is[i]) \in Outcome /\ AgedOutcome(is[i], ForgetOutcome(is[i]))
  BY SweptOutcome
<1>3. QED
  BY <1>1, <1>2 DEF SweepContexts, SweepOutcomes

\* The fields of an admissible request.
LEMMA RequestFields ==
  ASSUME NEW q \in Requests
  PROVE  /\ q.op \in Mutations /\ q.owner \in Owners /\ q.key \in Keys
         /\ q.binding \in Bindings /\ q.base_version \in Nat /\ q.ttl \in Nat
         /\ q.op = "create" => q.context = None
         /\ q.op # "create" => q.context \in ContextIds
<1>1. CASE q \in [op: {"create"}, owner: Owners, key: Keys, binding: Bindings,
                  context: {None}, base_version: {0}, ttl: TtlRequests]
  <2>1. /\ q.op = "create" /\ q.owner \in Owners /\ q.key \in Keys
        /\ q.binding \in Bindings /\ q.context = None /\ q.ttl \in TtlRequests
    BY <1>1
  <2>2. q.base_version \in {0}
    BY <1>1
  <2>3. q.base_version \in Nat
    BY <2>2
  <2>4. q.ttl \in Nat
    BY Zenon, <2>1, OptionsAssumption
  <2>5. QED
    BY <2>1, <2>3, <2>4 DEF Mutations
<1>2. CASE q \in [op: {"append", "fork", "reset"}, owner: Owners, key: Keys,
                  binding: Bindings, context: ContextIds,
                  base_version: BaseVersions, ttl: TtlRequests]
  BY Zenon, <1>2, OptionsAssumption DEF Mutations
<1>3. QED
  BY <1>1, <1>2 DEF Requests

\* The records the operations store in self._idempotency.
LEMMA OutcomeFields ==
  ASSUME now \in Nat
  PROVE  /\ NoOutcome \in Outcome /\ NoOutcome.state = "absent" /\ NoOutcome.retain_until = 0
         /\ FailedOutcome \in Outcome /\ FailedOutcome.state = "failed" 
         /\ FailedOutcome.retain_until = now + IdemTtl
         /\ \A r \in ReservationIds : 
              /\ BusyOutcome(r) \in Outcome /\ BusyOutcome(r).state = "busy"
              /\ BusyOutcome(r).reservation = r /\ BusyOutcome(r).retain_until = now + IdemTtl
         /\ \A c \in ContextIds, v \in Nat : 
              /\ CompletedOutcome(c, v) \in Outcome /\ CompletedOutcome(c, v).state = "completed"
              /\ CompletedOutcome(c, v).retain_until = now + IdemTtl
              /\ CompletedOutcome(c, v).context = c /\ CompletedOutcome(c, v).version = v
BY OptionsAssumption DEF NoOutcome, Outcome, FailedOutcome, BusyOutcome, CompletedOutcome

\* The keys of self._idempotency tell owners, client keys and actions apart.
LEMMA KeysAreIdemKeys ==
  ASSUME NEW o \in Owners, NEW k \in Keys
  PROVE  /\ Complete(o, k) \in IdemKeys /\ OfRelease(o, k) \in IdemKeys
         /\ Complete(o, k)[1] = o /\ OfRelease(o, k)[1] = o
         /\ \A o2 \in Owners, k2 \in Keys :
              /\ Complete(o, k) = Complete(o2, k2) => o = o2 /\ k = k2
              /\ Complete(o, k) # OfRelease(o2, k2)
BY DEF Complete, OfRelease, IdemKeys

\* The reservation reserve() records (context_store.py:470-486).
LEMMA NewReservationFields ==
  ASSUME now \in Nat, NEW cs \in [ContextIds -> Entry], NEW q \in Requests
  PROVE  LET n == NewReservation(cs, q)
         IN  /\ n \in Reservation
             /\ n.op = q.op /\ n.owner = q.owner /\ n.key = q.key /\ n.context = q.context
             /\ n.base_version = q.base_version
             /\ n.base_transcript = IF q.op = "create" THEN << >> ELSE cs[q.context].transcript
<1>1. EffectiveTtl(cs, q) \in Nat
  <2>1. q.op # "create" => /\ cs[q.context].ttl \in Nat
                          /\ cs[q.context].expires_at \in Nat \union {NoTime}
    BY RequestFields DEF Entry
  <2>2. q.ttl \in Nat
    BY RequestFields
  <2>3. QED
    BY <2>1, <2>2, OptionsAssumption DEF EffectiveTtl, Clamp, NoTime
<1>2. q.op # "create" => cs[q.context].transcript \in Seq(ReservationIds)
  BY RequestFields DEF Entry
<1>3. << >> \in Seq(ReservationIds)
  OBVIOUS
<1>4. QED
  BY <1>1, <1>2, <1>3, RequestFields DEF NewReservation, Reservation

\* What reserve() leaves.
ReserveLeaves(q, r) ==
  /\ TypeOK'
  /\ \A c \in ContextIds : (q.op \in InPlace /\ c = q.context) \/ Aged(contexts[c], contexts'[c])
  /\ q.op # "create" => Mutable(contexts, q.owner, q.context, q.base_version)
  /\ q.op \in InPlace => /\ SameContext(contexts[q.context], contexts'[q.context])
                        /\ contexts'[q.context].reservation = r
  /\ idempotency[Complete(q.owner, q.key)].state # "busy"
  /\ \/ idempotency[Complete(q.owner, q.key)].state = "absent"
     \/ idempotency[Complete(q.owner, q.key)].retain_until <= now
  /\ idempotency'[Complete(q.owner, q.key)] = BusyOutcome(r)
  /\ \A i \in IdemKeys : i = Complete(q.owner, q.key) \/ AgedOutcome(idempotency[i], idempotency'[i])
  /\ \A s \in ReservationIds \ {r} : reservations'[s] = reservations[s]
  /\ reservations'[r].op = q.op /\ reservations'[r].owner = q.owner 
  /\ reservations'[r].key = q.key /\ reservations'[r].context = q.context
  /\ reservations'[r].base_version = q.base_version
  /\ q.op = "create" => reservations'[r].base_transcript = << >>
  /\ q.op # "create" => reservations'[r].base_transcript = contexts[q.context].transcript
  /\ \A s \in ReservationIds \ {r} : author'[s] = author[s]
  /\ author[r] = None /\ author'[r] = q.owner
  /\ now' = now

\* What an admitted reserve() does, record by record.
LEMMA ReserveEffect ==
  ASSUME TypeOK, NEW q \in Requests, NEW r \in ReservationIds, Reserve(q, r)
  PROVE  ReserveLeaves(q, r)
<1>. DEFINE cs == SweepContexts(contexts)
           is == SweepOutcomes(idempotency)
<1>1. /\ now \in Nat /\ cs \in [ContextIds -> Entry] /\ is \in [IdemKeys -> Outcome]
      /\ \A c \in ContextIds : Aged(contexts[c], cs[c])
      /\ \A i \in IdemKeys : AgedOutcome(idempotency[i], is[i])
  BY Swept DEF TypeOK
<1>2. /\ author[r] = None /\ Admissible(cs, is, q)
      /\ reservations' = [reservations EXCEPT ![r] = NewReservation(cs, q)]
      /\ contexts' = IF q.op \in InPlace
                       THEN [cs EXCEPT ![q.context].reservation = r] ELSE cs
      /\ idempotency' = [is EXCEPT ![Complete(q.owner, q.key)] = BusyOutcome(r)]
      /\ author' = [author EXCEPT ![r] = q.owner]
      /\ now' = now
  BY DEF Reserve
<1>. HIDE DEF cs, is
<1>3. q.op # "create" => cs[q.context] = contexts[q.context]
  BY <1>1, <1>2, RequestFields, NoEntryFields DEF Admissible, Mutable, Aged
<1>4. q.op # "create" => Mutable(contexts, q.owner, q.context, q.base_version)
  BY <1>2, <1>3 DEF Admissible, Mutable
<1>5. contexts' \in [ContextIds -> Entry]
  <2>1. CASE q.op \in InPlace
    <3>1. q.context \in ContextIds /\ cs[q.context] \in Entry
      BY <2>1, <1>1, RequestFields DEF InPlace
    <3>2. [cs[q.context] EXCEPT !.reservation = r] \in Entry
      BY Zenon, <3>1 DEF Entry
    <3>3. contexts' = [cs EXCEPT ![q.context] = [cs[q.context] EXCEPT !.reservation = r]]
      BY <2>1, <1>2
    <3>4. QED
      BY <3>1, <3>2, <3>3, <1>1
  <2>2. CASE q.op \notin InPlace
    BY <2>2, <1>1, <1>2
  <2>3. QED
    BY <2>1, <2>2
<1>6. \A c \in ContextIds : (q.op \in InPlace /\ c = q.context) \/ Aged(contexts[c], contexts'[c])
  BY <1>1, <1>2
<1>7. ASSUME q.op \in InPlace
      PROVE  /\ SameContext(contexts[q.context], contexts'[q.context])
             /\ contexts'[q.context].reservation = r
  <2>1. q.context \in ContextIds /\ cs[q.context] \in Entry /\ cs[q.context] = contexts[q.context]
    BY <1>7, <1>1, <1>3, RequestFields DEF InPlace
  <2>2. contexts'[q.context] = [contexts[q.context] EXCEPT !.reservation = r]
    BY <2>1, <1>7, <1>1, <1>2
  <2>3. QED
    BY <2>1, <2>2 DEF SameContext, Entry
<1>8. Complete(q.owner, q.key) \in IdemKeys
  BY RequestFields, KeysAreIdemKeys
<1>9. /\ idempotency[Complete(q.owner, q.key)].state # "busy"
      /\ \/ idempotency[Complete(q.owner, q.key)].state = "absent"
         \/ idempotency[Complete(q.owner, q.key)].retain_until <= now
  BY <1>1, <1>2, <1>8, OutcomeFields DEF Admissible, AgedOutcome
<1>10. /\ idempotency' \in [IdemKeys -> Outcome]
       /\ idempotency'[Complete(q.owner, q.key)] = BusyOutcome(r)
       /\ \A i \in IdemKeys : i = Complete(q.owner, q.key) \/ AgedOutcome(idempotency[i], idempotency'[i])
  BY <1>1, <1>2, <1>8, OutcomeFields
<1>11. /\ reservations' \in [ReservationIds -> Reservation]
       /\ \A s \in ReservationIds \ {r} : reservations'[s] = reservations[s]
       /\ reservations'[r] = NewReservation(cs, q)
  BY <1>1, <1>2, NewReservationFields DEF TypeOK
<1>12. /\ reservations'[r].op = q.op /\ reservations'[r].owner = q.owner
       /\ reservations'[r].key = q.key /\ reservations'[r].context = q.context
       /\ reservations'[r].base_version = q.base_version
       /\ q.op = "create" => reservations'[r].base_transcript = << >>
       /\ q.op # "create" => reservations'[r].base_transcript = contexts[q.context].transcript
  BY <1>1, <1>3, <1>11, NewReservationFields
<1>13. /\ author' \in [ReservationIds -> Owners \union {None}]
       /\ \A s \in ReservationIds \ {r} : author'[s] = author[s]
       /\ author'[r] = q.owner
  BY <1>2, RequestFields DEF TypeOK
<1>14. QED
  BY <1>1, <1>2, <1>4, <1>5, <1>6, <1>7, <1>9, <1>10, <1>11, <1>12, <1>13 DEF TypeOK, ReserveLeaves

\* The null record of a reservation.
LEMMA NoReservationFields ==
  /\ NoReservation \in Reservation /\ NoReservation.op = "none"
  /\ NoReservation.base_transcript = << >>
BY DEF NoReservation, Reservation

\* The context commit() writes for a create or a fork (context_store.py:276-298).
LEMMA NewEntryFields ==
  ASSUME now \in Nat, NEW res \in Reservation, NEW r \in ReservationIds
  PROVE  LET e == NewEntry(res, r)
         IN  /\ e \in Entry
             /\ e.state = "active" /\ e.owner = res.owner /\ e.version = 1 /\ e.reservation = None
             /\ e.transcript = Append(IF res.op = "fork" THEN res.base_transcript ELSE << >>, r)
<1>1. /\ now + res.ttl \in Nat
      /\ Append(IF res.op = "fork" THEN res.base_transcript ELSE << >>, r) \in Seq(ReservationIds)
  BY DEF Reservation
<1>2. QED
  BY <1>1 DEF NewEntry, Entry, Reservation, NoTime

\* The context commit() rewrites for an append or a reset (context_store.py:299-313).
LEMMA MutatedEntryFields ==
  ASSUME now \in Nat, NEW e \in Entry, NEW res \in Reservation, NEW r \in ReservationIds
  PROVE  LET m == MutatedEntry(e, res, r)
         IN  /\ m \in Entry
             /\ m.state = "active" /\ m.owner = e.owner /\ m.version = e.version + 1
             /\ m.reservation = None
             /\ m.transcript = IF res.op = "reset" THEN <<r>> ELSE Append(e.transcript, r)
<1>. DEFINE b == IF res.op = "reset" THEN res.binding ELSE e.binding
           t == IF res.op = "reset" THEN <<r>> ELSE Append(e.transcript, r)
           v == e.version + 1
           x == now + res.ttl
           m == [e EXCEPT !.state = "active", !.version = v, !.reservation = None,
                          !.expires_at = x, !.ttl = res.ttl, !.binding = b, !.transcript = t]
<1>1. x \in Nat /\ v \in Nat /\ res.ttl \in Nat
  BY DEF Reservation, Entry
<1>2. t \in Seq(ReservationIds) /\ b \in Bindings \union {None}
  BY DEF Entry, Reservation
<1>3. MutatedEntry(e, res, r) = m
  BY DEF MutatedEntry
<1>. HIDE DEF b, t, v, x
<1>4. m \in Entry
  BY Zenon, <1>1, <1>2 DEF Entry
<1>5. /\ m.state = "active" /\ m.owner = e.owner /\ m.version = v
      /\ m.reservation = None /\ m.transcript = t
  BY DEF Entry
<1>. HIDE DEF m
<1>6. QED
  BY <1>3, <1>4, <1>5 DEF t, v

\* What commit() leaves.
CommitLeaves(r, c) ==
  LET res == reservations[r]
  IN  /\ TypeOK'
      /\ res.op # "none" /\ res.owner \in Owners /\ res.key \in Keys
      /\ \A d \in ContextIds \ {c} : contexts'[d] = contexts[d]
      /\ contexts'[c].state = "active" /\ contexts'[c].owner = res.owner
      /\ contexts'[c].reservation = None
      /\ res.op \in Allocating => /\ contexts[c] = NoEntry /\ contexts'[c].version = 1
      /\ res.op = "create" => contexts'[c].transcript = Append(<< >>, r)
      /\ res.op = "fork" => contexts'[c].transcript = Append(res.base_transcript, r)
      /\ res.op \notin Allocating =>
           /\ res.op \in InPlace /\ c = res.context
           /\ contexts[c].state = "active" /\ contexts[c].owner = res.owner
           /\ contexts[c].reservation = r
           /\ contexts'[c].version = contexts[c].version + 1
      /\ res.op = "append" => contexts'[c].transcript = Append(contexts[c].transcript, r)
      /\ res.op = "reset" => contexts'[c].transcript = <<r>>
      /\ \A i \in IdemKeys \ {Complete(res.owner, res.key)} : idempotency'[i] = idempotency[i]
      /\ idempotency'[Complete(res.owner, res.key)] = CompletedOutcome(c, contexts'[c].version)
      /\ \A s \in ReservationIds \ {r} : reservations'[s] = reservations[s]
      /\ reservations'[r] = NoReservation
      /\ now' = now /\ author' = author

\* What commit() does, record by record.
LEMMA CommitEffect ==
  ASSUME IInv, NEW r \in ReservationIds, NEW c \in ContextIds, Commit(r, c)
  PROVE  CommitLeaves(r, c)
<1>. DEFINE res == reservations[r]
<1>1. /\ now \in Nat /\ res \in Reservation /\ contexts \in [ContextIds -> Entry]
      /\ idempotency \in [IdemKeys -> Outcome] /\ reservations \in [ReservationIds -> Reservation]
  BY DEF IInv, TypeOK
<1>2. /\ res.op # "none"
      /\ IF res.op \in Allocating
           THEN /\ contexts[c].state = "absent"
                /\ contexts' = [contexts EXCEPT ![c] = NewEntry(res, r)]
           ELSE /\ c = res.context
                /\ contexts[c].state # "absent"
                /\ contexts' = [contexts EXCEPT ![c] = MutatedEntry(contexts[c], res, r)]
      /\ idempotency' = [idempotency EXCEPT ![Complete(res.owner, res.key)] =
                           CompletedOutcome(c, contexts'[c].version)]
      /\ reservations' = [reservations EXCEPT ![r] = NoReservation]
      /\ now' = now /\ author' = author
  BY DEF Commit
<1>3. res.owner \in Owners /\ res.key \in Keys
  BY <1>2 DEF IInv, WellFormed
<1>4. res.op \in Allocating \/ res.op \in InPlace
  BY <1>1, <1>2 DEF Reservation, Mutations, Allocating, InPlace
<1>5. res.op \in Allocating => contexts[c] = NoEntry
  BY <1>2 DEF IInv, WellFormed
<1>6. res.op \notin Allocating => /\ c = res.context /\ contexts[c].state = "active" 
                                 /\ contexts[c].owner = res.owner /\ contexts[c].reservation = r
  BY <1>2, <1>4 DEF IInv, MutationHoldsContext
<1>7. "fork" \in Allocating /\ "create" \in Allocating /\ "append" \notin Allocating /\ "reset" \notin Allocating
  BY DEF Allocating
<1>. HIDE DEF res
<1>. DEFINE n == IF res.op \in Allocating THEN NewEntry(res, r)
                                         ELSE MutatedEntry(contexts[c], res, r)
<1>a. NewEntry(res, r) \in Entry /\ MutatedEntry(contexts[c], res, r) \in Entry
  BY Zenon, <1>1, NewEntryFields, MutatedEntryFields
<1>b. n \in Entry /\ contexts' = [contexts EXCEPT ![c] = n]
  BY <1>2, <1>a
<1>8. /\ contexts' \in [ContextIds -> Entry]
      /\ \A d \in ContextIds \ {c} : contexts'[d] = contexts[d]
      /\ contexts'[c] = n
  <2>. HIDE DEF n
  <2>. QED
    BY <1>1, <1>b
<1>9. /\ contexts'[c].state = "active" /\ contexts'[c].owner = res.owner
      /\ contexts'[c].reservation = None
      /\ res.op \in Allocating => contexts'[c].version = 1
      /\ res.op = "create" => contexts'[c].transcript = Append(<< >>, r)
      /\ res.op = "fork" => contexts'[c].transcript = Append(res.base_transcript, r)
      /\ res.op \notin Allocating => contexts'[c].version = contexts[c].version + 1
      /\ res.op = "append" => contexts'[c].transcript = Append(contexts[c].transcript, r)
      /\ res.op = "reset" => contexts'[c].transcript = <<r>>
  <2>1. CASE res.op \in Allocating
    BY <2>1, <1>1, <1>7, <1>8, NewEntryFields
  <2>2. CASE res.op \notin Allocating
    <3>1. contexts'[c] = MutatedEntry(contexts[c], res, r) /\ contexts[c] \in Entry
      BY <2>2, <1>1, <1>8
    <3>2. /\ contexts'[c].state = "active" /\ contexts'[c].owner = contexts[c].owner
          /\ contexts'[c].reservation = None
          /\ contexts'[c].version = contexts[c].version + 1
          /\ contexts'[c].transcript =
               IF res.op = "reset" THEN <<r>> ELSE Append(contexts[c].transcript, r)
      BY <3>1, <1>1, MutatedEntryFields
    <3>3. QED
      BY <2>2, <3>2, <1>6, <1>7
  <2>3. QED
    BY <2>1, <2>2
<1>10. contexts'[c].version \in Nat
  BY <1>8 DEF Entry
<1>11. /\ idempotency' \in [IdemKeys -> Outcome]
       /\ \A i \in IdemKeys \ {Complete(res.owner, res.key)} : idempotency'[i] = idempotency[i]
       /\ idempotency'[Complete(res.owner, res.key)] = CompletedOutcome(c, contexts'[c].version)
  BY <1>1, <1>2, <1>3, <1>10, KeysAreIdemKeys, OutcomeFields
<1>12. /\ reservations' \in [ReservationIds -> Reservation]
       /\ \A s \in ReservationIds \ {r} : reservations'[s] = reservations[s]
       /\ reservations'[r] = NoReservation
  BY <1>1, <1>2, NoReservationFields
<1>13. TypeOK'
  BY <1>2, <1>8, <1>11, <1>12 DEF IInv, TypeOK
<1>14. QED
  BY Zenon, <1>2, <1>3, <1>4, <1>5, <1>6, <1>8, <1>9, <1>11, <1>12, <1>13 DEF res, CommitLeaves

\* What abort() leaves.
AbortLeaves(r) ==
  LET res == reservations[r]
  IN  /\ TypeOK'
      /\ res.op # "none" /\ res.owner \in Owners /\ res.key \in Keys
      /\ \A c \in ContextIds :
           \E e \in Entry : 
             /\ Aged(e, contexts'[c])
             /\ \/ e = contexts[c] /\ contexts[c].reservation # r
                \/ /\ SameContext(contexts[c], e) /\ contexts[c].reservation = r 
                   /\ e.reservation = None
      /\ idempotency'[Complete(res.owner, res.key)].state \in {"absent", "failed"}
      /\ idempotency'[Complete(res.owner, res.key)].retain_until <= now + IdemTtl
      /\ \A i \in IdemKeys \ {Complete(res.owner, res.key)} : AgedOutcome(idempotency[i], idempotency'[i])
      /\ \A s \in ReservationIds \ {r} : reservations'[s] = reservations[s]
      /\ reservations'[r] = NoReservation
      /\ now' = now /\ author' = author

\* What abort() does, record by record.
LEMMA AbortEffect ==
  ASSUME IInv, NEW r \in ReservationIds, Abort(r)
  PROVE  AbortLeaves(r)
<1>. DEFINE res == reservations[r]
           cs == Unlock(contexts, r)
           is == [idempotency EXCEPT ![Complete(res.owner, res.key)] = FailedOutcome]
<1>1. /\ now \in Nat /\ res \in Reservation /\ contexts \in [ContextIds -> Entry]
      /\ idempotency \in [IdemKeys -> Outcome] /\ reservations \in [ReservationIds -> Reservation]
  BY DEF IInv, TypeOK
<1>2. /\ res.op # "none"
      /\ contexts' = SweepContexts(cs)
      /\ idempotency' = SweepOutcomes(is)
      /\ reservations' = [reservations EXCEPT ![r] = NoReservation]
      /\ now' = now /\ author' = author
  BY DEF Abort
<1>3. res.owner \in Owners /\ res.key \in Keys
  BY <1>2 DEF IInv, WellFormed
<1>4. is \in [IdemKeys -> Outcome]
  BY Zenon, <1>1, OutcomeFields
<1>5. ASSUME NEW c \in ContextIds
      PROVE  /\ cs[c] \in Entry
             /\ \/ cs[c] = contexts[c] /\ contexts[c].reservation # r
                \/ /\ SameContext(contexts[c], cs[c]) /\ contexts[c].reservation = r 
                   /\ cs[c].reservation = None
  <2>1. contexts[c] \in Entry
    BY <1>1
  <2>2. CASE contexts[c].reservation = r
    <3>1. reservations[r].context = c
      BY <2>2, IdsAssumption DEF IInv, MutationHoldsContext
    <3>2. cs[c] = [contexts[c] EXCEPT !.reservation = None]
      BY <2>2, <3>1 DEF Unlock
    <3>3. QED
      BY Zenon, <2>1, <2>2, <3>2 DEF SameContext, Entry
  <2>3. CASE contexts[c].reservation # r
    BY <2>1, <2>3 DEF Unlock
  <2>4. QED
    BY <2>2, <2>3
<1>6. cs \in [ContextIds -> Entry]
  BY <1>5 DEF Unlock
<1>. HIDE DEF cs, is
<1>7. /\ contexts' \in [ContextIds -> Entry] /\ idempotency' \in [IdemKeys -> Outcome]
      /\ \A c \in ContextIds : Aged(cs[c], contexts'[c])
      /\ \A i \in IdemKeys : AgedOutcome(is[i], idempotency'[i])
  BY <1>1, <1>2, <1>4, <1>6, Swept
<1>8. /\ is[Complete(res.owner, res.key)] = FailedOutcome
      /\ \A i \in IdemKeys \ {Complete(res.owner, res.key)} : is[i] = idempotency[i]
  BY <1>1, <1>3, KeysAreIdemKeys DEF is
<1>9. /\ idempotency'[Complete(res.owner, res.key)].state \in {"absent", "failed"}
      /\ idempotency'[Complete(res.owner, res.key)].retain_until <= now + IdemTtl
  BY <1>1, <1>3, <1>7, <1>8, KeysAreIdemKeys, OutcomeFields, OptionsAssumption DEF AgedOutcome
<1>10. /\ reservations' \in [ReservationIds -> Reservation]
       /\ \A s \in ReservationIds \ {r} : reservations'[s] = reservations[s]
       /\ reservations'[r] = NoReservation
  BY <1>1, <1>2, NoReservationFields
<1>11. TypeOK'
  BY <1>2, <1>7, <1>10 DEF IInv, TypeOK
<1>12. QED
  BY Zenon, <1>2, <1>3, <1>5, <1>7, <1>8, <1>9, <1>10, <1>11 DEF AbortLeaves

\* What release() leaves.
ReleaseLeaves(o, c, v, k) ==
  /\ TypeOK'
  /\ \A d \in ContextIds \ {c} : Aged(contexts[d], contexts'[d])
  /\ Mutable(contexts, o, c, v)
  /\ contexts'[c].state = "released" /\ contexts'[c].owner = o
  /\ contexts'[c].version = contexts[c].version + 1
  /\ contexts'[c].transcript = contexts[c].transcript
  /\ contexts'[c].reservation = None
  /\ contexts'[c].tombstone_until = now + Tombstone
  /\ AgedOutcome(idempotency[OfRelease(o, k)], NoOutcome)
       \/ idempotency[OfRelease(o, k)].state = "absent"
  /\ idempotency'[OfRelease(o, k)] = CompletedOutcome(c, contexts'[c].version)
  /\ \A i \in IdemKeys \ {OfRelease(o, k)} : AgedOutcome(idempotency[i], idempotency'[i])
  /\ UNCHANGED <<now, reservations, author>>

\* What release() does, record by record.
LEMMA ReleaseEffect ==
  ASSUME TypeOK, NEW o \in Owners, NEW c \in ContextIds, NEW v \in BaseVersions, NEW k \in Keys,
         Release(o, c, v, k)
  PROVE  ReleaseLeaves(o, c, v, k)
<1>. DEFINE cs == SweepContexts(contexts)
           is == SweepOutcomes(idempotency)
           x == now + Tombstone
           w == v + 1
           m == [cs[c] EXCEPT !.version = w, !.state = "released", !.expires_at = NoTime,
                              !.tombstone_until = x]
<1>1. /\ now \in Nat /\ cs \in [ContextIds -> Entry] /\ is \in [IdemKeys -> Outcome]
      /\ \A d \in ContextIds : Aged(contexts[d], cs[d])
      /\ \A i \in IdemKeys : AgedOutcome(idempotency[i], is[i])
  BY Swept DEF TypeOK
<1>2. /\ is[OfRelease(o, k)].state = "absent" /\ Mutable(cs, o, c, v)
      /\ contexts' = [cs EXCEPT ![c].version = w, ![c].state = "released",
                                ![c].expires_at = NoTime, ![c].tombstone_until = x]
      /\ idempotency' = [is EXCEPT ![OfRelease(o, k)] = CompletedOutcome(c, w)]
      /\ UNCHANGED <<now, reservations, author>>
  BY DEF Release
<1>3. x \in Nat /\ w \in Nat /\ NoTime \in {NoTime}
  BY <1>1, OptionsAssumption
<1>. HIDE DEF cs, is, x, w
<1>4. cs[c] = contexts[c] /\ cs[c] \in Entry
  BY <1>1, <1>2, NoEntryFields DEF Mutable, Aged
<1>5. Mutable(contexts, o, c, v)
  BY <1>2, <1>4 DEF Mutable
<1>6. contexts' = [cs EXCEPT ![c] = m]
  BY Zenon, <1>1, <1>2
<1>7. m \in Entry
  BY Zenon, <1>3, <1>4 DEF Entry
<1>8. /\ m.state = "released" /\ m.owner = cs[c].owner /\ m.version = w
      /\ m.transcript = cs[c].transcript /\ m.reservation = cs[c].reservation
      /\ m.tombstone_until = x
  BY <1>4 DEF Entry
<1>. HIDE DEF m
<1>9. /\ contexts' \in [ContextIds -> Entry] /\ contexts'[c] = m
      /\ \A d \in ContextIds \ {c} : Aged(contexts[d], contexts'[d])
  BY <1>1, <1>6, <1>7
<1>10. /\ contexts'[c].state = "released" /\ contexts'[c].owner = o
       /\ contexts'[c].version = contexts[c].version + 1
       /\ contexts'[c].transcript = contexts[c].transcript
       /\ contexts'[c].reservation = None
       /\ contexts'[c].tombstone_until = now + Tombstone
  BY <1>4, <1>5, <1>8, <1>9 DEF Mutable, x, w
<1>11. OfRelease(o, k) \in IdemKeys
  BY KeysAreIdemKeys
<1>12. AgedOutcome(idempotency[OfRelease(o, k)], NoOutcome) \/ idempotency[OfRelease(o, k)].state = "absent"
  BY <1>1, <1>2, <1>11 DEF AgedOutcome
<1>13. /\ idempotency' \in [IdemKeys -> Outcome]
       /\ idempotency'[OfRelease(o, k)] = CompletedOutcome(c, w)
       /\ \A i \in IdemKeys \ {OfRelease(o, k)} : AgedOutcome(idempotency[i], idempotency'[i])
  BY <1>1, <1>2, <1>3, <1>11, OutcomeFields
<1>14. TypeOK'
  BY <1>2, <1>9, <1>13 DEF TypeOK
<1>15. QED
  BY Zenon, <1>2, <1>5, <1>8, <1>9, <1>10, <1>12, <1>13, <1>14 DEF ReleaseLeaves

\* What a sweep does, record by record.
LEMMA SweepEffect ==
  ASSUME TypeOK, Sweep
  PROVE  /\ TypeOK'
         /\ \A c \in ContextIds : Aged(contexts[c], contexts'[c])
         /\ \A i \in IdemKeys : AgedOutcome(idempotency[i], idempotency'[i])
         /\ UNCHANGED <<now, reservations, author>>
BY Swept DEF TypeOK, Sweep
-----------------------------------------------------------------------------

\* Null records stay null, present ones keep naming their owner.
LEMMA WellFormedStep ==
  ASSUME IInv, Next
  PROVE  WellFormed'
<1>. USE DEF IInv
<1>. DEFINE WfC(c) ==
       /\ contexts[c].state = "absent" => contexts[c] = NoEntry
       /\ contexts[c].state # "absent" => contexts[c].owner \in Owners
       /\ contexts[c].state \in {"expired", "released"} => contexts[c].tombstone_until \in Nat
       /\ contexts[c].reservation # None => contexts[c].state = "active"
     WfR(r) ==
       /\ reservations[r].op = "none" => reservations[r] = NoReservation
       /\ reservations[r].op # "none" =>
            /\ reservations[r].owner \in Owners /\ reservations[r].key \in Keys
            /\ author[r] = reservations[r].owner
       /\ reservations[r].op \in Mutations \ {"create"} => reservations[r].context \in ContextIds
<1>1. /\ \A c \in ContextIds : WfC(c)
      /\ \A r \in ReservationIds : WfR(r)
  BY DEF WellFormed
<1>2. /\ now \in Nat /\ now + Tombstone \in Nat
      /\ contexts \in [ContextIds -> Entry]
  BY OptionsAssumption DEF TypeOK
<1>3. ASSUME NEW c \in ContextIds, Aged(contexts[c], contexts'[c])
      PROVE  WfC(c)'
  BY Zenon, <1>1, <1>2, <1>3, NoEntryFields DEF Aged
<1>4. ASSUME NEW q \in Requests, NEW r \in ReservationIds, Reserve(q, r)
      PROVE  WellFormed'
  <2>0. ReserveLeaves(q, r)
    BY <1>4, ReserveEffect DEF IInv
  <2>1. \A c \in ContextIds : WfC(c)'
    <3>1. ASSUME q.op \in InPlace PROVE WfC(q.context)'
      BY Zenon, <3>1, <1>4, <1>1, <2>0, RequestFields DEF SameContext, Mutable, InPlace, ReserveLeaves
    <3>2. QED
      BY Zenon, <3>1, <1>3, <1>4, <2>0 DEF ReserveLeaves
  <2>2. \A s \in ReservationIds : WfR(s)'
    <3>1. /\ \A s \in ReservationIds \ {r} : reservations'[s] = reservations[s] /\ author'[s] = author[s]
          /\ reservations'[r].op = q.op /\ reservations'[r].owner = q.owner
          /\ reservations'[r].key = q.key /\ reservations'[r].context = q.context /\ author'[r] = q.owner
      BY Zenon, <2>0 DEF ReserveLeaves
    <3>2. WfR(r)'
      BY <3>1, <1>4, RequestFields DEF Mutations
    <3>3. QED
      BY Zenon, <1>1, <3>1, <3>2
  <2>3. QED
    BY Zenon, <2>1, <2>2 DEF WellFormed
<1>5. ASSUME NEW r \in ReservationIds, NEW c \in ContextIds, Commit(r, c)
      PROVE  WellFormed'
  <2>0. CommitLeaves(r, c)
    BY <1>5, CommitEffect
  <2>1. \A d \in ContextIds : WfC(d)'
    <3>1. /\ \A d \in ContextIds \ {c} : contexts'[d] = contexts[d]
          /\ contexts'[c].state = "active" /\ contexts'[c].owner \in Owners
      BY Zenon, <2>0 DEF CommitLeaves
    <3>2. WfC(c)'
      BY <3>1
    <3>3. QED
      BY Zenon, <1>1, <3>1, <3>2
  <2>2. \A s \in ReservationIds : WfR(s)'
    <3>1. /\ \A s \in ReservationIds \ {r} : reservations'[s] = reservations[s]
          /\ reservations'[r] = NoReservation /\ author' = author
      BY Zenon, <2>0 DEF CommitLeaves
    <3>2. WfR(r)'
      BY <3>1, NoReservationFields DEF Mutations
    <3>3. QED
      BY Zenon, <1>1, <3>1, <3>2
  <2>3. QED
    BY Zenon, <2>1, <2>2 DEF WellFormed
<1>6. ASSUME NEW r \in ReservationIds, Abort(r)
      PROVE  WellFormed'
  <2>0. AbortLeaves(r)
    BY <1>6, AbortEffect
  <2>1. ASSUME NEW c \in ContextIds PROVE WfC(c)'
    <3>1. PICK e \in Entry :
            /\ Aged(e, contexts'[c])
            /\ \/ e = contexts[c] /\ contexts[c].reservation # r
               \/ /\ SameContext(contexts[c], e) /\ contexts[c].reservation = r
                  /\ e.reservation = None
      BY Zenon, <1>6, <2>0 DEF AbortLeaves
    <3>2. CASE e = contexts[c]
      BY <3>1, <3>2, <1>3
    <3>3. CASE SameContext(contexts[c], e) /\ contexts[c].reservation = r /\ e.reservation = None
      BY Zenon, <3>1, <3>3, <1>1, <1>2, NoEntryFields, IdsAssumption DEF SameContext, Aged
    <3>4. QED
      BY Zenon, <3>1, <3>2, <3>3
  <2>2. \A s \in ReservationIds : WfR(s)'
    BY Zenon, <1>1, <1>6, <2>0, NoReservationFields DEF Mutations, AbortLeaves
  <2>3. QED
    BY Zenon, <2>1, <2>2 DEF WellFormed
<1>7. ASSUME NEW o \in Owners, NEW c \in ContextIds, NEW v \in BaseVersions, NEW k \in Keys,
             Release(o, c, v, k)
      PROVE  WellFormed'
  <2>0. ReleaseLeaves(o, c, v, k)
    BY <1>7, ReleaseEffect DEF IInv
  <2>1. WfC(c)'
    BY Zenon, <1>2, <1>7, <2>0 DEF ReleaseLeaves
  <2>2. \A d \in ContextIds \ {c} : WfC(d)'
    BY Zenon, <1>3, <1>7, <2>0 DEF ReleaseLeaves
  <2>3. \A s \in ReservationIds : WfR(s)'
    BY Zenon, <1>1, <1>7, <2>0 DEF ReleaseLeaves
  <2>4. QED
    BY Zenon, <2>1, <2>2, <2>3 DEF WellFormed
<1>8. CASE Sweep
  <2>1. \A c \in ContextIds : WfC(c)'
    BY Zenon, <1>3, <1>8, SweepEffect
  <2>2. \A s \in ReservationIds : WfR(s)'
    BY Zenon, <1>1, <1>8, SweepEffect
  <2>3. QED
    BY Zenon, <2>1, <2>2 DEF WellFormed
<1>9. CASE Tick
  BY <1>1, <1>9 DEF Tick, WellFormed
<1>10. QED
  BY <1>4, <1>5, <1>6, <1>7, <1>8, <1>9 DEF Next

\* A sweep neither touches a context that is held nor takes a lock.
LEMMA HeldIsNotAged ==
  ASSUME NEW e \in Entry, NEW s, Aged(e, s), e.reservation # None => e.state = "active"
  PROVE  /\ e.reservation # None => s = e
         /\ s.reservation # None => s = e
BY NoEntryFields DEF Aged

\* An id reserve() hands out is not in use (context_store.py:470-486, a fresh uuid4).
LEMMA FreshReservation ==
  ASSUME IInv, NEW r \in ReservationIds, author[r] = None
  PROVE  reservations[r].op = "none"
BY Zenon, IdsAssumption DEF IInv, WellFormed

\* The lock of a running append or reset survives every step but its own end.
LEMMA MutationHoldsContextStep ==
  ASSUME IInv, Next
  PROVE  MutationHoldsContext'
<1>. DEFINE Holds(r) ==
       reservations[r].op \in InPlace =>
         /\ contexts[reservations[r].context].reservation = r
         /\ contexts[reservations[r].context].state = "active"
         /\ contexts[reservations[r].context].owner = reservations[r].owner
         /\ contexts[reservations[r].context].version = reservations[r].base_version
         /\ contexts[reservations[r].context].transcript = reservations[r].base_transcript
     Held(c) ==
       contexts[c].reservation # None =>
         /\ reservations[contexts[c].reservation].op \in InPlace
         /\ reservations[contexts[c].reservation].context = c
<1>1. /\ \A r \in ReservationIds : Holds(r)
      /\ \A c \in ContextIds : Held(c)
  BY Zenon DEF IInv, MutationHoldsContext
<1>2. /\ contexts \in [ContextIds -> Entry] /\ reservations \in [ReservationIds -> Reservation]
      /\ \A c \in ContextIds : contexts[c].reservation \in ReservationIds \union {None}
  BY Zenon DEF IInv, TypeOK, Entry
<1>3. \A c \in ContextIds : contexts[c].reservation # None => contexts[c].state = "active"
  BY DEF IInv, WellFormed
<1>4. \A r \in ReservationIds : reservations[r].op \in InPlace => reservations[r].context \in ContextIds
  BY DEF IInv, WellFormed, InPlace, Mutations
<1>5. ASSUME NEW c \in ContextIds, Aged(contexts[c], contexts'[c])
      PROVE  /\ contexts[c].reservation # None => contexts'[c] = contexts[c]
             /\ contexts'[c].reservation # None => contexts'[c] = contexts[c]
  BY <1>2, <1>3, <1>5, HeldIsNotAged
<1>6. None \notin ReservationIds /\ "none" \notin InPlace
  BY IdsAssumption DEF InPlace
<1>7. SUFFICES /\ \A r \in ReservationIds : Holds(r)'
               /\ \A c \in ContextIds : Held(c)'
  BY Zenon DEF MutationHoldsContext
<1>8. ASSUME NEW q \in Requests, NEW r \in ReservationIds, Reserve(q, r)
      PROVE  (\A s \in ReservationIds : Holds(s)') /\ (\A c \in ContextIds : Held(c)')
  <2>0. ReserveLeaves(q, r)
    BY <1>8, ReserveEffect DEF IInv
  <2>1. TypeOK
    BY DEF IInv
  <2>2. reservations[r].op = "none"
    BY Zenon, <2>1, <1>8, <2>0, FreshReservation DEF ReserveLeaves
  <2>3. q.op \in InPlace => /\ q.context \in ContextIds /\ contexts[q.context].reservation = None
                            /\ q.op # "create"
    BY Zenon, <2>1, <1>8, <2>0, RequestFields DEF Mutable, InPlace, ReserveLeaves
  <2>4. Holds(r)'
    BY Zenon, <2>1, <2>3, <1>8, <2>0 DEF Mutable, SameContext, ReserveLeaves
  <2>5. ASSUME NEW s \in ReservationIds, s # r PROVE Holds(s)'
    <3>1. reservations'[s] = reservations[s]
      BY Zenon, <2>1, <2>5, <1>8, <2>0 DEF ReserveLeaves
    <3>2. ASSUME reservations[s].op \in InPlace
          PROVE  contexts'[reservations[s].context] = contexts[reservations[s].context]
      <4>1. contexts[reservations[s].context].reservation = s /\ reservations[s].context \in ContextIds
        BY <3>2, <1>1, <1>4
      <4>2. Aged(contexts[reservations[s].context], contexts'[reservations[s].context])
        <5>1. ~(q.op \in InPlace /\ reservations[s].context = q.context)
          BY <4>1, <2>3, <1>6
        <5>2. QED
          BY Zenon, <5>1, <4>1, <2>0 DEF ReserveLeaves
      <4>3. QED
        BY <4>1, <4>2, <1>5, <1>6
    <3>3. QED
      BY <3>1, <3>2, <1>1
  <2>6. ASSUME NEW c \in ContextIds PROVE Held(c)'
    <3>1. CASE q.op \in InPlace /\ c = q.context
      BY Zenon, <3>1, <2>1, <1>8, <2>0 DEF ReserveLeaves
    <3>2. CASE Aged(contexts[c], contexts'[c])
      <4>1. contexts'[c].reservation # None => contexts'[c] = contexts[c]
        BY <3>2, <1>5
      <4>2. contexts[c].reservation # None => contexts[c].reservation # r
        BY <2>2, <1>1, <1>6
      <4>3. contexts[c].reservation # None =>
              reservations'[contexts[c].reservation] = reservations[contexts[c].reservation]
        BY Zenon, <4>2, <1>2, <2>0 DEF ReserveLeaves
      <4>4. QED
        BY <4>1, <4>3, <1>1
    <3>3. QED
      BY Zenon, <3>1, <3>2, <2>1, <1>8, <2>0 DEF ReserveLeaves
  <2>7. QED
    BY Zenon, <2>4, <2>5, <2>6
<1>9. ASSUME NEW r \in ReservationIds, NEW c \in ContextIds, Commit(r, c)
      PROVE  (\A s \in ReservationIds : Holds(s)') /\ (\A d \in ContextIds : Held(d)')
  <2>0. CommitLeaves(r, c)
    BY <1>9, CommitEffect
  <2>1. contexts[c].reservation \in {None, r}
    BY Zenon, <1>9, <2>0, NoEntryFields DEF CommitLeaves
  <2>2. ASSUME NEW s \in ReservationIds, s # r PROVE Holds(s)'
    <3>1. reservations'[s] = reservations[s]
      BY Zenon, <2>2, <2>0 DEF CommitLeaves
    <3>2. ASSUME reservations[s].op \in InPlace
          PROVE  contexts'[reservations[s].context] = contexts[reservations[s].context]
      <4>1. reservations[s].context # c /\ reservations[s].context \in ContextIds
        BY <3>2, <2>1, <2>2, <1>1, <1>4, <1>6
      <4>2. QED
        BY Zenon, <4>1, <2>0 DEF CommitLeaves
    <3>3. QED
      BY <3>1, <3>2, <1>1
  <2>3. Holds(r)'
    BY Zenon, <1>6, <1>9, <2>0, NoReservationFields DEF CommitLeaves
  <2>4. Held(c)'
    BY Zenon, <1>9, <2>0 DEF CommitLeaves
  <2>5. ASSUME NEW d \in ContextIds, d # c PROVE Held(d)'
    <3>1. contexts'[d] = contexts[d]
      BY Zenon, <2>5, <1>9, <2>0 DEF CommitLeaves
    <3>2. contexts[d].reservation # r
      <4>1. ASSUME contexts[d].reservation = r PROVE FALSE
        <5>1. reservations[r].op \in InPlace /\ reservations[r].context = d
          BY <4>1, <1>1, <1>6
        <5>2. reservations[r].op \notin Allocating
          BY <5>1 DEF Allocating, InPlace
        <5>3. QED
          BY Zenon, <5>1, <5>2, <2>5, <1>9, <2>0 DEF CommitLeaves
      <4>2. QED
        BY <4>1
    <3>3. QED
      BY <3>1, <3>2, <1>1, <1>2, <1>9, <2>0 DEF CommitLeaves
  <2>6. QED
    BY Zenon, <2>2, <2>3, <2>4, <2>5
<1>10. ASSUME NEW r \in ReservationIds, Abort(r)
       PROVE  (\A s \in ReservationIds : Holds(s)') /\ (\A c \in ContextIds : Held(c)')
  <2>0. AbortLeaves(r)
    BY <1>10, AbortEffect
  <2>1. ASSUME NEW c \in ContextIds
        PROVE  /\ contexts[c].reservation \notin {None, r} => contexts'[c] = contexts[c]
               /\ contexts'[c].reservation # None =>
                    contexts'[c] = contexts[c] /\ contexts[c].reservation # r
    <3>1. PICK e \in Entry :
            /\ Aged(e, contexts'[c])
            /\ \/ e = contexts[c] /\ contexts[c].reservation # r
               \/ /\ SameContext(contexts[c], e) /\ contexts[c].reservation = r
                  /\ e.reservation = None
      BY Zenon, <1>10, <2>0 DEF AbortLeaves
    <3>2. QED
      BY Zenon, <3>1, <1>3, HeldIsNotAged
  <2>2. ASSUME NEW s \in ReservationIds, s # r PROVE Holds(s)'
    <3>1. reservations'[s] = reservations[s]
      BY Zenon, <2>2, <2>0 DEF AbortLeaves
    <3>2. reservations[s].op \in InPlace =>
            contexts'[reservations[s].context] = contexts[reservations[s].context]
      BY <2>1, <2>2, <1>1, <1>4, <1>6
    <3>3. QED
      BY <3>1, <3>2, <1>1
  <2>3. Holds(r)'
    BY Zenon, <1>6, <1>10, <2>0, NoReservationFields DEF AbortLeaves
  <2>4. ASSUME NEW c \in ContextIds PROVE Held(c)'
    <3>1. contexts'[c].reservation # None =>
            /\ contexts'[c] = contexts[c]
            /\ contexts[c].reservation \in ReservationIds \ {r}
      BY <2>1, <1>2
    <3>2. \A s \in ReservationIds \ {r} : reservations'[s] = reservations[s]
      BY Zenon, <2>0 DEF AbortLeaves
    <3>3. QED
      BY <3>1, <3>2, <1>1
  <2>5. QED
    BY Zenon, <2>2, <2>3, <2>4
<1>11. ASSUME NEW o \in Owners, NEW c \in ContextIds, NEW v \in BaseVersions, NEW k \in Keys,
              Release(o, c, v, k)
       PROVE  (\A s \in ReservationIds : Holds(s)') /\ (\A d \in ContextIds : Held(d)')
  <2>0. ReleaseLeaves(o, c, v, k)
    BY <1>11, ReleaseEffect DEF IInv
  <2>1. /\ \A d \in ContextIds \ {c} : Aged(contexts[d], contexts'[d])
        /\ contexts[c].reservation = None /\ contexts'[c].reservation = None
        /\ reservations' = reservations
    BY Zenon, <1>11, <2>0 DEF IInv, Mutable, ReleaseLeaves
  <2>2. ASSUME NEW s \in ReservationIds PROVE Holds(s)'
    BY <2>1, <1>1, <1>4, <1>5, <1>6
  <2>3. ASSUME NEW d \in ContextIds PROVE Held(d)'
    BY Zenon, <2>1, <1>1, <1>5
  <2>4. QED
    BY Zenon, <2>2, <2>3
<1>12. CASE Sweep
  <2>1. /\ \A c \in ContextIds : Aged(contexts[c], contexts'[c])
        /\ reservations' = reservations
    BY <1>12, SweepEffect DEF IInv
  <2>2. ASSUME NEW s \in ReservationIds PROVE Holds(s)'
    BY <2>1, <1>1, <1>4, <1>5, <1>6
  <2>3. ASSUME NEW c \in ContextIds PROVE Held(c)'
    BY Zenon, <2>1, <1>1, <1>5
  <2>4. QED
    BY Zenon, <2>2, <2>3
<1>13. CASE Tick
  BY Zenon, <1>1, <1>13 DEF Tick
<1>14. QED
  BY Zenon, <1>8, <1>9, <1>10, <1>11, <1>12, <1>13 DEF Next

\* A key is marked busy, and unmarked, together with its reservation.
LEMMA BusyMeansRunningStep ==
  ASSUME IInv, Next
  PROVE  BusyMeansRunning'
<1>. DEFINE Key(r) == Complete(reservations[r].owner, reservations[r].key)
     Running(r) == reservations[r].op # "none" =>
                     idempotency[Key(r)].state = "busy" /\ idempotency[Key(r)].reservation = r
     Busy(o, k) == idempotency[Complete(o, k)].state = "busy" =>
                     LET r == idempotency[Complete(o, k)].reservation
                     IN  /\ r # None /\ reservations[r].op # "none"
                         /\ reservations[r].owner = o /\ reservations[r].key = k
<1>1. /\ \A r \in ReservationIds : Running(r)
      /\ \A o \in Owners, k \in Keys : Busy(o, k)
  BY DEF IInv, BusyMeansRunning
<1>2. \A r \in ReservationIds : reservations[r].op # "none" =>
        /\ reservations[r].owner \in Owners /\ reservations[r].key \in Keys
        /\ Key(r) \in IdemKeys
  BY KeysAreIdemKeys DEF IInv, WellFormed
<1>3. /\ TypeOK /\ now \in Nat
      /\ \A i \in IdemKeys : idempotency[i].reservation \in ReservationIds \union {None}
  BY DEF IInv, TypeOK, Outcome
<1>4. \A i \in IdemKeys : AgedOutcome(idempotency[i], idempotency'[i]) /\
        (idempotency[i].state = "busy" \/ idempotency'[i].state = "busy") =>
          idempotency'[i] = idempotency[i]
  BY Zenon, <1>3, OutcomeFields DEF AgedOutcome
<1>5. SUFFICES /\ \A r \in ReservationIds : Running(r)'
               /\ \A o \in Owners, k \in Keys : Busy(o, k)'
  BY DEF BusyMeansRunning
<1>6. ASSUME NEW q \in Requests, NEW r \in ReservationIds, Reserve(q, r)
      PROVE  (\A s \in ReservationIds : Running(s)') /\ (\A o \in Owners, k \in Keys : Busy(o, k)')
  <2>1. /\ q.owner \in Owners /\ q.key \in Keys /\ q.op # "none"
        /\ Complete(q.owner, q.key) \in IdemKeys
    BY Zenon, RequestFields, KeysAreIdemKeys DEF Mutations
  <2>0. /\ author[r] = None
        /\ idempotency[Complete(q.owner, q.key)].state # "busy"
        /\ idempotency'[Complete(q.owner, q.key)] = BusyOutcome(r)
        /\ \A i \in IdemKeys : i = Complete(q.owner, q.key) \/ AgedOutcome(idempotency[i], idempotency'[i])
        /\ \A s \in ReservationIds \ {r} : reservations'[s] = reservations[s]
        /\ reservations'[r].op = q.op /\ reservations'[r].owner = q.owner
        /\ reservations'[r].key = q.key
    <3>1. ReserveLeaves(q, r)
      BY <1>6, ReserveEffect DEF IInv
    <3>2. QED
      BY Zenon, <3>1 DEF ReserveLeaves
  <2>2. reservations[r].op = "none"
    BY <2>0, FreshReservation
  <2>3. Running(r)'
    BY <2>0, <1>3, OutcomeFields
  <2>4. ASSUME NEW s \in ReservationIds, s # r PROVE Running(s)'
    <3>1. reservations'[s] = reservations[s]
      BY Zenon, <2>4, <2>0
    <3>2. ASSUME reservations[s].op # "none" PROVE idempotency'[Key(s)] = idempotency[Key(s)]
      <4>1. Key(s) # Complete(q.owner, q.key)
        BY Zenon, <3>2, <1>1, <2>0
      <4>2. AgedOutcome(idempotency[Key(s)], idempotency'[Key(s)])
        BY Zenon, <3>2, <4>1, <1>2, <2>0
      <4>3. QED
        BY Zenon, <3>2, <4>2, <1>1, <1>2, <1>4
    <3>3. QED
      BY <3>1, <3>2, <1>1
  <2>5. ASSUME NEW o \in Owners, NEW k \in Keys PROVE Busy(o, k)'
    <3>1. CASE Complete(o, k) = Complete(q.owner, q.key)
      <4>1. o = q.owner /\ k = q.key
        BY <3>1, <2>1, KeysAreIdemKeys
      <4>2. QED
        <5>1. idempotency'[Complete(o, k)].reservation = r /\ r # None
          BY <4>1, <2>0, <1>3, OutcomeFields, IdsAssumption
        <5>2. QED
          BY Zenon, <5>1, <4>1, <2>0, <2>1
    <3>2. CASE Complete(o, k) # Complete(q.owner, q.key)
      <4>1. Complete(o, k) \in IdemKeys
        BY KeysAreIdemKeys
      <4>2. AgedOutcome(idempotency[Complete(o, k)], idempotency'[Complete(o, k)])
        BY Zenon, <3>2, <4>1, <2>0
      <4>3. idempotency'[Complete(o, k)].state = "busy" =>
              idempotency'[Complete(o, k)] = idempotency[Complete(o, k)]
        BY <4>1, <4>2, <1>4
      <4>4. idempotency[Complete(o, k)].state = "busy" =>
              idempotency[Complete(o, k)].reservation \in ReservationIds \ {r}
        BY <4>1, <2>2, <1>1, <1>3
      <4>5. QED
        <5>. DEFINE t == idempotency[Complete(o, k)].reservation
        <5>1. idempotency[Complete(o, k)].state = "busy" => reservations'[t] = reservations[t]
          BY Zenon, <4>4, <2>0
        <5>2. Busy(o, k)
          BY Zenon, <1>1
        <5>3. QED
          BY Zenon, <5>1, <5>2, <4>3
    <3>3. QED
      BY Zenon, <3>1, <3>2
  <2>6. QED
    BY Zenon, <2>3, <2>4, <2>5
<1>7. ASSUME NEW r \in ReservationIds, reservations[r].op # "none",
             \A s \in ReservationIds \ {r} : reservations'[s] = reservations[s],
             reservations'[r] = NoReservation,
             idempotency'[Key(r)].state # "busy",
             \A i \in IdemKeys \ {Key(r)} : AgedOutcome(idempotency[i], idempotency'[i])
                                           \/ idempotency'[i] = idempotency[i]
      PROVE  (\A s \in ReservationIds : Running(s)') /\ (\A o \in Owners, k \in Keys : Busy(o, k)')
  <2>1. Running(r)'
    BY Zenon, <1>7, NoReservationFields
  <2>2. ASSUME NEW s \in ReservationIds, s # r PROVE Running(s)'
    <3>1. reservations'[s] = reservations[s]
      BY <2>2, <1>7
    <3>2. ASSUME reservations[s].op # "none" PROVE idempotency'[Key(s)] = idempotency[Key(s)]
      <4>1. Key(s) # Key(r) /\ Key(s) \in IdemKeys /\ idempotency[Key(s)].state = "busy"
        BY <3>2, <2>2, <1>1, <1>2, <1>7
      <4>2. QED
        BY Zenon, <4>1, <1>4, <1>7
    <3>3. QED
      BY <3>1, <3>2, <1>1
  <2>3. ASSUME NEW o \in Owners, NEW k \in Keys PROVE Busy(o, k)'
    <3>1. CASE Complete(o, k) = Key(r)
      BY Zenon, <3>1, <1>7
    <3>2. CASE Complete(o, k) # Key(r)
      <4>1. Complete(o, k) \in IdemKeys
        BY KeysAreIdemKeys
      <4>2. idempotency'[Complete(o, k)].state = "busy" =>
              idempotency'[Complete(o, k)] = idempotency[Complete(o, k)]
        BY Zenon, <3>2, <4>1, <1>4, <1>7
      <4>3. idempotency[Complete(o, k)].state = "busy" =>
              idempotency[Complete(o, k)].reservation \in ReservationIds \ {r}
        BY <3>2, <4>1, <1>1, <1>3
      <4>4. QED
        <5>. DEFINE t == idempotency[Complete(o, k)].reservation
        <5>1. idempotency[Complete(o, k)].state = "busy" => reservations'[t] = reservations[t]
          BY Zenon, <4>3, <1>7
        <5>2. Busy(o, k)
          BY Zenon, <1>1
        <5>3. QED
          BY Zenon, <5>1, <5>2, <4>2
    <3>3. QED
      BY Zenon, <3>1, <3>2
  <2>4. QED
    BY Zenon, <2>1, <2>2, <2>3
<1>8. ASSUME NEW r \in ReservationIds, NEW c \in ContextIds, Commit(r, c)
      PROVE  (\A s \in ReservationIds : Running(s)') /\ (\A o \in Owners, k \in Keys : Busy(o, k)')
  <2>0. CommitLeaves(r, c)
    BY <1>8, CommitEffect
  <2>1. contexts'[c].version \in Nat
    BY Zenon, <1>8, <2>0 DEF TypeOK, Entry, CommitLeaves
  <2>2. idempotency'[Key(r)].state # "busy"
    BY Zenon, <2>1, <1>3, <1>8, <2>0, OutcomeFields DEF CommitLeaves
  <2>3. QED
    BY Zenon, <2>2, <1>7, <1>8, <2>0 DEF CommitLeaves
<1>9. ASSUME NEW r \in ReservationIds, Abort(r)
      PROVE  (\A s \in ReservationIds : Running(s)') /\ (\A o \in Owners, k \in Keys : Busy(o, k)')
  <2>1. AbortLeaves(r)
    BY <1>9, AbortEffect
  <2>2. QED
    BY Zenon, <1>7, <1>9, <2>1 DEF AbortLeaves
<1>10. ASSUME reservations' = reservations,
              \A o \in Owners, k \in Keys :
                AgedOutcome(idempotency[Complete(o, k)], idempotency'[Complete(o, k)])
                \/ idempotency'[Complete(o, k)] = idempotency[Complete(o, k)]
       PROVE  (\A s \in ReservationIds : Running(s)') /\ (\A o \in Owners, k \in Keys : Busy(o, k)')
  <2>1. \A o \in Owners, k \in Keys :
          /\ Complete(o, k) \in IdemKeys
          /\ idempotency[Complete(o, k)].state = "busy" \/ idempotency'[Complete(o, k)].state = "busy"
               => idempotency'[Complete(o, k)] = idempotency[Complete(o, k)]
    BY Zenon, <1>4, <1>10, KeysAreIdemKeys
  <2>2. ASSUME NEW s \in ReservationIds PROVE Running(s)'
    <3>1. reservations[s].op # "none" => idempotency'[Key(s)] = idempotency[Key(s)]
      BY <2>1, <1>1, <1>2
    <3>2. QED
      BY Zenon, <3>1, <1>1, <1>10
  <2>3. ASSUME NEW o \in Owners, NEW k \in Keys PROVE Busy(o, k)'
    <3>1. Busy(o, k)
      BY Zenon, <1>1
    <3>2. QED
      BY Zenon, <3>1, <2>1, <1>10
  <2>4. QED
    BY Zenon, <2>2, <2>3
<1>11. ASSUME NEW o \in Owners, NEW c \in ContextIds, NEW v \in BaseVersions, NEW k \in Keys,
              Release(o, c, v, k)
       PROVE  (\A s \in ReservationIds : Running(s)') /\ (\A p \in Owners, l \in Keys : Busy(p, l)')
  <2>0. ReleaseLeaves(o, c, v, k)
    BY <1>11, ReleaseEffect DEF IInv
  <2>1. /\ reservations' = reservations
        /\ \A i \in IdemKeys \ {OfRelease(o, k)} : AgedOutcome(idempotency[i], idempotency'[i])
    BY Zenon, <1>3, <1>11, <2>0 DEF ReleaseLeaves
  <2>2. \A p \in Owners, l \in Keys : Complete(p, l) \in IdemKeys \ {OfRelease(o, k)}
    BY KeysAreIdemKeys
  <2>3. QED
    BY Zenon, <2>1, <2>2, <1>10
<1>12. CASE Sweep
  <2>1. /\ reservations' = reservations
        /\ \A i \in IdemKeys : AgedOutcome(idempotency[i], idempotency'[i])
    BY Zenon, <1>3, <1>12, SweepEffect
  <2>2. QED
    BY Zenon, <2>1, <1>10, KeysAreIdemKeys
<1>13. CASE Tick
  BY Zenon, <1>10, <1>13 DEF Tick
<1>14. QED
  BY Zenon, <1>6, <1>8, <1>9, <1>11, <1>12, <1>13 DEF Next
=============================================================================
