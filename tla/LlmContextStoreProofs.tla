----------------------- MODULE LlmContextStoreProofs -----------------------
(***************************************************************************)
(* Proofs about LlmContextStore, for every choice of owners, keys, ids,    *)
(* quotas and time-outs that satisfies the module's assumptions.           *)
(***************************************************************************)
EXTENDS LlmContextLocks, FiniteSetTheorems

(* Transcripts stay with their owner, and receipts resolve. *)

\* Transcripts grow by the committing reservation only, whose author is the owner.
LEMMA OwnTurnsOnlyStep ==
  ASSUME IInv, Next
  PROVE  OwnTurnsOnly'
<1>. DEFINE Own(t, o) == \A i \in 1..Len(t) : author[t[i]] = o
<1>1. /\ \A c \in ContextIds : Own(contexts[c].transcript, contexts[c].owner)
      /\ \A r \in ReservationIds : Own(reservations[r].base_transcript, reservations[r].owner)
  BY DEF IInv, OwnTurnsOnly
<1>2. /\ TypeOK
      /\ \A c \in ContextIds : contexts[c].transcript \in Seq(ReservationIds)
      /\ \A r \in ReservationIds : reservations[r].base_transcript \in Seq(ReservationIds)
  BY Zenon DEF IInv, TypeOK, Entry, Reservation
<1>3. SUFFICES /\ \A c \in ContextIds : Own(contexts[c].transcript, contexts[c].owner)'
               /\ \A r \in ReservationIds : Own(reservations[r].base_transcript, reservations[r].owner)'
  BY DEF OwnTurnsOnly
<1>4. \A o : Own(<< >>, o) /\ Own(<< >>, o)'
  OBVIOUS
<1>5. ASSUME NEW c \in ContextIds, author' = author,
             Aged(contexts[c], contexts'[c])
      PROVE  Own(contexts[c].transcript, contexts[c].owner)'
  BY <1>1, <1>4, <1>5, NoEntryFields DEF Aged
<1>6. ASSUME NEW q \in Requests, NEW r \in ReservationIds, Reserve(q, r)
      PROVE  /\ \A c \in ContextIds : Own(contexts[c].transcript, contexts[c].owner)'
             /\ \A s \in ReservationIds : Own(reservations[s].base_transcript, reservations[s].owner)'
  <2>0. ReserveLeaves(q, r)
    BY <1>6, ReserveEffect DEF IInv
  <2>1. ASSUME NEW t \in Seq(ReservationIds), NEW o \in Owners, Own(t, o)
        PROVE  \A i \in 1..Len(t) : author'[t[i]] = o
    <3>1. \A i \in 1..Len(t) : t[i] \in ReservationIds /\ t[i] # r
      BY <2>1, <1>2, <1>6, <2>0, IdsAssumption DEF ReserveLeaves
    <3>2. QED
      BY Zenon, <3>1, <2>1, <1>2, <1>6, <2>0 DEF ReserveLeaves
  <2>2. ASSUME NEW c \in ContextIds PROVE Own(contexts[c].transcript, contexts[c].owner)'
    <3>1. \/ contexts'[c] = NoEntry
          \/ /\ contexts'[c].transcript = contexts[c].transcript 
             /\ contexts'[c].owner = contexts[c].owner /\ contexts[c].state # "absent"
          \/ contexts'[c] = contexts[c]
      BY Zenon, <1>2, <1>6, <2>0, RequestFields DEF SameContext, Aged, Mutable, InPlace, ReserveLeaves
    <3>2. contexts[c].state # "absent" => contexts[c].owner \in Owners
      BY DEF IInv, WellFormed
    <3>3. contexts[c].state = "absent" => contexts[c] = NoEntry
      BY DEF IInv, WellFormed
    <3>4. CASE contexts'[c] = NoEntry
      BY <3>4, <1>4, NoEntryFields
    <3>5. CASE /\ contexts'[c].transcript = contexts[c].transcript 
               /\ contexts'[c].owner = contexts[c].owner /\ contexts[c].state # "absent"
      BY <3>5, <3>2, <2>1, <1>1, <1>2
    <3>6. QED
      BY <3>1, <3>3, <3>4, <3>5
  <2>3. ASSUME NEW s \in ReservationIds, s # r
        PROVE  Own(reservations[s].base_transcript, reservations[s].owner)'
    <3>1. reservations'[s] = reservations[s]
      BY <2>3, <1>2, <1>6, <2>0 DEF ReserveLeaves
    <3>2. CASE reservations[s].op = "none"
      <4>1. reservations[s].base_transcript = << >>
        BY <3>2, NoReservationFields DEF IInv, WellFormed
      <4>2. QED
        BY <3>1, <4>1, <1>4
    <3>3. CASE reservations[s].op # "none"
      <4>1. reservations[s].owner \in Owners
        BY <3>3 DEF IInv, WellFormed
      <4>2. Own(reservations[s].base_transcript, reservations[s].owner)
        BY <1>1
      <4>3. \A i \in 1..Len(reservations[s].base_transcript) :
              author'[reservations[s].base_transcript[i]] = reservations[s].owner
        BY Zenon, <4>1, <4>2, <2>1, <1>2
      <4>4. QED
        BY <3>1, <4>3
    <3>4. QED
      BY <3>2, <3>3
  <2>4. Own(reservations[r].base_transcript, reservations[r].owner)'
    <3>1. CASE q.op = "create"
      BY <3>1, <1>2, <1>6, <2>0 DEF ReserveLeaves
    <3>2. CASE q.op # "create"
      <4>1. /\ q.context \in ContextIds /\ q.owner \in Owners /\ contexts[q.context].owner = q.owner
            /\ reservations'[r].base_transcript = contexts[q.context].transcript
            /\ reservations'[r].owner = q.owner
        BY <3>2, <1>2, <1>6, <2>0, RequestFields DEF Mutable, ReserveLeaves
      <4>2. Own(contexts[q.context].transcript, q.owner)
        BY <4>1, <1>1
      <4>3. QED
        BY Zenon, <4>1, <4>2, <2>1, <1>2
    <3>3. QED
      BY <3>1, <3>2
  <2>5. QED
    BY <2>2, <2>3, <2>4
<1>7. ASSUME NEW r \in ReservationIds, NEW c \in ContextIds, Commit(r, c)
      PROVE  /\ \A d \in ContextIds : Own(contexts[d].transcript, contexts[d].owner)'
             /\ \A s \in ReservationIds : Own(reservations[s].base_transcript, reservations[s].owner)'
  <2>0. CommitLeaves(r, c)
    BY <1>7, CommitEffect
  <2>1. /\ author' = author /\ author[r] = reservations[r].owner
        /\ reservations[r].op \in Mutations
    BY <1>2, <1>7, <2>0 DEF IInv, WellFormed, TypeOK, Reservation, CommitLeaves
  <2>2. ASSUME NEW t \in Seq(ReservationIds), Own(t, reservations[r].owner)
        PROVE  Own(Append(t, r), reservations[r].owner)
    <3>1. /\ Len(Append(t, r)) = Len(t) + 1 /\ Append(t, r)[Len(t) + 1] = r
          /\ \A i \in 1..Len(t) : Append(t, r)[i] = t[i]
          /\ Len(t) \in Nat
      OBVIOUS
    <3>2. ASSUME NEW i \in 1..Len(Append(t, r)) PROVE author[Append(t, r)[i]] = reservations[r].owner
      BY <3>1, <2>1, <2>2
    <3>3. QED
      BY <3>2
  <2>3. Own(contexts[c].transcript, contexts[c].owner)'
    <3>1. contexts'[c].owner = reservations[r].owner
      BY Zenon, <1>7, <2>0 DEF CommitLeaves
    <3>2. CASE reservations[r].op = "create"
      BY <3>1, <3>2, <2>1, <2>2, <1>4, <1>7, <2>0 DEF CommitLeaves
    <3>3. CASE reservations[r].op = "fork"
      <4>1. contexts'[c].transcript = Append(reservations[r].base_transcript, r)
        BY Zenon, <3>3, <1>7, <2>0 DEF CommitLeaves
      <4>2. Own(Append(reservations[r].base_transcript, r), reservations[r].owner)
        BY Zenon, <2>2, <1>1, <1>2
      <4>3. QED
        BY Zenon, <4>1, <4>2, <3>1, <2>1
    <3>4. CASE reservations[r].op = "append"
      <4>1. contexts[c].owner = reservations[r].owner
        BY <3>4, <1>7, <2>0 DEF Allocating, CommitLeaves
      <4>2. Own(contexts[c].transcript, reservations[r].owner)
        BY <4>1, <1>1
      <4>3. contexts'[c].transcript = Append(contexts[c].transcript, r)
        BY <3>4, <1>7, <2>0 DEF CommitLeaves
      <4>4. Own(Append(contexts[c].transcript, r), reservations[r].owner)
        BY Zenon, <4>2, <2>2, <1>2
      <4>5. QED
        BY Zenon, <4>3, <4>4, <3>1, <2>1
    <3>5. CASE reservations[r].op = "reset"
      <4>1. contexts'[c].transcript = <<r>>
        BY <3>5, <1>7, <2>0 DEF CommitLeaves
      <4>2. QED
        BY <4>1, <3>1, <2>1
    <3>6. QED
      BY Zenon, <3>2, <3>3, <3>4, <3>5, <2>1 DEF Mutations
  <2>4. ASSUME NEW d \in ContextIds, d # c PROVE Own(contexts[d].transcript, contexts[d].owner)'
    <3>1. contexts'[d] = contexts[d]
      BY Zenon, <2>4, <1>7, <2>0 DEF CommitLeaves
    <3>2. QED
      BY <3>1, <2>1, <1>1
  <2>5. ASSUME NEW s \in ReservationIds
        PROVE  Own(reservations[s].base_transcript, reservations[s].owner)'
    <3>1. reservations'[s] \in {reservations[s], NoReservation}
      BY <1>7, <2>0 DEF CommitLeaves
    <3>2. QED
      BY <3>1, <2>1, <1>1, NoReservationFields
  <2>6. QED
    BY <2>3, <2>4, <2>5
<1>8. ASSUME NEW r \in ReservationIds, Abort(r)
      PROVE  /\ \A c \in ContextIds : Own(contexts[c].transcript, contexts[c].owner)'
             /\ \A s \in ReservationIds : Own(reservations[s].base_transcript, reservations[s].owner)'
  <2>0. AbortLeaves(r)
    BY <1>8, AbortEffect
  <2>1. ASSUME NEW c \in ContextIds PROVE Own(contexts[c].transcript, contexts[c].owner)'
    <3>1. \/ contexts'[c] = NoEntry
          \/ /\ contexts'[c].transcript = contexts[c].transcript
             /\ contexts'[c].owner = contexts[c].owner
      BY <1>8, <2>0 DEF SameContext, Aged, AbortLeaves
    <3>2. QED
      BY <3>1, <1>1, <1>8, <2>0, NoEntryFields DEF AbortLeaves
  <2>2. QED
    BY <2>1, <1>1, <1>8, <2>0, NoReservationFields DEF AbortLeaves
<1>9. ASSUME NEW o \in Owners, NEW c \in ContextIds, NEW v \in BaseVersions, NEW k \in Keys,
             Release(o, c, v, k)
      PROVE  /\ \A d \in ContextIds : Own(contexts[d].transcript, contexts[d].owner)'
             /\ \A s \in ReservationIds : Own(reservations[s].base_transcript, reservations[s].owner)'
  <2>0. ReleaseLeaves(o, c, v, k)
    BY <1>9, ReleaseEffect DEF IInv
  <2>1. /\ contexts'[c].transcript = contexts[c].transcript /\ contexts'[c].owner = contexts[c].owner
        /\ reservations' = reservations /\ author' = author
        /\ \A d \in ContextIds \ {c} : Aged(contexts[d], contexts'[d])
    BY <1>2, <1>9, <2>0 DEF Mutable, ReleaseLeaves
  <2>2. QED
    BY <2>1, <1>1, <1>5
<1>10. CASE Sweep
  <2>1. /\ reservations' = reservations /\ author' = author
        /\ \A d \in ContextIds : Aged(contexts[d], contexts'[d])
    BY Zenon, <1>2, <1>10, SweepEffect
  <2>2. QED
    BY Zenon, <2>1, <1>1, <1>5
<1>11. CASE Tick
  BY <1>1, <1>11 DEF Tick
<1>12. QED
  BY Zenon, <1>6, <1>7, <1>8, <1>9, <1>10, <1>11 DEF Next

\* Outcomes are forgotten no later than the context they name.
LEMMA ReceiptStep ==
  ASSUME IInv, Next
  PROVE  RetentionOrdered' /\ ReceiptResolvable'
<1>. DEFINE Ordered(i) ==
       /\ idempotency[i].retain_until <= now + IdemTtl
       /\ idempotency[i].state = "completed" =>
            /\ idempotency[i].context \in ContextIds
            /\ IdemTtl <= Tombstone =>
                 (contexts[idempotency[i].context].state \in {"expired", "released"} =>
                    idempotency[i].retain_until <= contexts[idempotency[i].context].tombstone_until)
     Resolvable(i) ==
       IdemTtl <= Tombstone /\ idempotency[i].state = "completed" =>
         /\ contexts[idempotency[i].context].state # "absent"
         /\ contexts[idempotency[i].context].owner = i[1]
         /\ contexts[idempotency[i].context].version >= idempotency[i].version
<1>1. \A i \in IdemKeys : Ordered(i) /\ Resolvable(i)
  BY DEF IInv, RetentionOrdered, ReceiptResolvable
<1>2. SUFFICES \A i \in IdemKeys : Ordered(i)' /\ Resolvable(i)'
  BY DEF RetentionOrdered, ReceiptResolvable
<1>3. /\ TypeOK /\ now \in Nat /\ IdemTtl \in Nat /\ Tombstone \in Nat
      /\ \A c \in ContextIds : /\ contexts[c].version \in Nat
                               /\ contexts[c].tombstone_until \in Int
      /\ \A i \in IdemKeys : idempotency[i].retain_until \in Nat /\ idempotency[i].version \in Nat
      /\ \A c \in ContextIds : contexts[c].state = "active" \/ contexts[c].state = "absent"
                                 \/ contexts[c].state \in {"expired", "released"}
  BY OptionsAssumption DEF IInv, TypeOK, Entry, Outcome, NoTime
\* A swept outcome of a swept context.
<1>4. ASSUME now' = now, NEW i \in IdemKeys, AgedOutcome(idempotency[i], idempotency'[i]),
             idempotency[i].state = "completed" =>
               Aged(contexts[idempotency[i].context], contexts'[idempotency[i].context])
      PROVE  Ordered(i)' /\ Resolvable(i)'
  <2>1. CASE idempotency'[i] = NoOutcome
    BY <2>1, <1>3, <1>4, OutcomeFields
  <2>2. CASE idempotency'[i] = idempotency[i] /\ idempotency[i].state # "completed"
    BY Zenon, <2>2, <1>1, <1>4
  <2>3. CASE /\ idempotency'[i] = idempotency[i] /\ idempotency[i].state = "completed"
             /\ idempotency[i].retain_until > now
    <3>. DEFINE c == idempotency[i].context
    <3>1. c \in ContextIds /\ Aged(contexts[c], contexts'[c])
      BY Zenon, <2>3, <1>1, <1>4
    <3>2. CASE contexts'[c] = contexts[c]
      BY Zenon, <3>2, <2>3, <1>1, <1>4
    <3>3. CASE /\ contexts'[c].state = "expired" /\ contexts'[c].owner = contexts[c].owner
               /\ contexts'[c].version = contexts[c].version
               /\ contexts'[c].tombstone_until = now + Tombstone
      <4>1. Ordered(i) /\ Resolvable(i)
        BY Zenon, <1>1
      <4>2. Ordered(i)'
        BY <4>1, <3>3, <2>3, <1>3, <1>4
      <4>3. Resolvable(i)'
        BY Zenon, <4>1, <3>3, <2>3
      <4>4. QED
        BY <4>2, <4>3
    <3>4. CASE /\ contexts'[c] = NoEntry
               /\ Tombstone = 0 \/ (/\ contexts[c].state \in {"expired", "released"}
                                   /\ contexts[c].tombstone_until <= now)
      <4>1. ~(IdemTtl <= Tombstone)
        <5>1. Ordered(i)
          BY <1>1
        <5>2. now \in Nat /\ idempotency[i].retain_until \in Nat /\ contexts[c].tombstone_until \in Int
          BY <3>1, <1>3
        <5>3. QED
          BY <5>1, <5>2, <3>4, <2>3, <1>3
      <4>2. QED
        BY Zenon, <4>1, <3>1, <2>3, <1>1, <1>4
    <3>5. QED
      BY Zenon, <3>1, <3>2, <3>3, <3>4 DEF Aged
  <2>4. QED
    BY Zenon, <2>1, <2>2, <2>3, <1>4 DEF AgedOutcome
<1>5. ASSUME NEW q \in Requests, NEW r \in ReservationIds, Reserve(q, r), NEW i \in IdemKeys
      PROVE  Ordered(i)' /\ Resolvable(i)'
  <2>0. ReserveLeaves(q, r)
    BY <1>5, ReserveEffect DEF IInv
  <2>1. now' = now
    BY Zenon, <1>3, <1>5, <2>0 DEF ReserveLeaves
  <2>2. CASE i = Complete(q.owner, q.key)
    <3>1. idempotency'[i] = BusyOutcome(r)
      BY Zenon, <2>2, <1>3, <1>5, <2>0 DEF ReserveLeaves
    <3>2. QED
      BY <3>1, <2>1, <1>3, OutcomeFields
  <2>3. CASE i # Complete(q.owner, q.key)
    <3>. DEFINE c == idempotency[i].context
    <3>1. AgedOutcome(idempotency[i], idempotency'[i])
      BY Zenon, <2>3, <1>3, <1>5, <2>0 DEF ReserveLeaves
    <3>2. CASE idempotency[i].state = "completed" => Aged(contexts[c], contexts'[c])
      BY Zenon, <3>1, <3>2, <2>1, <1>4
    <3>3. CASE idempotency[i].state = "completed" /\ ~Aged(contexts[c], contexts'[c])
      <4>1. c \in ContextIds
        BY <3>3, <1>1
      <4>2. SameContext(contexts[c], contexts'[c])
        BY Zenon, <3>3, <4>1, <1>3, <1>5, <2>0 DEF ReserveLeaves
      <4>3. idempotency'[i] = idempotency[i] \/ idempotency'[i] = NoOutcome
        BY <3>1 DEF AgedOutcome
      <4>4. CASE idempotency'[i] = NoOutcome
        BY <4>4, <2>1, <1>3, OutcomeFields
      <4>5. CASE idempotency'[i] = idempotency[i]
        BY Zenon, <4>2, <4>5, <2>1, <1>1 DEF SameContext
      <4>6. QED
        BY Zenon, <4>3, <4>4, <4>5
    <3>4. QED
      BY Zenon, <3>2, <3>3
  <2>4. QED
    BY Zenon, <2>2, <2>3
<1>6. ASSUME NEW r \in ReservationIds, NEW c \in ContextIds, Commit(r, c), NEW i \in IdemKeys
      PROVE  Ordered(i)' /\ Resolvable(i)'
  <2>0. CommitLeaves(r, c)
    BY <1>6, CommitEffect
  <2>. DEFINE res == reservations[r]
  <2>1. /\ now' = now /\ contexts'[c].state = "active" /\ contexts'[c].owner = res.owner
        /\ contexts'[c].version \in Nat /\ res.owner \in Owners /\ res.key \in Keys
        /\ \A d \in ContextIds \ {c} : contexts'[d] = contexts[d]
        /\ contexts[c] = NoEntry \/ (/\ contexts[c].owner = res.owner
                                    /\ contexts'[c].version = contexts[c].version + 1)
        /\ i # Complete(res.owner, res.key) => idempotency'[i] = idempotency[i]
        /\ idempotency'[Complete(res.owner, res.key)] = CompletedOutcome(c, contexts'[c].version)
    BY Zenon, <1>6, <2>0 DEF TypeOK, Entry, CommitLeaves
  <2>2. CASE i = Complete(res.owner, res.key)
    <3>1. i[1] = res.owner
      BY <2>1, <2>2, KeysAreIdemKeys
    <3>2. /\ idempotency'[i].state = "completed"
          /\ idempotency'[i].context = c /\ idempotency'[i].version = contexts'[c].version
          /\ idempotency'[i].retain_until = now + IdemTtl
      <4>1. idempotency'[i] = CompletedOutcome(c, contexts'[c].version) /\ contexts'[c].version \in Nat
        BY <2>1, <2>2
      <4>2. QED
        BY <4>1, <1>3, OutcomeFields
    <3>3. Ordered(i)'
      BY <3>2, <2>1, <1>3
    <3>4. Resolvable(i)'
      BY <3>1, <3>2, <2>1
    <3>5. QED
      BY Zenon, <3>3, <3>4
  <2>3. CASE i # Complete(res.owner, res.key)
    <3>1. CASE idempotency[i].state = "completed" /\ idempotency[i].context = c
      <4>1. /\ idempotency'[i] = idempotency[i] /\ idempotency[i].retain_until <= now + IdemTtl
            /\ idempotency[i].version \in Nat /\ contexts[c].version \in Nat
        BY Zenon, <2>1, <2>3, <1>1, <1>3
      <4>2. IdemTtl <= Tombstone => /\ contexts[c] # NoEntry /\ contexts[c].owner = i[1]
                                    /\ contexts[c].version >= idempotency[i].version
        BY Zenon, <3>1, <1>1, NoEntryFields
      <4>3. IdemTtl <= Tombstone => /\ contexts'[c].owner = i[1]
                                    /\ contexts'[c].version >= idempotency[i].version
        BY <4>1, <4>2, <2>1
      <4>4. QED
        BY Zenon, <4>1, <4>3, <3>1, <2>1
    <3>2. CASE idempotency[i].state # "completed" \/ idempotency[i].context # c
      <4>1. Ordered(i) /\ Resolvable(i) /\ idempotency'[i] = idempotency[i]
        BY Zenon, <2>1, <2>3, <1>1
      <4>2. idempotency[i].state = "completed" =>
              contexts'[idempotency[i].context] = contexts[idempotency[i].context]
        BY Zenon, <4>1, <3>2, <2>1
      <4>3. QED
        BY Zenon, <4>1, <4>2, <2>1
    <3>3. QED
      BY Zenon, <3>1, <3>2
  <2>4. QED
    BY Zenon, <2>2, <2>3
<1>7. ASSUME NEW r \in ReservationIds, Abort(r), NEW i \in IdemKeys
      PROVE  Ordered(i)' /\ Resolvable(i)'
  <2>0. AbortLeaves(r)
    BY <1>7, AbortEffect
  <2>. DEFINE k == Complete(reservations[r].owner, reservations[r].key)
              c == idempotency[i].context
  <2>1. /\ now' = now
        /\ i # k => AgedOutcome(idempotency[i], idempotency'[i])
        /\ idempotency'[k].state \in {"absent", "failed"}
        /\ idempotency'[k].retain_until <= now + IdemTtl
    BY Zenon, <1>7, <2>0 DEF AbortLeaves
  <2>2. CASE i = k
    <3>1. /\ now' = now /\ idempotency'[i].state # "completed"
          /\ idempotency'[i].retain_until <= now + IdemTtl
      BY Zenon, <2>1, <2>2
    <3>2. QED
      BY Zenon, <3>1
  <2>3. CASE i # k /\ (idempotency[i].state = "completed" => Aged(contexts[c], contexts'[c]))
    BY Zenon, <2>1, <2>3, <1>4
  <2>4. CASE i # k /\ idempotency[i].state = "completed" /\ ~Aged(contexts[c], contexts'[c])
    <3>1. c \in ContextIds
      BY Zenon, <2>4, <1>1
    <3>2. PICK e \in Entry :
            /\ Aged(e, contexts'[c])
            /\ \/ e = contexts[c] /\ contexts[c].reservation # r
               \/ /\ SameContext(contexts[c], e) /\ contexts[c].reservation = r
                  /\ e.reservation = None
      BY Zenon, <3>1, <1>7, <2>0 DEF AbortLeaves
    <3>3. SameContext(contexts[c], e) /\ contexts[c].state = "active"
      BY Zenon, <3>1, <3>2, <2>4, IdsAssumption DEF IInv, WellFormed
    <3>4. \/ /\ contexts'[c].state \in {"active", "expired"} /\ contexts'[c].owner = contexts[c].owner
             /\ contexts'[c].version = contexts[c].version
             /\ contexts'[c].state = "expired" => contexts'[c].tombstone_until = now + Tombstone
          \/ Tombstone = 0
      BY Zenon, <3>2, <3>3 DEF Aged, SameContext
    <3>5. \/ idempotency'[i] = NoOutcome
          \/ idempotency'[i] = idempotency[i] /\ idempotency[i].retain_until > now
      BY Zenon, <2>1, <2>4 DEF AgedOutcome
    <3>6. CASE idempotency'[i] = NoOutcome
      <4>1. now \in Nat /\ IdemTtl \in Nat /\ now' = now
        BY <2>1, <1>3
      <4>2. idempotency'[i].state = "absent" /\ idempotency'[i].retain_until = 0
        BY <4>1, <3>6, OutcomeFields
      <4>3. QED
        BY <4>1, <4>2
    <3>7. CASE idempotency'[i] = idempotency[i] /\ idempotency[i].retain_until > now
      <4>1. CASE Tombstone = 0
        <5>1. ~(IdemTtl <= Tombstone)
          BY <4>1, <3>7, <1>1, <1>3
        <5>2. QED
          BY Zenon, <5>1, <3>7, <2>1, <2>4, <1>1
      <4>2. CASE Tombstone # 0
        <5>1. /\ contexts'[c].state \in {"active", "expired"} /\ contexts'[c].owner = contexts[c].owner
              /\ contexts'[c].version = contexts[c].version
              /\ contexts'[c].state = "expired" => contexts'[c].tombstone_until = now + Tombstone
          BY Zenon, <4>2, <3>4
        <5>2. /\ idempotency[i].retain_until <= now + IdemTtl
              /\ IdemTtl <= Tombstone => contexts[c].owner = i[1] /\ contexts[c].version >= idempotency[i].version
          BY Zenon, <2>4, <1>1
        <5>3. Ordered(i)'
          <6>1. now' = now /\ now \in Nat /\ IdemTtl \in Nat /\ Tombstone \in Nat
                /\ idempotency[i].retain_until \in Nat
            BY Zenon, <2>1, <1>3
          <6>2. QED
            BY <6>1, <5>1, <5>2, <3>1, <3>7
        <5>4. Resolvable(i)'
          BY Zenon, <5>1, <5>2, <3>7, <2>1
        <5>5. QED
          BY Zenon, <5>3, <5>4
      <4>3. QED
        BY Zenon, <4>1, <4>2
    <3>8. QED
      BY Zenon, <3>5, <3>6, <3>7
  <2>5. QED
    BY Zenon, <2>2, <2>3, <2>4
<1>8. ASSUME NEW o \in Owners, NEW c \in ContextIds, NEW v \in BaseVersions, NEW k \in Keys,
             Release(o, c, v, k), NEW i \in IdemKeys
      PROVE  Ordered(i)' /\ Resolvable(i)'
  <2>0. ReleaseLeaves(o, c, v, k)
    BY <1>8, ReleaseEffect DEF IInv
  <2>1. /\ now' = now /\ contexts'[c].state = "released" /\ contexts'[c].owner = o
        /\ contexts[c].owner = o /\ contexts'[c].version = contexts[c].version + 1
        /\ contexts'[c].tombstone_until = now + Tombstone
        /\ contexts'[c].version \in Nat
        /\ idempotency'[OfRelease(o, k)] = CompletedOutcome(c, contexts'[c].version)
        /\ i # OfRelease(o, k) => AgedOutcome(idempotency[i], idempotency'[i])
        /\ \A d \in ContextIds \ {c} : Aged(contexts[d], contexts'[d])
    <3>1. Mutable(contexts, o, c, v) /\ TypeOK'
      BY Zenon, <1>3, <1>8, <2>0 DEF ReleaseLeaves
    <3>2. contexts[c].owner = o /\ contexts'[c].version \in Nat
      BY Zenon, <3>1 DEF Mutable, TypeOK, Entry
    <3>3. TypeOK
      BY Zenon, <1>3
    <3>4. /\ now' = now /\ contexts'[c].state = "released" /\ contexts'[c].owner = o
          /\ contexts'[c].version = contexts[c].version + 1
          /\ contexts'[c].tombstone_until = now + Tombstone
          /\ idempotency'[OfRelease(o, k)] = CompletedOutcome(c, contexts'[c].version)
      BY Zenon, <3>3, <1>8, <2>0 DEF ReleaseLeaves
    <3>5. /\ \A d \in ContextIds \ {c} : Aged(contexts[d], contexts'[d])
          /\ \A j \in IdemKeys \ {OfRelease(o, k)} : AgedOutcome(idempotency[j], idempotency'[j])
      BY Zenon, <3>3, <1>8, <2>0 DEF ReleaseLeaves
    <3>6. QED
      BY Zenon, <3>2, <3>4, <3>5
  <2>2. CASE i = OfRelease(o, k)
    <3>1. /\ idempotency'[i] = CompletedOutcome(c, contexts'[c].version)
          /\ i[1] = o
      BY Zenon, <2>1, <2>2, KeysAreIdemKeys
    <3>2. now \in Nat /\ contexts'[c].version \in Nat
      BY Zenon, <2>1, <1>3
    <3>3. /\ idempotency'[i].state = "completed" /\ idempotency'[i].context = c
          /\ idempotency'[i].version = contexts'[c].version
          /\ idempotency'[i].retain_until = now + IdemTtl
      BY <3>1, <3>2, OutcomeFields
    <3>4. Ordered(i)'
      BY <3>3, <2>1, <1>3
    <3>5. Resolvable(i)'
      BY <3>1, <3>2, <3>3, <2>1
    <3>6. QED
      BY Zenon, <3>4, <3>5
  <2>3. CASE i # OfRelease(o, k) /\ ~(idempotency[i].state = "completed" /\ idempotency[i].context = c)
    BY Zenon, <2>1, <2>3, <1>1, <1>4
  <2>4. CASE i # OfRelease(o, k) /\ idempotency[i].state = "completed" /\ idempotency[i].context = c
    <3>1. idempotency'[i] = NoOutcome \/ idempotency'[i] = idempotency[i]
      BY Zenon, <2>1, <2>4 DEF AgedOutcome
    <3>2. CASE idempotency'[i] = NoOutcome
      <4>1. now \in Nat /\ IdemTtl \in Nat /\ now' = now
        BY Zenon, <2>1, <1>3
      <4>2. idempotency'[i].state = "absent" /\ idempotency'[i].retain_until = 0
        BY <4>1, <3>2, OutcomeFields
      <4>3. QED
        BY <4>1, <4>2
    <3>3. CASE idempotency'[i] = idempotency[i]
      <4>1. Ordered(i) /\ Resolvable(i) /\ contexts[c].version \in Nat /\ idempotency[i].version \in Nat
        BY Zenon, <1>1, <1>3
      <4>2. Ordered(i)'
        <5>1. /\ idempotency[i].retain_until <= now + IdemTtl /\ idempotency[i].retain_until \in Nat
              /\ contexts'[c].tombstone_until = now + Tombstone
              /\ now \in Nat /\ IdemTtl \in Nat /\ Tombstone \in Nat
          BY Zenon, <4>1, <2>1, <1>3
        <5>2. IdemTtl <= Tombstone => idempotency[i].retain_until <= contexts'[c].tombstone_until
          BY <5>1
        <5>3. QED
          BY Zenon, <5>1, <5>2, <4>1, <3>3, <2>1, <2>4
      <4>3. Resolvable(i)'
        BY <4>1, <3>3, <2>1, <2>4
      <4>4. QED
        BY Zenon, <4>2, <4>3
    <3>4. QED
      BY Zenon, <3>1, <3>2, <3>3
  <2>5. QED
    BY Zenon, <2>2, <2>3, <2>4
<1>9. ASSUME Sweep, NEW i \in IdemKeys PROVE Ordered(i)' /\ Resolvable(i)'
  BY Zenon, <1>1, <1>3, <1>4, <1>9, SweepEffect
<1>10. ASSUME Tick, NEW i \in IdemKeys PROVE Ordered(i)' /\ Resolvable(i)'
  BY <1>1, <1>3, <1>10 DEF Tick
<1>11. QED
  BY Zenon, <1>5, <1>6, <1>7, <1>8, <1>9, <1>10 DEF Next
-----------------------------------------------------------------------------

\* One more element adds at most one to a cardinality.
LEMMA AddOne ==
  ASSUME NEW S, IsFiniteSet(S), NEW x
  PROVE  IsFiniteSet(S \union {x}) /\ Cardinality(S \union {x}) <= Cardinality(S) + 1
<1>1. Cardinality(S) \in Nat
  BY FS_CardinalityType
<1>2. CASE x \in S
  <2>1. S \union {x} = S
    BY <1>2
  <2>2. Cardinality(S \union {x}) = Cardinality(S) /\ IsFiniteSet(S \union {x})
    BY <2>1
  <2>3. QED
    BY <2>2, <1>1
<1>3. CASE x \notin S
  <2>1. IsFiniteSet(S \union {x}) /\ Cardinality(S \union {x}) = Cardinality(S) + 1
    BY <1>3, FS_AddElement
  <2>2. QED
    BY <2>1, <1>1
<1>4. QED
  BY <1>2, <1>3

\* The quota: only reserve() adds to live and pending contexts together, and commit()
\* turns one pending context into one live one.
LEMMA QuotaStep ==
  ASSUME IInv, Next
  PROVE  QuotaRespected'
<1>. DEFINE Used(o) == Cardinality(Live(contexts, o)) + Cardinality(Pending(o))
<1>1. /\ TypeOK /\ MaxContexts \in Nat
      /\ \A o \in Owners : Used(o) <= MaxContexts
  BY OptionsAssumption DEF IInv, QuotaRespected
<1>2. \A o : /\ IsFiniteSet(Live(contexts, o)) /\ IsFiniteSet(Live(contexts', o))
             /\ IsFiniteSet(Pending(o)) /\ IsFiniteSet(Pending(o)')
  <2>1. \A o : /\ Live(contexts, o) \subseteq ContextIds /\ Live(contexts', o) \subseteq ContextIds
               /\ Pending(o) \subseteq ReservationIds /\ Pending(o)' \subseteq ReservationIds
    BY DEF Live, Pending
  <2>2. QED
    BY <2>1, IdsAssumption, FS_Subset
<1>3. \A o : /\ Cardinality(Live(contexts, o)) \in Nat /\ Cardinality(Live(contexts', o)) \in Nat
             /\ Cardinality(Pending(o)) \in Nat /\ Cardinality(Pending(o)') \in Nat
  BY <1>2, FS_CardinalityType
<1>4. ASSUME NEW o, Live(contexts', o) \subseteq Live(contexts, o)
      PROVE  Cardinality(Live(contexts', o)) <= Cardinality(Live(contexts, o))
  BY <1>2, <1>4, FS_Subset
<1>5. ASSUME NEW o, Pending(o)' \subseteq Pending(o)
      PROVE  Cardinality(Pending(o)') <= Cardinality(Pending(o))
  BY <1>2, <1>5, FS_Subset
<1>6. SUFFICES ASSUME NEW o \in Owners
               PROVE  Cardinality(Live(contexts', o)) + Cardinality(Pending(o)') <= MaxContexts
  BY DEF QuotaRespected
<1>7. ASSUME Live(contexts', o) \subseteq Live(contexts, o), Pending(o)' \subseteq Pending(o)
      PROVE  Cardinality(Live(contexts', o)) + Cardinality(Pending(o)') <= MaxContexts
  BY <1>1, <1>3, <1>4, <1>5, <1>7
<1>8. ASSUME NEW q \in Requests, NEW r \in ReservationIds, Reserve(q, r)
      PROVE  Cardinality(Live(contexts', o)) + Cardinality(Pending(o)') <= MaxContexts
  <2>0. ReserveLeaves(q, r)
    BY <1>8, ReserveEffect DEF IInv
  <2>1. Live(contexts', o) \subseteq Live(contexts, o)
    <3>1. ASSUME NEW c \in ContextIds, contexts'[c].state = "active"
          PROVE  contexts[c].state = "active" /\ contexts'[c].owner = contexts[c].owner
      <4>1. Aged(contexts[c], contexts'[c]) \/ SameContext(contexts[c], contexts'[c])
        BY Zenon, <1>1, <1>8, <2>0 DEF ReserveLeaves
      <4>2. QED
        BY Zenon, <4>1, <3>1, NoEntryFields DEF Aged, SameContext
    <3>2. QED
      BY <3>1 DEF Live
  <2>2. CASE q.op \in Allocating /\ q.owner = o
    <3>. DEFINE cs == SweepContexts(contexts)
    <3>1. Cardinality(Live(cs, o)) + Cardinality(Pending(o)) < MaxContexts /\ contexts' = cs
      BY <2>2, <1>8 DEF Reserve, Admissible, AllocationAvailable, Allocating, InPlace
    <3>2. Pending(o)' = Pending(o) \union {r}
      BY Zenon, <2>2, <1>1, <1>8, <2>0 DEF Pending, ReserveLeaves
    <3>3. Cardinality(Pending(o)') <= Cardinality(Pending(o)) + 1
      BY <3>2, <1>2, AddOne
    <3>. HIDE DEF cs
    <3>4. QED
      BY <3>1, <3>3, <1>1, <1>3
  <2>3. CASE ~(q.op \in Allocating /\ q.owner = o)
    <3>1. Pending(o)' \subseteq Pending(o)
      BY Zenon, <2>3, <1>1, <1>8, <2>0 DEF Pending, ReserveLeaves
    <3>2. QED
      BY <2>1, <3>1, <1>7
  <2>4. QED
    BY <2>2, <2>3
<1>9. ASSUME NEW r \in ReservationIds, NEW c \in ContextIds, Commit(r, c)
      PROVE  Cardinality(Live(contexts', o)) + Cardinality(Pending(o)') <= MaxContexts
  <2>0. CommitLeaves(r, c)
    BY <1>9, CommitEffect
  <2>1. /\ \A s \in ReservationIds \ {r} : reservations'[s] = reservations[s]
        /\ reservations'[r].op = "none"
        /\ \A d \in ContextIds \ {c} : contexts'[d] = contexts[d]
        /\ contexts'[c].owner = reservations[r].owner
    BY Zenon, <1>9, <2>0, NoReservationFields DEF CommitLeaves
  <2>2. Pending(o)' = Pending(o) \ {r}
    BY <2>1 DEF Pending, Allocating
  <2>3. CASE reservations[r].op \in Allocating /\ reservations[r].owner = o
    <3>1. r \in Pending(o)
      BY <2>3 DEF Pending
    <3>2. Cardinality(Pending(o)') = Cardinality(Pending(o)) - 1
      BY Zenon, <3>1, <2>2, <1>2, FS_RemoveElement
    <3>3. Live(contexts', o) \subseteq Live(contexts, o) \union {c}
      BY <2>1 DEF Live
    <3>4. /\ Cardinality(Live(contexts, o) \union {c}) <= Cardinality(Live(contexts, o)) + 1
          /\ IsFiniteSet(Live(contexts, o) \union {c})
      BY Zenon, <1>2, AddOne
    <3>5. Cardinality(Live(contexts', o)) <= Cardinality(Live(contexts, o) \union {c})
      BY <3>3, <3>4, FS_Subset
    <3>6. Cardinality(Live(contexts, o) \union {c}) \in Nat
      BY <3>4, FS_CardinalityType
    <3>7. QED
      BY <3>2, <3>4, <3>5, <3>6, <1>1, <1>3
  <2>4. CASE ~(reservations[r].op \in Allocating /\ reservations[r].owner = o)
    <3>1. contexts'[c].owner = o =>
            contexts[c].state = "active" /\ contexts[c].owner = o
      BY Zenon, <2>1, <2>4, <1>9, <2>0 DEF CommitLeaves
    <3>2. Live(contexts', o) \subseteq Live(contexts, o)
      BY Zenon, <3>1, <2>1 DEF Live
    <3>3. QED
      BY <3>2, <2>2, <1>7
  <2>5. QED
    BY <2>3, <2>4
<1>10. ASSUME NEW r \in ReservationIds, Abort(r)
       PROVE  Cardinality(Live(contexts', o)) + Cardinality(Pending(o)') <= MaxContexts
  <2>0. AbortLeaves(r)
    BY <1>10, AbortEffect
  <2>1. ASSUME NEW c \in ContextIds, contexts'[c].state = "active"
        PROVE  contexts[c].state = "active" /\ contexts'[c].owner = contexts[c].owner
    <3>1. PICK e \in Entry :
            /\ Aged(e, contexts'[c])
            /\ \/ e = contexts[c] /\ contexts[c].reservation # r
               \/ /\ SameContext(contexts[c], e) /\ contexts[c].reservation = r
                  /\ e.reservation = None
      BY Zenon, <1>10, <2>0 DEF AbortLeaves
    <3>2. contexts'[c] = e
      BY Zenon, <3>1, <2>1, NoEntryFields DEF Aged
    <3>3. QED
      BY Zenon, <3>1, <3>2, <2>1 DEF SameContext
  <2>2. Live(contexts', o) \subseteq Live(contexts, o)
    BY <2>1 DEF Live
  <2>3. Pending(o)' \subseteq Pending(o)
    BY Zenon, <1>10, <2>0, NoReservationFields DEF Pending, Allocating, AbortLeaves
  <2>4. QED
    BY <2>2, <2>3, <1>7
<1>11. ASSUME NEW p \in Owners, NEW c \in ContextIds, NEW v \in BaseVersions, NEW k \in Keys,
              Release(p, c, v, k)
       PROVE  Cardinality(Live(contexts', o)) + Cardinality(Pending(o)') <= MaxContexts
  <2>0. ReleaseLeaves(p, c, v, k)
    BY <1>11, ReleaseEffect DEF IInv
  <2>1. ASSUME NEW d \in ContextIds, contexts'[d].state = "active"
        PROVE  contexts[d].state = "active" /\ contexts'[d].owner = contexts[d].owner
    BY Zenon, <2>1, <1>1, <1>11, <2>0, NoEntryFields DEF Aged, ReleaseLeaves
  <2>2. Live(contexts', o) \subseteq Live(contexts, o)
    BY <2>1 DEF Live
  <2>3. Pending(o)' \subseteq Pending(o)
    BY Zenon, <1>1, <1>11, <2>0 DEF Pending, ReleaseLeaves
  <2>4. QED
    BY <2>2, <2>3, <1>7
<1>12. CASE Sweep
  <2>1. ASSUME NEW d \in ContextIds, contexts'[d].state = "active"
        PROVE  contexts[d].state = "active" /\ contexts'[d].owner = contexts[d].owner
    BY Zenon, <2>1, <1>1, <1>12, SweepEffect, NoEntryFields DEF Aged
  <2>2. Live(contexts', o) \subseteq Live(contexts, o)
    BY <2>1 DEF Live
  <2>3. Pending(o)' \subseteq Pending(o)
    BY Zenon, <1>1, <1>12, SweepEffect DEF Pending
  <2>4. QED
    BY <2>2, <2>3, <1>7
<1>13. CASE Tick
  BY <1>7, <1>13 DEF Tick, Live, Pending
<1>14. QED
  BY <1>8, <1>9, <1>10, <1>11, <1>12, <1>13 DEF Next
-----------------------------------------------------------------------------
(* Putting the conjuncts together. *)

\* Every operation keeps the types.
LEMMA TypeStep ==
  ASSUME IInv, Next
  PROVE  TypeOK'
<1>1. TypeOK
  BY DEF IInv
<1>2. CASE Tick
  BY <1>1, <1>2 DEF TypeOK, Tick
<1>3. ASSUME NEW q \in Requests, NEW r \in ReservationIds, Reserve(q, r) PROVE TypeOK'
  <2>1. ReserveLeaves(q, r)
    BY <1>1, <1>3, ReserveEffect
  <2>2. QED
    BY Zenon, <2>1 DEF ReserveLeaves
<1>4. ASSUME NEW r \in ReservationIds, NEW c \in ContextIds, Commit(r, c) PROVE TypeOK'
  <2>1. CommitLeaves(r, c)
    BY <1>4, CommitEffect
  <2>2. QED
    BY Zenon, <2>1 DEF CommitLeaves
<1>5. ASSUME NEW r \in ReservationIds, Abort(r) PROVE TypeOK'
  <2>1. AbortLeaves(r)
    BY <1>5, AbortEffect
  <2>2. QED
    BY Zenon, <2>1 DEF AbortLeaves
<1>6. ASSUME NEW o \in Owners, NEW c \in ContextIds, NEW v \in BaseVersions, NEW k \in Keys,
             Release(o, c, v, k)
      PROVE  TypeOK'
  <2>1. ReleaseLeaves(o, c, v, k)
    BY <1>1, <1>6, ReleaseEffect
  <2>2. QED
    BY Zenon, <2>1 DEF ReleaseLeaves
<1>7. CASE Sweep
  BY <1>1, <1>7, SweepEffect
<1>8. QED
  BY <1>2, <1>3, <1>4, <1>5, <1>6, <1>7 DEF Next

\* The empty store satisfies the invariant.
LEMMA InitInvariant == Init => IInv
<1>. SUFFICES ASSUME Init PROVE IInv
  OBVIOUS
<1>0. now = 0
  BY DEF Init
<1>1. TypeOK
  BY <1>0, NoEntryFields, NoReservationFields, OutcomeFields DEF Init, TypeOK
<1>2. /\ \A c \in ContextIds : contexts[c] = NoEntry
      /\ \A i \in IdemKeys : idempotency[i] = NoOutcome
      /\ \A r \in ReservationIds : reservations[r] = NoReservation
  BY DEF Init
<1>3. WellFormed
  BY Zenon, <1>2, NoEntryFields, NoReservationFields DEF WellFormed, Mutations
<1>4. QuotaRespected
  <2>1. \A o \in Owners : Live(contexts, o) = {} /\ Pending(o) = {}
    BY <1>2, NoEntryFields, NoReservationFields DEF Live, Pending, Allocating
  <2>2. Cardinality({}) = 0
    BY FS_EmptySet
  <2>3. QED
    BY <2>1, <2>2, OptionsAssumption DEF QuotaRespected
<1>5. MutationHoldsContext
  BY Zenon, <1>2, NoEntryFields, NoReservationFields DEF MutationHoldsContext, InPlace
<1>6. BusyMeansRunning
  BY Zenon, <1>0, <1>2, NoReservationFields, OutcomeFields, KeysAreIdemKeys DEF BusyMeansRunning
<1>7. OwnTurnsOnly
  BY <1>2, NoEntryFields, NoReservationFields DEF OwnTurnsOnly
<1>8. RetentionOrdered /\ ReceiptResolvable
  BY <1>0, <1>2, OutcomeFields, OptionsAssumption DEF RetentionOrdered, ReceiptResolvable
<1>9. QED
  BY <1>1, <1>3, <1>4, <1>5, <1>6, <1>7, <1>8 DEF IInv

\* A step that changes nothing keeps the invariant.
LEMMA StutterInvariant ==
  ASSUME IInv, UNCHANGED vars
  PROVE  IInv'
<1>1. /\ now' = now /\ contexts' = contexts /\ idempotency' = idempotency
      /\ reservations' = reservations /\ author' = author
  BY DEF vars
<1>2. TypeOK' /\ WellFormed' /\ RetentionOrdered'
  BY Zenon, <1>1 DEF IInv, TypeOK, WellFormed, RetentionOrdered
<1>3. QuotaRespected'
  BY <1>1 DEF IInv, QuotaRespected, Live, Pending
<1>4. MutationHoldsContext' /\ BusyMeansRunning'
  <2>1. MutationHoldsContext'
    BY Zenon, <1>1 DEF IInv, MutationHoldsContext
  <2>2. BusyMeansRunning'
    <3>1. BusyMeansRunning
      BY Zenon DEF IInv
    <3>2. QED
      BY <1>1, <3>1 DEF BusyMeansRunning
  <2>3. QED
    BY <2>1, <2>2
<1>5. OwnTurnsOnly' /\ ReceiptResolvable'
  BY Zenon, <1>1 DEF IInv, OwnTurnsOnly, ReceiptResolvable
<1>6. QED
  BY <1>2, <1>3, <1>4, <1>5 DEF IInv

\* IInv is an inductive invariant of the context store.
THEOREM Invariance == Spec => []IInv
<1>1. IInv /\ [Next]_vars => IInv'
  BY TypeStep, WellFormedStep, QuotaStep, MutationHoldsContextStep, BusyMeansRunningStep,
     OwnTurnsOnlyStep, ReceiptStep, StutterInvariant DEF IInv
<1>2. QED
  BY InitInvariant, <1>1, PTL DEF Spec

\* Type correctness of the store.
THEOREM TypeCorrect == Spec => []TypeOK
BY Invariance, PTL DEF IInv

\* max_contexts_per_principal is never exceeded, whatever creates, forks, sweeps,
\* releases and late commits interleave.
THEOREM QuotaSafe == Spec => []QuotaRespected
BY Invariance, PTL DEF IInv

\* A running append or reset holds its context at the version it was admitted for, so
\* that commit() need not check again, and a key is busy exactly while its one reservation runs.
THEOREM LockSafe == Spec => []LocksHeld
BY Invariance, PTL DEF IInv, LocksHeld

\* No context ever holds a turn of another principal.
THEOREM IsolationSafe == Spec => []OwnTurnsOnly
BY Invariance, PTL DEF IInv

\* A receipt names a context that status() can still find, when outcomes are not kept
\* longer than tombstones.
THEOREM ReceiptSafe == Spec => []ReceiptResolvable
BY Invariance, PTL DEF IInv

\* Expired and released contexts never come back.
THEOREM TerminalSafe == Spec => TerminalIsFinal
<1>. DEFINE A == \A c \in ContextIds : contexts[c].state \in {"expired", "released"} =>
                   contexts'[c] \in {contexts[c], NoEntry}
<1>1. ASSUME IInv, Next PROVE A
  <2>. SUFFICES ASSUME NEW c \in ContextIds, contexts[c].state \in {"expired", "released"}
                PROVE  contexts'[c] \in {contexts[c], NoEntry}
    BY Zenon
  <2>1. TypeOK
    BY <1>1 DEF IInv
  <2>2. CASE Aged(contexts[c], contexts'[c])
    BY Zenon, <2>2 DEF Aged
  <2>3. ASSUME NEW q \in Requests, NEW r \in ReservationIds, Reserve(q, r)
        PROVE  contexts'[c] \in {contexts[c], NoEntry}
    <3>1. ReserveLeaves(q, r)
      BY Zenon, <1>1, <2>3, ReserveEffect DEF IInv
    <3>2. QED
      BY Zenon, <2>1, <2>2, <2>3, <3>1 DEF Mutable, InPlace, ReserveLeaves
  <2>4. ASSUME NEW r \in ReservationIds, NEW d \in ContextIds, Commit(r, d)
        PROVE  contexts'[c] \in {contexts[c], NoEntry}
    <3>1. CommitLeaves(r, d)
      BY Zenon, <1>1, <2>4, CommitEffect
    <3>2. QED
      BY Zenon, <1>1, <2>4, <3>1, NoEntryFields DEF CommitLeaves
  <2>5. ASSUME NEW r \in ReservationIds, Abort(r)
        PROVE  contexts'[c] \in {contexts[c], NoEntry}
    <3>0. AbortLeaves(r)
      BY <1>1, <2>5, AbortEffect
    <3>1. contexts[c].reservation # r
      BY Zenon, <1>1, IdsAssumption DEF IInv, WellFormed
    <3>2. QED
      BY Zenon, <3>1, <1>1, <2>2, <2>5, <3>0 DEF AbortLeaves
  <2>6. ASSUME NEW o \in Owners, NEW d \in ContextIds, NEW v \in BaseVersions, NEW k \in Keys,
               Release(o, d, v, k)
        PROVE  contexts'[c] \in {contexts[c], NoEntry}
    <3>1. ReleaseLeaves(o, d, v, k)
      BY Zenon, <1>1, <2>6, ReleaseEffect DEF IInv
    <3>2. QED
      BY Zenon, <2>1, <2>2, <2>6, <3>1 DEF Mutable, ReleaseLeaves
  <2>7. CASE Sweep
    BY <2>1, <2>2, <2>7, SweepEffect
  <2>8. CASE Tick
    BY <2>8 DEF Tick
  <2>9. QED
    BY Zenon, <1>1, <2>3, <2>4, <2>5, <2>6, <2>7, <2>8 DEF Next
<1>2. IInv /\ [Next]_vars => [A]_vars
  BY <1>1
<1>3. QED
  BY <1>2, Invariance, PTL DEF Spec, TerminalIsFinal

\* Versions rise one at a time and guard transcript, binding and owner.
THEOREM VersionsGuardChange == Spec => VersionedChange
<1>. DEFINE Guarded(c) ==
       contexts[c].state # "absent" /\ contexts'[c].state # "absent" =>
         /\ contexts'[c].owner = contexts[c].owner
         /\ contexts'[c].version \in {contexts[c].version, contexts[c].version + 1}
         /\ contexts'[c].version = contexts[c].version =>
              /\ contexts'[c].transcript = contexts[c].transcript
              /\ contexts'[c].binding = contexts[c].binding
<1>1. ASSUME IInv, Next, NEW c \in ContextIds PROVE Guarded(c)
  <2>1. TypeOK /\ contexts[c].version \in Nat
    BY Zenon, <1>1 DEF IInv, TypeOK, Entry
  <2>2. CASE Aged(contexts[c], contexts'[c]) \/ SameContext(contexts[c], contexts'[c])
    BY Zenon, <2>2, NoEntryFields DEF Aged, SameContext
  <2>3. CASE /\ contexts'[c].owner = contexts[c].owner
             /\ contexts'[c].version = contexts[c].version + 1
    BY <2>1, <2>3
  <2>4. CASE contexts'[c] = contexts[c] \/ contexts[c] = NoEntry
    BY Zenon, <2>4, NoEntryFields
  <2>5. ASSUME NEW q \in Requests, NEW r \in ReservationIds, Reserve(q, r) PROVE Guarded(c)
    <3>0. ReserveLeaves(q, r)
      BY <1>1, <2>5, ReserveEffect DEF IInv
    <3>1. Aged(contexts[c], contexts'[c]) \/ SameContext(contexts[c], contexts'[c])
      BY Zenon, <2>1, <2>5, <3>0 DEF ReserveLeaves
    <3>2. QED
      BY Zenon, <3>1, <2>2
  <2>6. ASSUME NEW r \in ReservationIds, NEW d \in ContextIds, Commit(r, d) PROVE Guarded(c)
    <3>0. CommitLeaves(r, d)
      BY <1>1, <2>6, CommitEffect
    <3>1. \/ contexts'[c] = contexts[c] \/ contexts[c] = NoEntry
          \/ /\ contexts'[c].owner = contexts[c].owner
             /\ contexts'[c].version = contexts[c].version + 1
      BY Zenon, <1>1, <2>6, <3>0 DEF CommitLeaves
    <3>2. QED
      BY Zenon, <3>1, <2>3, <2>4
  <2>7. ASSUME NEW r \in ReservationIds, Abort(r) PROVE Guarded(c)
    <3>0. AbortLeaves(r)
      BY <1>1, <2>7, AbortEffect
    <3>1. PICK e \in Entry :
            Aged(e, contexts'[c]) /\ (e = contexts[c] \/ SameContext(contexts[c], e))
      BY Zenon, <1>1, <2>7, <3>0 DEF AbortLeaves
    <3>2. QED
      BY Zenon, <3>1, NoEntryFields DEF Aged, SameContext
  <2>8. ASSUME NEW o \in Owners, NEW d \in ContextIds, NEW v \in BaseVersions, NEW k \in Keys,
               Release(o, d, v, k)
        PROVE  Guarded(c)
    <3>0. ReleaseLeaves(o, d, v, k)
      BY <1>1, <2>8, ReleaseEffect DEF IInv
    <3>1. \/ Aged(contexts[c], contexts'[c])
          \/ /\ contexts'[c].owner = contexts[c].owner
             /\ contexts'[c].version = contexts[c].version + 1
      BY Zenon, <2>1, <2>8, <3>0 DEF Mutable, ReleaseLeaves
    <3>2. QED
      BY Zenon, <3>1, <2>2, <2>3
  <2>9. CASE Sweep
    BY Zenon, <2>1, <2>2, <2>9, SweepEffect
  <2>10. CASE Tick
    BY Zenon, <2>4, <2>10 DEF Tick
  <2>11. QED
    BY Zenon, <1>1, <2>5, <2>6, <2>7, <2>8, <2>9, <2>10 DEF Next
<1>2. IInv /\ [Next]_vars => [\A c \in ContextIds : Guarded(c)]_vars
  BY Zenon, <1>1
<1>3. QED
  BY <1>2, Invariance, PTL DEF Spec, VersionedChange

\* A retained outcome is never replaced: at most one execution under a key.
THEOREM AtMostOnce == Spec => RetainedOutcomeIsStable
<1>. DEFINE A == \A i \in IdemKeys :
                   idempotency[i].state \in {"failed", "completed"} /\ idempotency[i].retain_until > now
                     => idempotency'[i] = idempotency[i]
<1>1. ASSUME IInv, Next PROVE A
  <2>. SUFFICES ASSUME NEW i \in IdemKeys, idempotency[i].state \in {"failed", "completed"},
                       idempotency[i].retain_until > now
                PROVE  idempotency'[i] = idempotency[i]
    BY Zenon
  <2>1. TypeOK /\ now \in Nat /\ idempotency[i].retain_until \in Nat
    BY Zenon, <1>1 DEF IInv, TypeOK, Outcome
  <2>2. CASE AgedOutcome(idempotency[i], idempotency'[i])
    BY <2>1, <2>2 DEF AgedOutcome
  <2>3. \A r \in ReservationIds : reservations[r].op # "none" =>
          i # Complete(reservations[r].owner, reservations[r].key)
    BY Zenon, <1>1 DEF IInv, BusyMeansRunning
  <2>4. ASSUME NEW q \in Requests, NEW r \in ReservationIds, Reserve(q, r)
        PROVE  idempotency'[i] = idempotency[i]
    <3>1. ReserveLeaves(q, r)
      BY <1>1, <2>4, ReserveEffect DEF IInv
    <3>2. QED
      <4>1. i # Complete(q.owner, q.key) => AgedOutcome(idempotency[i], idempotency'[i])
        BY Zenon, <3>1 DEF ReserveLeaves
      <4>2. i # Complete(q.owner, q.key)
        <5>1. \/ idempotency[Complete(q.owner, q.key)].state = "absent"
              \/ idempotency[Complete(q.owner, q.key)].retain_until <= now
          BY Zenon, <3>1 DEF ReserveLeaves
        <5>2. QED
          BY <5>1, <2>1
      <4>3. QED
        BY Zenon, <4>1, <4>2, <2>2
  <2>5. ASSUME NEW r \in ReservationIds, NEW c \in ContextIds, Commit(r, c)
        PROVE  idempotency'[i] = idempotency[i]
    <3>1. CommitLeaves(r, c)
      BY <1>1, <2>5, CommitEffect
    <3>2. QED
      BY Zenon, <1>1, <2>3, <2>5, <3>1 DEF CommitLeaves
  <2>6. ASSUME NEW r \in ReservationIds, Abort(r)
        PROVE  idempotency'[i] = idempotency[i]
    <3>1. AbortLeaves(r)
      BY Zenon, <1>1, <2>6, AbortEffect
    <3>2. QED
      BY Zenon, <1>1, <2>2, <2>3, <2>6, <3>1 DEF AbortLeaves
  <2>7. ASSUME NEW o \in Owners, NEW d \in ContextIds, NEW v \in BaseVersions, NEW k \in Keys,
               Release(o, d, v, k)
        PROVE  idempotency'[i] = idempotency[i]
    <3>0. ReleaseLeaves(o, d, v, k)
      BY Zenon, <1>1, <2>7, ReleaseEffect DEF IInv
    <3>1. /\ \/ AgedOutcome(idempotency[OfRelease(o, k)], NoOutcome)
             \/ idempotency[OfRelease(o, k)].state = "absent"
          /\ \A j \in IdemKeys \ {OfRelease(o, k)} : AgedOutcome(idempotency[j], idempotency'[j])
      BY Zenon, <2>1, <2>7, <3>0 DEF ReleaseLeaves
    <3>2. i # OfRelease(o, k)
      <4>1. NoOutcome.state = "absent"
        BY Zenon, <2>1, OutcomeFields
      <4>2. QED
        <5>1. \/ idempotency[OfRelease(o, k)].state = "absent"
              \/ idempotency[OfRelease(o, k)].retain_until <= now
          BY Zenon, <4>1, <3>1 DEF AgedOutcome
        <5>2. QED
          BY <5>1, <2>1
    <3>3. QED
      BY Zenon, <3>1, <3>2, <2>2
  <2>8. CASE Sweep
    BY Zenon, <2>1, <2>2, <2>8, SweepEffect
  <2>9. CASE Tick
    BY <2>9 DEF Tick
  <2>10. QED
    BY Zenon, <1>1, <2>4, <2>5, <2>6, <2>7, <2>8, <2>9 DEF Next
<1>2. IInv /\ [Next]_vars => [A]_vars
  BY <1>1
<1>3. QED
  BY <1>2, Invariance, PTL DEF Spec, RetainedOutcomeIsStable
=============================================================================
