--------------------------- MODULE LlmContextStore ---------------------------
(***************************************************************************)
(* InMemoryLlmContextStore (nwp/context_store.py): the state machine that  *)
(* keeps the conversation contexts of an NWP LLM node.  A mutation of a    *)
(* context is a two-phase affair: reserve() admits it and, once the model  *)
(* has answered, commit() applies it or abort() drops it.  Every public    *)
(* method holds one re-entrant lock, so each of them is one action here;   *)
(* what interleaves is the calls of different requests.                    *)
(*                                                                         *)
(* Abstractions: a turn of the transcript (the request's messages and the  *)
(* assistant's answer) is the id of the reservation that wrote it; a       *)
(* binding is its fingerprint; time is a counter of seconds.  A call that  *)
(* is refused, a replayed release, status(), snapshot() and                *)
(* sweep_expired() leave nothing behind but the sweep they start with:     *)
(* they are all the action Sweep.                                          *)
(***************************************************************************)
EXTENDS Integers, Sequences, FiniteSets

CONSTANTS
  Owners,         \* principals: (nid, security_scope) pairs
  Keys,           \* client-chosen idempotency keys
  ContextIds,     \* what context_id_factory can produce
  ReservationIds, \* uuid4 values; never issued twice
  Bindings,       \* binding fingerprints
  BaseVersions,   \* the base_version values clients send
  TtlRequests,    \* the ttl_seconds values clients send; 0: not given
  SupportedOps,   \* options.supported_operations
  MaxContexts,    \* options.max_contexts_per_principal
  DefaultTtl,     \* options.default_ttl_seconds
  MaxTtl,         \* options.max_ttl_seconds
  Tombstone,      \* options.tombstone_seconds
  IdemTtl,        \* options.idempotency_ttl
  MaxTime,        \* bound on the clock
  None            \* Python's None

ASSUME IdsAssumption ==
  /\ IsFiniteSet(ContextIds) /\ IsFiniteSet(ReservationIds)
  /\ None \notin Owners \union ContextIds \union ReservationIds \union Bindings

ASSUME OptionsAssumption ==
  /\ MaxContexts \in Nat /\ Tombstone \in Nat /\ IdemTtl \in Nat /\ MaxTime \in Nat
  /\ DefaultTtl \in Nat \ {0} /\ MaxTtl \in Nat \ {0}
  /\ TtlRequests \subseteq Nat /\ BaseVersions \subseteq Nat

VARIABLES
  now,           \* what options.clock() returns
  contexts,      \* self._contexts
  idempotency,   \* self._idempotency
  reservations,  \* self._reservations
  author         \* history: the owner each reservation id was issued to

vars == <<now, contexts, idempotency, reservations, author>>
-----------------------------------------------------------------------------
NoTime == -1

Mutations   == {"create", "append", "fork", "reset"}
Allocating  == {"create", "fork"}     \* mutations that make a new context
InPlace     == {"append", "reset"}    \* mutations that lock their context

\* self._idempotency is keyed by owner, action and client key.
Complete(o, k) == <<o, "complete", k>>
OfRelease(o, k) == <<o, "release", k>>
IdemKeys == Owners \X {"complete", "release"} \X Keys

Entry ==
  [state: {"absent", "active", "expired", "released"}, owner: Owners \union {None},
   version: Nat, binding: Bindings \union {None}, transcript: Seq(ReservationIds),
   ttl: Nat, expires_at: Nat \union {NoTime}, tombstone_until: Nat \union {NoTime},
   reservation: ReservationIds \union {None}]

NoEntry ==
  [state |-> "absent", owner |-> None, version |-> 0, binding |-> None,
   transcript |-> << >>, ttl |-> 0, expires_at |-> NoTime,
   tombstone_until |-> NoTime, reservation |-> None]

Outcome ==
  [state: {"absent", "busy", "failed", "completed"}, retain_until: Nat,
   reservation: ReservationIds \union {None},
   context: ContextIds \union {None}, version: Nat]

NoOutcome ==
  [state |-> "absent", retain_until |-> 0, reservation |-> None,
   context |-> None, version |-> 0]

Reservation ==
  [op: Mutations \union {"none"}, owner: Owners \union {None}, key: Keys \union {None},
   binding: Bindings \union {None}, context: ContextIds \union {None},
   base_version: Nat, base_transcript: Seq(ReservationIds), ttl: Nat]

NoReservation ==
  [op |-> "none", owner |-> None, key |-> None, binding |-> None,
   context |-> None, base_version |-> 0, base_transcript |-> << >>, ttl |-> 0]

Requests ==
  [op: {"create"}, owner: Owners, key: Keys, binding: Bindings,
   context: {None}, base_version: {0}, ttl: TtlRequests]
  \union
  [op: {"append", "fork", "reset"}, owner: Owners, key: Keys, binding: Bindings,
   context: ContextIds, base_version: BaseVersions, ttl: TtlRequests]
-----------------------------------------------------------------------------
(* The sweep: expire idle contexts, then forget old tombstones and outcomes. *)

\* Mutant of Expire: a context a mutation holds expires under it.
ExpireHeld(e) ==
  IF e.state = "active" /\ e.expires_at # NoTime /\ e.expires_at <= now
    THEN [e EXCEPT !.state = "expired", !.expires_at = NoTime,
                   !.tombstone_until = now + Tombstone]
    ELSE e

Expire(e) ==
  IF e.state = "active" /\ e.reservation = None
       /\ e.expires_at # NoTime /\ e.expires_at <= now
    THEN [e EXCEPT !.state = "expired", !.expires_at = NoTime,
                   !.tombstone_until = now + Tombstone]
    ELSE e

\* Mutant of Forget: no tombstone, a finished context goes with the next sweep.
ForgetAtOnce(e) == IF e.state \in {"expired", "released"} THEN NoEntry ELSE e

Forget(e) ==
  IF e.state \in {"expired", "released"}
       /\ e.tombstone_until # NoTime /\ e.tombstone_until <= now
    THEN NoEntry ELSE e

ForgetOutcome(x) ==
  IF x.state \in {"failed", "completed"} /\ x.retain_until <= now
    THEN NoOutcome ELSE x

SweepContexts(cs) == [c \in ContextIds |-> Forget(Expire(cs[c]))]
SweepOutcomes(is) == [i \in IdemKeys |-> ForgetOutcome(is[i])]
-----------------------------------------------------------------------------
(* Guards of reserve() and release(), evaluated on swept contexts cs. *)

Live(cs, o) == {c \in ContextIds : cs[c].state = "active" /\ cs[c].owner = o}

Pending(o) ==
  {r \in ReservationIds : reservations[r].op \in Allocating /\ reservations[r].owner = o}

\* Mutant of AllocationAvailable: creates and forks in flight are not counted.
AllocationIgnoringPending(cs, o) == Cardinality(Live(cs, o)) < MaxContexts

AllocationAvailable(cs, o) ==
  Cardinality(Live(cs, o)) + Cardinality(Pending(o)) < MaxContexts

\* Mutant of Mutable: no owner test.
MutableByAnyone(cs, o, c, v) ==
  cs[c].state = "active" /\ cs[c].reservation = None /\ cs[c].version = v

\* _require_mutable plus the version test both callers make right after it.
Mutable(cs, o, c, v) ==
  /\ cs[c].state = "active"
  /\ cs[c].owner = o
  /\ cs[c].reservation = None
  /\ cs[c].version = v

Clamp(t) == IF t <= MaxTtl THEN t ELSE MaxTtl

\* Mutant of EffectiveTtl: a fork inherits the remaining time with its sign turned.
EffectiveTtlSwapped(cs, q) ==
  IF q.op = "create" THEN Clamp(IF q.ttl = 0 THEN DefaultTtl ELSE q.ttl)
  ELSE IF q.ttl # 0 THEN Clamp(q.ttl)
  ELSE IF q.op = "fork" THEN now - cs[q.context].expires_at ELSE cs[q.context].ttl

EffectiveTtl(cs, q) ==
  IF q.op = "create" THEN Clamp(IF q.ttl = 0 THEN DefaultTtl ELSE q.ttl)
  ELSE IF q.ttl # 0 THEN Clamp(q.ttl)
  ELSE IF q.op = "fork"
    THEN IF cs[q.context].expires_at - now >= 1 THEN cs[q.context].expires_at - now ELSE 1
    ELSE cs[q.context].ttl

\* Mutant of Admissible: a failed call may run again under its key.
AdmissibleAfterFailure(cs, is, q) ==
  /\ q.op \in SupportedOps
  /\ is[Complete(q.owner, q.key)].state \in {"absent", "failed"}
  /\ q.op # "create" => Mutable(cs, q.owner, q.context, q.base_version)
  /\ q.op \in {"append", "fork"} => cs[q.context].binding = q.binding
  /\ q.op \in Allocating => AllocationAvailable(cs, q.owner)

Admissible(cs, is, q) ==
  /\ q.op \in SupportedOps
  /\ is[Complete(q.owner, q.key)].state = "absent"
  /\ q.op # "create" => Mutable(cs, q.owner, q.context, q.base_version)
  /\ q.op \in {"append", "fork"} => cs[q.context].binding = q.binding
  /\ q.op \in Allocating => AllocationAvailable(cs, q.owner)
-----------------------------------------------------------------------------
(* The operations. *)

BusyOutcome(r) ==
  [state |-> "busy", retain_until |-> now + IdemTtl, reservation |-> r,
   context |-> None, version |-> 0]

CompletedOutcome(c, v) ==
  [state |-> "completed", retain_until |-> now + IdemTtl, reservation |-> None,
   context |-> c, version |-> v]

FailedOutcome ==
  [state |-> "failed", retain_until |-> now + IdemTtl, reservation |-> None,
   context |-> None, version |-> 0]

NewReservation(cs, q) ==
  [op |-> q.op, owner |-> q.owner, key |-> q.key, binding |-> q.binding,
   context |-> q.context, base_version |-> q.base_version,
   base_transcript |-> IF q.op = "create" THEN << >> ELSE cs[q.context].transcript,
   ttl |-> EffectiveTtl(cs, q)]

\* reserve(request) that is admitted, under the fresh id r.
Reserve(q, r) ==
  LET cs == SweepContexts(contexts)
      is == SweepOutcomes(idempotency)
  IN  /\ author[r] = None
      /\ Admissible(cs, is, q)
      /\ reservations' = [reservations EXCEPT ![r] = NewReservation(cs, q)]
      /\ contexts' = IF q.op \in InPlace
                       THEN [cs EXCEPT ![q.context].reservation = r] ELSE cs
      /\ idempotency' = [is EXCEPT ![Complete(q.owner, q.key)] = BusyOutcome(r)]
      /\ author' = [author EXCEPT ![r] = q.owner]
      /\ UNCHANGED now

NewEntry(res, r) ==
  [state |-> "active", owner |-> res.owner, version |-> 1, binding |-> res.binding,
   transcript |-> Append(IF res.op = "fork" THEN res.base_transcript ELSE << >>, r),
   ttl |-> res.ttl, expires_at |-> now + res.ttl,
   tombstone_until |-> NoTime, reservation |-> None]

\* Mutant of MutatedEntry: the version is not bumped.
MutatedInPlace(e, res, r) ==
  [e EXCEPT !.reservation = None, !.expires_at = now + res.ttl, !.ttl = res.ttl,
            !.transcript = IF res.op = "reset" THEN <<r>> ELSE Append(e.transcript, r)]

MutatedEntry(e, res, r) ==
  [e EXCEPT !.state = "active", !.version = e.version + 1, !.reservation = None,
            !.expires_at = now + res.ttl, !.ttl = res.ttl,
            !.binding = IF res.op = "reset" THEN res.binding ELSE e.binding,
            !.transcript = IF res.op = "reset" THEN <<r>> ELSE Append(e.transcript, r)]

\* commit(reservation, assistant_result); c is the context it writes.  It does not sweep.
Commit(r, c) ==
  LET res == reservations[r]
  IN  /\ res.op # "none"
      /\ IF res.op \in Allocating
           THEN /\ contexts[c].state = "absent"
                /\ contexts' = [contexts EXCEPT ![c] = NewEntry(res, r)]
           ELSE /\ c = res.context
                /\ contexts[c].state # "absent"
                /\ contexts' = [contexts EXCEPT ![c] = MutatedEntry(contexts[c], res, r)]
      /\ idempotency' = [idempotency EXCEPT ![Complete(res.owner, res.key)] =
                           CompletedOutcome(c, contexts'[c].version)]
      /\ reservations' = [reservations EXCEPT ![r] = NoReservation]
      /\ UNCHANGED <<now, author>>

\* _clear_reservation
Unlock(cs, r) ==
  [c \in ContextIds |-> IF reservations[r].context = c /\ cs[c].reservation = r
                          THEN [cs[c] EXCEPT !.reservation = None] ELSE cs[c]]

\* abort(reservation, error_code)
Abort(r) ==
  LET res == reservations[r]
  IN  /\ res.op # "none"
      /\ contexts' = SweepContexts(Unlock(contexts, r))
      /\ idempotency' = SweepOutcomes([idempotency EXCEPT
                          ![Complete(res.owner, res.key)] = FailedOutcome])
      /\ reservations' = [reservations EXCEPT ![r] = NoReservation]
      /\ UNCHANGED <<now, author>>

\* Mutant of Release: no test that the context is active.
ReleaseForEver(o, c, v, k) ==
  LET cs == SweepContexts(contexts)
      is == SweepOutcomes(idempotency)
  IN  /\ "release" \in SupportedOps
      /\ is[OfRelease(o, k)].state = "absent"
      /\ cs[c].owner = o /\ cs[c].reservation = None /\ cs[c].version = v
      /\ contexts' = [cs EXCEPT ![c].version = v + 1, ![c].state = "released",
                                ![c].expires_at = NoTime,
                                ![c].tombstone_until = now + Tombstone]
      /\ idempotency' = [is EXCEPT ![OfRelease(o, k)] = CompletedOutcome(c, v + 1)]
      /\ UNCHANGED <<now, reservations, author>>

\* release(owner, context_id, base_version, idempotency_key) that is carried out.
Release(o, c, v, k) ==
  LET cs == SweepContexts(contexts)
      is == SweepOutcomes(idempotency)
  IN  /\ "release" \in SupportedOps
      /\ is[OfRelease(o, k)].state = "absent"
      /\ Mutable(cs, o, c, v)
      /\ contexts' = [cs EXCEPT ![c].version = v + 1, ![c].state = "released",
                                ![c].expires_at = NoTime,
                                ![c].tombstone_until = now + Tombstone]
      /\ idempotency' = [is EXCEPT ![OfRelease(o, k)] = CompletedOutcome(c, v + 1)]
      /\ UNCHANGED <<now, reservations, author>>

\* Every other call: see the head of the module.
Sweep ==
  /\ contexts' = SweepContexts(contexts)
  /\ idempotency' = SweepOutcomes(idempotency)
  /\ UNCHANGED <<now, reservations, author>>

Tick ==
  /\ now < MaxTime
  /\ now' = now + 1
  /\ UNCHANGED <<contexts, idempotency, reservations, author>>
-----------------------------------------------------------------------------
Init ==
  /\ now = 0
  /\ contexts = [c \in ContextIds |-> NoEntry]
  /\ idempotency = [i \in IdemKeys |-> NoOutcome]
  /\ reservations = [r \in ReservationIds |-> NoReservation]
  /\ author = [r \in ReservationIds |-> None]

Next ==
  \/ \E q \in Requests, r \in ReservationIds : Reserve(q, r)
  \/ \E r \in ReservationIds, c \in ContextIds : Commit(r, c)
  \/ \E r \in ReservationIds : Abort(r)
  \/ \E o \in Owners, c \in ContextIds, v \in BaseVersions, k \in Keys : Release(o, c, v, k)
  \/ Sweep
  \/ Tick

Spec == Init /\ [][Next]_vars
-----------------------------------------------------------------------------
\* The store's three dictionaries keep the types its records declare (context_store.py).
TypeOK ==
  /\ now \in Nat
  /\ contexts \in [ContextIds -> Entry]
  /\ idempotency \in [IdemKeys -> Outcome]
  /\ reservations \in [ReservationIds -> Reservation]
  /\ author \in [ReservationIds -> Owners \union {None}]

\* The quota _ensure_allocation_available guards: live contexts and the creates and
\* forks still running never exceed max_contexts_per_principal, although commit(),
\* which turns one into the other, does not look at the quota again.
QuotaRespected ==
  \A o \in Owners :
    Cardinality(Live(contexts, o)) + Cardinality(Pending(o)) <= MaxContexts

\* The lock reserve() takes with entry.reservation_id: a running append or reset holds
\* its context, still active and still at the base_version and the transcript the
\* client named, whatever sweeps, releases and other mutations happen before commit(),
\* which checks none of this again; and only such a mutation holds a context.
MutationHoldsContext ==
  /\ \A r \in ReservationIds : reservations[r].op \in InPlace =>
       LET e == contexts[reservations[r].context]
       IN  /\ e.reservation = r
           /\ e.state = "active"
           /\ e.owner = reservations[r].owner
           /\ e.version = reservations[r].base_version
           /\ e.transcript = reservations[r].base_transcript
  /\ \A c \in ContextIds : contexts[c].reservation # None =>
       /\ reservations[contexts[c].reservation].op \in InPlace
       /\ reservations[contexts[c].reservation].context = c

\* An idempotency key is busy exactly while the one reservation made under it runs:
\* no key is left busy for ever and no two mutations run under one key.
BusyMeansRunning ==
  /\ \A r \in ReservationIds : reservations[r].op # "none" =>
       LET x == idempotency[Complete(reservations[r].owner, reservations[r].key)]
       IN  x.state = "busy" /\ x.reservation = r
  /\ \A o \in Owners, k \in Keys : idempotency[Complete(o, k)].state = "busy" =>
       LET r == idempotency[Complete(o, k)].reservation
       IN  /\ r # None
           /\ reservations[r].op # "none"
           /\ reservations[r].owner = o /\ reservations[r].key = k

\* Both locks of a mutation, on its context and on its key, are held exactly while it runs, so
\* that neither begin() can admit a second one nor an exit leave one behind.
LocksHeld == MutationHoldsContext /\ BusyMeansRunning

\* Forks copy transcripts between contexts and commits come late, yet a context only
\* ever holds turns written by its own owner (_ensure_owner in every path).
OwnTurnsOnly ==
  /\ \A c \in ContextIds : \A i \in 1..Len(contexts[c].transcript) :
       author[contexts[c].transcript[i]] = contexts[c].owner
  /\ \A r \in ReservationIds : \A i \in 1..Len(reservations[r].base_transcript) :
       author[reservations[r].base_transcript[i]] = reservations[r].owner

\* While the outcome of a completed call is retained, status(idempotency_key) finds the
\* context it names: still there, or at least as a tombstone, owned by the caller and not
\* older than the receipt.  Holds when outcomes are not kept longer than tombstones
\* (both default to 24 hours).
ReceiptResolvable ==
  IdemTtl <= Tombstone =>
    \A i \in IdemKeys : idempotency[i].state = "completed" =>
      LET e == contexts[idempotency[i].context]
      IN  /\ e.state # "absent"
          /\ e.owner = i[1]
          /\ e.version >= idempotency[i].version

\* A context that expired or was released never comes back to life: a step leaves it
\* as it is or forgets it.
TerminalIsFinal ==
  [][\A c \in ContextIds : contexts[c].state \in {"expired", "released"} =>
       contexts'[c] \in {contexts[c], NoEntry}]_vars

\* Optimistic concurrency: as long as a context exists its owner stays, its version
\* goes up by at most one in a step, and its transcript and its binding only change
\* with the version.
VersionedChange ==
  [][\A c \in ContextIds : contexts[c].state # "absent" /\ contexts'[c].state # "absent" =>
       /\ contexts'[c].owner = contexts[c].owner
       /\ contexts'[c].version \in {contexts[c].version, contexts[c].version + 1}
       /\ contexts'[c].version = contexts[c].version =>
            /\ contexts'[c].transcript = contexts[c].transcript
            /\ contexts'[c].binding = contexts[c].binding]_vars

\* At most once: an outcome that is recorded and within its retention is never
\* replaced, so the call it belongs to cannot run a second time under its key.
RetainedOutcomeIsStable ==
  [][\A i \in IdemKeys :
       idempotency[i].state \in {"failed", "completed"} /\ idempotency[i].retain_until > now
         => idempotency'[i] = idempotency[i]]_vars
-----------------------------------------------------------------------------
(* The strengthening that makes the invariants above inductive. *)

\* Absent records are the null records; present ones name their owner, and only a
\* context that is no longer active carries a tombstone.
WellFormed ==
  /\ \A c \in ContextIds :
       /\ contexts[c].state = "absent" => contexts[c] = NoEntry
       /\ contexts[c].state # "absent" => contexts[c].owner \in Owners
       /\ contexts[c].state \in {"expired", "released"} => contexts[c].tombstone_until \in Nat
       /\ contexts[c].reservation # None => contexts[c].state = "active"
  /\ \A r \in ReservationIds :
       /\ reservations[r].op = "none" => reservations[r] = NoReservation
       /\ reservations[r].op # "none" =>
            /\ reservations[r].owner \in Owners /\ reservations[r].key \in Keys
            /\ author[r] = reservations[r].owner
       /\ reservations[r].op \in Mutations \ {"create"} =>
            reservations[r].context \in ContextIds

\* An outcome is kept for IdemTtl from when it was recorded, and never longer than the
\* tombstone of the context it names.
RetentionOrdered ==
  \A i \in IdemKeys :
    /\ idempotency[i].retain_until <= now + IdemTtl
    /\ idempotency[i].state = "completed" =>
         /\ idempotency[i].context \in ContextIds
         /\ IdemTtl <= Tombstone =>
              (contexts[idempotency[i].context].state \in {"expired", "released"} =>
                 idempotency[i].retain_until <= contexts[idempotency[i].context].tombstone_until)

IInv ==
  /\ TypeOK /\ WellFormed /\ QuotaRespected /\ MutationHoldsContext
  /\ BusyMeansRunning /\ OwnTurnsOnly /\ RetentionOrdered /\ ReceiptResolvable
=============================================================================
