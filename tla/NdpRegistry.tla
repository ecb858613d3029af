---------------------------- MODULE NdpRegistry ----------------------------
(***************************************************************************)
(* An NDP registry: NdpRegistryProfile (ndp/registry_profile.py) or        *)
(* InMemoryNdpRegistry (ndp/registry.py), with the election of a cluster's *)
(* owner (ndp/cluster.py).  Announcements reach it late, out of order,     *)
(* several times or never.  Addresses, bridges and signatures are left     *)
(* out; what a signature covers is kept, for it decides about conflicts.   *)
(***************************************************************************)
EXTENDS Integers, FiniteSets

CONSTANTS
  Nodes,     \* NIDs of the cluster's anchors
  Kinds,     \* registries considered: "profile" and "local-dev" (NdpRegistryProfile), "memory"
  MaxTime,   \* bound on the clock
  Ttl,       \* ttl of an announcement that is not a withdrawal
  Skew,      \* accepted age of a signed timestamp
  None

ASSUME RegistryAssumption ==
  /\ Kinds \subseteq {"profile", "local-dev", "memory"}
  /\ MaxTime \in Nat /\ Ttl \in Nat \ {0} /\ Skew \in Nat
  /\ None \notin Nodes

VARIABLES
  kind,     \* which registry this is
  now,      \* the clock
  sent,     \* announcements that were sent: each may arrive at any time, any number of times
  entries,  \* NID -> the announcement stored and when it expires, or None
  highest,  \* NID -> highest graph_seq seen, -1 for none
  withdrawn \* history: NID -> graph_seq of the last withdrawal that was applied, -1 for none

registry == <<kind, now, sent, entries, highest, withdrawn>>

Frame == [nid: Nodes, seq: Nat, epoch: Nat, signed: Nat, seen: Nat, ttl: {0, Ttl}]

RegistryTypeOK ==
  /\ kind \in Kinds /\ now \in 0..MaxTime
  /\ sent \subseteq Frame
  /\ entries \in [Nodes -> [frame: Frame, expires: Nat] \union {None}]
  /\ highest \in [Nodes -> Nat \union {-1}] /\ withdrawn \in [Nodes -> Nat \union {-1}]

RegistryInit ==
  /\ kind \in Kinds /\ now = 0 /\ sent = {}
  /\ entries = [n \in Nodes |-> None] /\ highest = [n \in Nodes |-> -1]
  /\ withdrawn = [n \in Nodes |-> -1]
-----------------------------------------------------------------------------
(* Admission. *)

\* canonical_announce_json: last_seen is not in the signed body.
Signed(f) == [f EXCEPT !.seen = 0]

\* _freshness_deadline
Deadline(f) == f.seen + f.ttl

\* A repetition of the highest graph_seq of its NID.
Repeated(f) ==
  LET held == entries[f.nid]
  IN  IF held = None THEN "duplicate"
      ELSE IF Signed(held.frame) # Signed(f) THEN "rejected"
      ELSE IF held.frame.seen = f.seen THEN "duplicate"
      ELSE IF Deadline(f) <= now THEN "rejected"
      ELSE "refreshed"

\* NdpRegistryProfile.apply_announce
Admission(f) ==
  IF kind = "profile" /\ now - f.signed > Skew THEN "rejected"
  ELSE IF f.seq < highest[f.nid] THEN "rejected"
  ELSE IF f.seq = highest[f.nid] THEN Repeated(f)
  ELSE IF f.ttl = 0 THEN "removed"
  ELSE IF Deadline(f) <= now THEN "rejected"
  ELSE "accepted"

\* Mutant of ApplyAnnounce: a withdrawal forgets the sequence number with the entry.
ApplyAnnounceForgetful(f) ==
  LET d == Admission(f)
  IN  /\ kind # "memory" /\ f \in sent
      /\ d \in {"accepted", "refreshed", "removed"}
      /\ entries' = [entries EXCEPT ![f.nid] =
                       IF d = "removed" THEN None ELSE [frame |-> f, expires |-> Deadline(f)]]
      /\ highest' = [highest EXCEPT ![f.nid] = IF d = "removed" THEN -1 ELSE f.seq]
      /\ withdrawn' = IF d = "removed" THEN [withdrawn EXCEPT ![f.nid] = f.seq] ELSE withdrawn
      /\ UNCHANGED <<kind, now, sent>>

\* The state changes of apply_announce; a rejected or duplicate frame makes none.
ApplyAnnounce(f) ==
  LET d == Admission(f)
  IN  /\ kind # "memory" /\ f \in sent
      /\ d \in {"accepted", "refreshed", "removed"}
      /\ entries' = [entries EXCEPT ![f.nid] =
                       IF d = "removed" THEN None ELSE [frame |-> f, expires |-> Deadline(f)]]
      /\ highest' = [highest EXCEPT ![f.nid] = f.seq]
      /\ withdrawn' = IF d = "removed" THEN [withdrawn EXCEPT ![f.nid] = f.seq] ELSE withdrawn
      /\ UNCHANGED <<kind, now, sent>>

\* InMemoryNdpRegistry.announce: the last frame to arrive wins, for ttl from its arrival.
MemoryAnnounce(f) ==
  /\ kind = "memory" /\ f \in sent
  /\ entries' = [entries EXCEPT ![f.nid] =
                   IF f.ttl = 0 THEN None ELSE [frame |-> f, expires |-> now + f.ttl]]
  /\ UNCHANGED <<kind, now, sent, highest, withdrawn>>

Tick == now < MaxTime /\ now' = now + 1 /\ UNCHANGED <<kind, sent, entries, highest, withdrawn>>
-----------------------------------------------------------------------------
(* The election. *)

\* get_all, the expires_at filter of NdpRegistryProfile.resolve_cluster
Live == {n \in Nodes : entries[n] # None /\ entries[n].expires > now}

EpochOf(n) == entries[n].frame.epoch

\* The live members with the highest epoch.
Leaders == {n \in Live : \A m \in Live : EpochOf(m) <= EpochOf(n)}

\* Mutant of Resolved: a tie, or an entry of an older epoch, does not matter.
ResolvedAny == IF Live = {} THEN None
               ELSE LET n == CHOOSE n \in Live : \A m \in Live : entries[m].frame.seq <= entries[n].frame.seq
                    IN  [nid |-> n, epoch |-> EpochOf(n)]

\* resolve_cluster_from: one leader, or none; several are a split, which raises.
Resolved ==
  IF Cardinality(Leaders) # 1 THEN None
  ELSE LET n == CHOOSE n \in Leaders : TRUE IN [nid |-> n, epoch |-> EpochOf(n)]
=============================================================================
