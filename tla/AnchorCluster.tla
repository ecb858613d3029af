--------------------------- MODULE AnchorCluster ---------------------------
(***************************************************************************)
(* A cluster served by several Anchor Nodes (NPS-CR-0009): the epoch guard *)
(* of each (nwp/anchor_server.py), the NDP registry their announcements    *)
(* reach, and a ClusterDelegationResolver (nop/cluster_delegation.py) that *)
(* threads of an orchestrator share.                                       *)
(*                                                                         *)
(* The consensus that hands out epochs is external to the code: it grants  *)
(* each epoch once, and the anchor it grants it to may hear of it late.    *)
(* Frames between anchors, failover events and announcements may be lost,  *)
(* delayed, reordered and duplicated.                                      *)
(***************************************************************************)
EXTENDS NdpRegistry, Sequences

CONSTANTS
  Threads,   \* threads that resolve delegation targets
  MaxEpoch,  \* bound on the epochs granted
  MaxSent    \* bound on the announcements sent

ASSUME ClusterAssumption == MaxEpoch \in Nat \ {0} /\ MaxSent \in Nat

VARIABLES
  granted,   \* external: epoch -> the anchor it was granted to
  taken,     \* epochs whose anchor has called on_take_ownership
  guard,     \* AnchorEpochGuard of each anchor
  seq,       \* graph_seq of the last announcement of each anchor
  emitted,   \* anchor_failover events emitted so far that name a successor
  cache,     \* ClusterDelegationResolver._active for the cluster
  thread     \* where each thread is in resolve_active and dispatch

anchors == <<granted, taken, guard, seq, emitted>>
vars == <<registry, anchors, cache, thread>>

Epochs == 1..MaxEpoch
Info == [nid: Nodes, epoch: Epochs]
Waiting == [at |-> "idle", got |-> None]

\* The guards, the events, the resolver's cache and its threads keep their types.
TypeOK ==
  /\ RegistryTypeOK
  /\ granted \in Seq(Nodes) /\ Len(granted) <= MaxEpoch /\ taken \subseteq DOMAIN granted
  /\ guard \in [Nodes -> [epoch: Epochs, role: {"active", "standby"}, degraded: BOOLEAN, fenced: BOOLEAN]]
  /\ seq \in [Nodes -> Nat]
  /\ emitted \subseteq Info
  /\ cache \in Info \union {None}
  /\ thread \in [Threads -> [at: {"idle", "lookup", "store", "send"}, got: Info \union {None}]]

\* The owner of epoch 1 is active, and the others start as standbys.
Init ==
  /\ RegistryInit
  /\ \E a \in Nodes :
       /\ granted = <<a>>
       /\ guard = [n \in Nodes |-> [epoch |-> 1, role |-> IF n = a THEN "active" ELSE "standby",
                                    degraded |-> FALSE, fenced |-> FALSE]]
  /\ taken = {1} /\ seq = [n \in Nodes |-> 0] /\ emitted = {}
  /\ cache = None /\ thread = [t \in Threads |-> Waiting]
-----------------------------------------------------------------------------
(* The anchors. *)

\* Consensus gives the next epoch to an anchor.
Grant(a) ==
  /\ Len(granted) < MaxEpoch
  /\ granted' = Append(granted, a)
  /\ UNCHANGED <<registry, taken, guard, seq, emitted, cache, thread>>

\* on_take_ownership
TakeOwnership(a, e) ==
  /\ e \in DOMAIN granted /\ granted[e] = a
  /\ e > guard[a].epoch
  /\ guard' = [guard EXCEPT ![a] = [epoch |-> e, role |-> "active", degraded |-> FALSE, fenced |-> FALSE]]
  /\ taken' = taken \union {e}
  /\ emitted' = emitted \union {[nid |-> a, epoch |-> e]}
  /\ UNCHANGED <<registry, granted, seq, cache, thread>>

\* Mutant of Fence: the anchor is marked and stays active.
FenceMarked(a, e, sender) ==
  /\ e \in taken /\ sender \in {granted[e], None}
  /\ e > guard[a].epoch
  /\ guard' = [guard EXCEPT ![a].fenced = TRUE]
  /\ emitted' = emitted \union {[nid |-> n, epoch |-> e] : n \in {sender} \ {None}}
  /\ UNCHANGED <<registry, granted, taken, seq, cache, thread>>

\* check_inbound: a frame of a greater epoch demotes the anchor.  It comes from that epoch's
\* owner, or from a client that does not name an anchor; the successor is then empty, and the
\* event one that on_anchor_failover refuses.
Fence(a, e, sender) ==
  /\ e \in taken /\ sender \in {granted[e], None}
  /\ e > guard[a].epoch
  /\ guard' = [guard EXCEPT ![a].role = "standby", ![a].fenced = TRUE]
  /\ emitted' = emitted \union {[nid |-> n, epoch |-> e] : n \in {sender} \ {None}}
  /\ UNCHANGED <<registry, granted, taken, seq, cache, thread>>

\* on_quorum_lost
QuorumLost(a) ==
  /\ guard' = [guard EXCEPT ![a].degraded = TRUE]
  /\ UNCHANGED <<registry, granted, taken, seq, emitted, cache, thread>>

\* on_quorum_restored
QuorumRestored(a) ==
  /\ guard' = [guard EXCEPT ![a].degraded = FALSE]
  /\ UNCHANGED <<registry, granted, taken, seq, emitted, cache, thread>>

\* An anchor that has owned its epoch announces itself with it, or withdraws.
Announce(a, ttl) ==
  /\ Cardinality(sent) < MaxSent /\ granted[guard[a].epoch] = a
  /\ seq' = [seq EXCEPT ![a] = @ + 1]
  /\ sent' = sent \union {[nid |-> a, seq |-> seq[a] + 1, epoch |-> guard[a].epoch,
                           signed |-> now, seen |-> now, ttl |-> ttl]}
  /\ UNCHANGED <<kind, now, entries, highest, withdrawn, granted, taken, guard, emitted, cache, thread>>

\* A heartbeat repeats the last announcement with a new last_seen.
Heartbeat(a) ==
  \E f \in sent :
    /\ Cardinality(sent) < MaxSent
    /\ f.nid = a /\ f.seq = seq[a] /\ f.ttl > 0 /\ f.seen < now
    /\ sent' = sent \union {[f EXCEPT !.seen = now]}
    /\ UNCHANGED <<kind, now, entries, highest, withdrawn, anchors, cache, thread>>
-----------------------------------------------------------------------------
(* The resolver. *)

Resume(t, at, got) == thread' = [thread EXCEPT ![t] = [at |-> at, got |-> got]]

\* resolve_active, first critical section: a hit is used at once.
Get(t) ==
  /\ thread[t].at = "idle"
  /\ IF cache # None THEN Resume(t, "send", cache) ELSE Resume(t, "lookup", None)
  /\ UNCHANGED <<registry, anchors, cache>>

\* resolve_active: resolve_cluster, outside of the lock; a split raises.
LookUp(t) ==
  /\ thread[t].at = "lookup"
  /\ IF Resolved = None THEN Resume(t, "idle", None) ELSE Resume(t, "store", Resolved)
  /\ UNCHANGED <<registry, anchors, cache>>

\* resolve_active, second critical section.
StoreLookup(t) ==
  /\ thread[t].at = "store"
  /\ cache' = thread[t].got
  /\ Resume(t, "send", thread[t].got)
  /\ UNCHANGED <<registry, anchors>>

\* on_anchor_failover
AnchorFailover(ev) ==
  /\ ev \in emitted
  /\ cache # None => ev.epoch > cache.epoch
  /\ cache' = ev
  /\ UNCHANGED <<registry, anchors, thread>>

\* check_inbound for a topology write that carries no epoch.
Accepts(a) == guard[a].role = "active" /\ ~guard[a].degraded

\* The caller sends the delegation to its target and, on NWP-ANCHOR-NOT-LEADER, invalidates
\* the entry, as the docstring of invalidate asks it to.
Dispatch(t) ==
  /\ thread[t].at = "send"
  /\ cache' = IF Accepts(thread[t].got.nid) THEN cache ELSE None
  /\ Resume(t, "idle", None)
  /\ UNCHANGED <<registry, anchors>>
-----------------------------------------------------------------------------
Anchor(a) ==
  \/ Grant(a) \/ QuorumLost(a) \/ QuorumRestored(a) \/ Heartbeat(a)
  \/ \E e \in Epochs : TakeOwnership(a, e) \/ \E s \in Nodes \union {None} : Fence(a, e, s)
  \/ \E ttl \in {0, Ttl} : Announce(a, ttl)

Resolve(t) == Get(t) \/ LookUp(t) \/ StoreLookup(t) \/ Dispatch(t)

Next ==
  \/ \E a \in Nodes : Anchor(a)
  \/ \E f \in sent : (ApplyAnnounce(f) \/ MemoryAnnounce(f)) /\ UNCHANGED <<anchors, cache, thread>>
  \/ Tick /\ UNCHANGED <<anchors, cache, thread>>
  \/ \E t \in Threads : Resolve(t)
  \/ \E ev \in emitted : AnchorFailover(ev)

Spec == Init /\ [][Next]_vars
-----------------------------------------------------------------------------
(* Properties. *)

\* What the resolver hands out was true once: the anchor did own the epoch it is cached with,
\* whatever events and announcements reached the resolver, and in whatever order.
CacheReal ==
  /\ cache # None => granted[cache.epoch] = cache.nid /\ cache.epoch \in taken
  /\ \A t \in Threads : thread[t].got # None => granted[thread[t].got.epoch] = thread[t].got.nid

\* A superseded leader accepts no topology write at the epoch it was fenced at: quorum changes,
\* repeated frames and late grants do not bring it back ("this Anchor is a superseded leader").
FenceHolds ==
  /\ \A a \in Nodes : guard[a].fenced => ~Accepts(a)
  /\ \A a, b \in Nodes : Accepts(a) /\ Accepts(b) /\ guard[a].epoch = guard[b].epoch => a = b

\* Whenever the registry knows the newest owner at its epoch, that is who it resolves to: an
\* older leader that keeps announcing neither wins nor causes a split.
ResolvesNewest ==
  \A e \in taken :
    LET a == granted[e]
    IN  (\A d \in taken : d <= e) /\ a \in Live /\ EpochOf(a) = e => Resolved = [nid |-> a, epoch |-> e]

\* What resolving answers is true, from the cache and from the registry.
ResolutionTrue == CacheReal /\ ResolvesNewest

\* With NdpRegistryProfile the registry never goes back, although announcements arrive in any
\* order ("NDP-GRAPH-SEQ-ROLLBACK"): an anchor's registered epoch does not decrease, and an entry
\* is newer than the last withdrawal of its NID, whatever arrives late.
NoRollback ==
  [][\A a \in Nodes : entries[a]' # None =>
       /\ kind # "memory" /\ entries[a] # None => EpochOf(a) <= EpochOf(a)'
       /\ entries[a]'.frame.seq > withdrawn[a]']_vars

=============================================================================
