------------------------ MODULE AnchorClusterProofs ------------------------
(***************************************************************************)
(* The safety of AnchorCluster, for any number of anchors, threads, epochs *)
(* and announcements, and for every registry.                              *)
(*                                                                         *)
(* The inductive invariant says what every copy of an ownership is worth.  *)
(* An anchor's guard holds an epoch that was taken; whatever names an      *)
(* anchor with an epoch (an event, an announcement, the cache, a thread)   *)
(* names the owner of a taken epoch; what the registry stores was sent;    *)
(* and the announcements of an anchor grow in sequence number and epoch    *)
(* together, which is what lets the registry order epochs by sequence      *)
(* numbers alone.                                                          *)
(***************************************************************************)
EXTENDS AnchorCluster, TLAPS, FiniteSetTheorems

\* The epoch was taken by the anchor it is named with.
Real(i) == i.epoch \in taken /\ granted[i.epoch] = i.nid

Guarded ==
  \A a \in Nodes :
    /\ guard[a].epoch \in taken
    /\ guard[a].fenced => guard[a].role = "standby"
    /\ guard[a].role = "active" => granted[guard[a].epoch] = a

Told ==
  /\ \A ev \in emitted : Real(ev)
  /\ cache # None => Real(cache)
  /\ \A t \in Threads : thread[t].got # None => Real(thread[t].got)

Recorded ==
  /\ \A f \in sent : Real(f)
  /\ \A n \in Nodes : entries[n] # None => entries[n].frame \in sent /\ entries[n].frame.nid = n

Ordered ==
  /\ \A f \in sent : f.seq <= seq[f.nid] /\ f.epoch <= guard[f.nid].epoch
  /\ \A f, g \in sent : f.nid = g.nid /\ f.seq <= g.seq => f.epoch <= g.epoch

Sequenced ==
  \A n \in Nodes :
    /\ kind = "memory" => withdrawn[n] = -1
    /\ kind # "memory" => withdrawn[n] <= highest[n]
    /\ kind # "memory" /\ entries[n] # None =>
         entries[n].frame.seq = highest[n] /\ withdrawn[n] < highest[n]

ClusterInv == TypeOK /\ Guarded /\ Told /\ Recorded /\ Ordered /\ Sequenced
-----------------------------------------------------------------------------
(* What the election answers. *)

\* A member of the cluster that is live has announced an epoch that it owned.
LEMMA LiveReal ==
  ASSUME ClusterInv, NEW n \in Live
  PROVE  /\ n \in Nodes /\ entries[n].frame \in Frame
         /\ EpochOf(n) \in taken /\ EpochOf(n) \in Epochs /\ granted[EpochOf(n)] = n
<1>1. n \in Nodes /\ entries[n] # None
  BY DEF Live
<1>2. entries[n].frame \in sent /\ entries[n].frame.nid = n
  BY <1>1 DEF ClusterInv, Recorded
<1>3. entries[n].frame \in Frame
  BY <1>2 DEF ClusterInv, TypeOK, RegistryTypeOK
<1>4. entries[n].frame.epoch \in taken /\ granted[entries[n].frame.epoch] = n
  BY <1>2 DEF ClusterInv, Recorded, Real
<1>5. entries[n].frame.epoch \in 1 .. Len(granted) /\ Len(granted) \in Nat /\ Len(granted) <= MaxEpoch
  BY <1>4 DEF ClusterInv, TypeOK
<1>. QED
  BY <1>1, <1>3, <1>4, <1>5, ClusterAssumption DEF EpochOf, Epochs

\* resolve_cluster names the owner of a taken epoch, or nobody.
LEMMA ResolvedReal ==
  ASSUME ClusterInv, Resolved # None
  PROVE  Resolved \in Info /\ Real(Resolved)
<1>1. Cardinality(Leaders) = 1
  BY DEF Resolved
<1>2. Leaders # {}
  BY <1>1, FS_EmptySet
<1>3. PICK n \in Leaders : Resolved = [nid |-> n, epoch |-> EpochOf(n)]
  BY Zenon, <1>1, <1>2 DEF Resolved
<1>4. n \in Live
  BY <1>3 DEF Leaders
<1>. QED
  BY <1>3, <1>4, LiveReal DEF Info, Real
-----------------------------------------------------------------------------
(* The anchors keep the invariant. *)

\* Nothing has been announced, and epoch 1 has its owner.
LEMMA InitInv == Init => ClusterInv
<1>. SUFFICES ASSUME Init PROVE ClusterInv
  OBVIOUS
<1>. USE ClusterAssumption, RegistryAssumption
<1>1. PICK a \in Nodes :
        /\ granted = <<a>>
        /\ guard = [n \in Nodes |-> [epoch |-> 1, role |-> IF n = a THEN "active" ELSE "standby",
                                     degraded |-> FALSE, fenced |-> FALSE]]
  BY Zenon DEF Init
<1>2. RegistryTypeOK /\ sent = {} /\ Sequenced
  BY DEF Init, RegistryInit, RegistryTypeOK, Sequenced
<1>3. granted \in Seq(Nodes) /\ Len(granted) = 1 /\ taken = {1} /\ taken \subseteq DOMAIN granted /\ granted[1] = a
  BY <1>1 DEF Init
<1>4. guard \in [Nodes -> [epoch: Epochs, role: {"active", "standby"}, degraded: BOOLEAN, fenced: BOOLEAN]]
  BY <1>1 DEF Epochs
<1>5. TypeOK
  BY <1>2, <1>3, <1>4 DEF Init, TypeOK, Waiting
<1>6. Guarded
  BY <1>1, <1>3 DEF Guarded
<1>7. Told /\ Recorded /\ Ordered
  BY <1>2 DEF Init, RegistryInit, Told, Recorded, Ordered, Waiting
<1>. QED
  BY <1>2, <1>5, <1>6, <1>7 DEF ClusterInv

\* A further grant leaves the owners of the earlier epochs as they were.
LEMMA GrantInv ==
  ASSUME ClusterInv, NEW a \in Nodes, Grant(a)
  PROVE  ClusterInv'
<1>1. granted \in Seq(Nodes) /\ Len(granted) < MaxEpoch /\ taken \subseteq 1 .. Len(granted)
  BY DEF ClusterInv, TypeOK, Grant
<1>2. /\ granted' \in Seq(Nodes) /\ Len(granted') = Len(granted) + 1 /\ taken \subseteq DOMAIN granted'
      /\ \A e \in taken : granted'[e] = granted[e]
  BY <1>1 DEF Grant
<1>3. TypeOK'
  BY <1>1, <1>2, ClusterAssumption DEF ClusterInv, TypeOK, RegistryTypeOK, Grant, registry
<1>4. Guarded' /\ Told' /\ Recorded'
  BY <1>2 DEF ClusterInv, Guarded, Told, Recorded, Real, Grant, registry
<1>5. Ordered' /\ Sequenced'
  BY DEF ClusterInv, Ordered, Sequenced, Grant, registry
<1>. QED
  BY <1>3, <1>4, <1>5 DEF ClusterInv

\* What the guards of the anchors range over.
Guards == [Nodes -> [epoch: Epochs, role: {"active", "standby"}, degraded: BOOLEAN, fenced: BOOLEAN]]

\* A step of the guards alone keeps the invariant if no epoch goes back, and if the epochs taken
\* and the events emitted are true.
LEMMA GuardInv ==
  ASSUME ClusterInv, guard' \in Guards, Guarded',
         \A n \in Nodes : guard[n].epoch <= guard'[n].epoch,
         taken \subseteq taken', taken' \subseteq DOMAIN granted,
         emitted' \subseteq Info, (\A ev \in emitted : Real(ev))',
         UNCHANGED <<registry, granted, seq, cache, thread>>
  PROVE  ClusterInv'
<1>1. TypeOK'
  BY DEF ClusterInv, TypeOK, RegistryTypeOK, registry, Guards
<1>2. Told'
  BY DEF ClusterInv, Told, Real
<1>3. Recorded' /\ Sequenced'
  BY DEF ClusterInv, Recorded, Sequenced, Real, registry
<1>4. Ordered'
  <2>1. \A n \in Nodes : guard[n].epoch \in Nat /\ guard'[n].epoch \in Nat
    BY DEF ClusterInv, TypeOK, Epochs, Guards
  <2>2. \A f \in sent : f.nid \in Nodes /\ f.epoch \in Nat
    BY DEF ClusterInv, TypeOK, RegistryTypeOK, Frame
  <2>. QED
    BY <2>1, <2>2 DEF ClusterInv, Ordered, registry
<1>. QED
  BY <1>1, <1>2, <1>3, <1>4 DEF ClusterInv

\* on_take_ownership takes an epoch that was granted to the anchor.
LEMMA TakeOwnershipInv ==
  ASSUME ClusterInv, NEW a \in Nodes, NEW e \in Epochs, TakeOwnership(a, e)
  PROVE  ClusterInv'
<1>1. guard \in Guards /\ \A n \in Nodes : guard[n].epoch \in Nat
  BY DEF ClusterInv, TypeOK, Epochs, Guards
<1>2. guard' \in Guards /\ \A n \in Nodes : guard[n].epoch <= guard'[n].epoch
  BY <1>1 DEF TakeOwnership, Guards, Epochs
<1>3. Guarded'
  BY <1>1 DEF ClusterInv, Guarded, TakeOwnership, Guards
<1>4. taken \subseteq taken' /\ taken' \subseteq DOMAIN granted /\ UNCHANGED <<registry, granted, seq, cache, thread>>
  BY DEF ClusterInv, TypeOK, TakeOwnership
<1>5. emitted' \subseteq Info /\ (\A ev \in emitted : Real(ev))'
  BY DEF ClusterInv, TypeOK, Told, Real, Info, TakeOwnership
<1>. QED
  BY <1>1, <1>2, <1>3, <1>4, <1>5, GuardInv

\* check_inbound demotes the anchor at the epoch it has.
LEMMA FenceInv ==
  ASSUME ClusterInv, NEW a \in Nodes, NEW e \in Epochs, NEW s \in Nodes \union {None}, Fence(a, e, s)
  PROVE  ClusterInv'
<1>1. guard \in Guards /\ \A n \in Nodes : guard[n].epoch \in Nat
  BY DEF ClusterInv, TypeOK, Epochs, Guards
<1>2. guard' = [guard EXCEPT ![a] = [[guard[a] EXCEPT !.role = "standby"] EXCEPT !.fenced = TRUE]]
  BY Zenon, <1>1 DEF Fence, Guards
<1>3. guard' \in Guards /\ \A n \in Nodes : guard'[n].epoch = guard[n].epoch
  BY Zenon, <1>1, <1>2 DEF Guards
<1>4. /\ guard'[a].role = "standby"
      /\ \A n \in Nodes \ {a} : guard'[n] = guard[n]
  BY <1>1, <1>2 DEF Guards
<1>5. Guarded'
  <2>. SUFFICES ASSUME NEW n \in Nodes
                PROVE  /\ guard'[n].epoch \in taken
                       /\ guard'[n].fenced => guard'[n].role = "standby"
                       /\ guard'[n].role = "active" => granted[guard'[n].epoch] = n
    BY Zenon DEF Guarded, Fence
  <2>1. guard'[n].epoch \in taken
    BY <1>3 DEF ClusterInv, Guarded
  <2>2. CASE n = a
    BY <1>4, <2>1, <2>2
  <2>3. CASE n # a
    BY <1>4, <2>1, <2>3 DEF ClusterInv, Guarded
  <2>. QED
    BY <2>2, <2>3
<1>6. taken' = taken /\ taken \subseteq DOMAIN granted /\ UNCHANGED <<registry, granted, seq, cache, thread>>
  BY DEF ClusterInv, TypeOK, Fence
<1>7. emitted' \subseteq Info /\ (\A ev \in emitted : Real(ev))'
  BY DEF ClusterInv, TypeOK, Told, Real, Info, Fence
<1>. QED
  BY <1>1, <1>3, <1>5, <1>6, <1>7, GuardInv

\* Quorum changes touch neither epoch nor role.
LEMMA QuorumInv ==
  ASSUME ClusterInv, NEW a \in Nodes, QuorumLost(a) \/ QuorumRestored(a)
  PROVE  ClusterInv'
<1>1. guard \in Guards /\ \A n \in Nodes : guard[n].epoch \in Nat
  BY DEF ClusterInv, TypeOK, Epochs, Guards
<1>2. PICK d \in BOOLEAN : guard' = [guard EXCEPT ![a].degraded = d]
  BY Zenon DEF QuorumLost, QuorumRestored
<1>3. UNCHANGED <<registry, granted, taken, seq, emitted, cache, thread>>
  BY DEF QuorumLost, QuorumRestored
<1>4. guard' \in Guards
  BY <1>1, <1>2 DEF Guards
<1>5. \A n \in Nodes : /\ guard'[n].epoch = guard[n].epoch /\ guard'[n].role = guard[n].role
                       /\ guard'[n].fenced = guard[n].fenced
  BY <1>1, <1>2 DEF Guards
<1>6. Guarded'
  BY <1>3, <1>5 DEF ClusterInv, Guarded
<1>7. taken \subseteq DOMAIN granted /\ emitted' \subseteq Info /\ (\A ev \in emitted : Real(ev))'
  BY <1>3 DEF ClusterInv, TypeOK, Told, Real
<1>. QED
  BY <1>1, <1>3, <1>4, <1>5, <1>6, <1>7, GuardInv
-----------------------------------------------------------------------------
(* Announcements. *)

\* What is sent may be joined by a frame of an anchor that is real and either newer than all of
\* the anchor's frames or a copy of one.
LEMMA SentInv ==
  ASSUME ClusterInv, NEW g \in Frame, Real(g), sent' = sent \union {g},
         seq' \in [Nodes -> Nat], \A n \in Nodes : seq[n] <= seq'[n],
         g.seq <= seq'[g.nid], g.epoch <= guard[g.nid].epoch,
         \A f \in sent : f.nid = g.nid =>
           (f.seq <= g.seq => f.epoch <= g.epoch) /\ (g.seq <= f.seq => g.epoch <= f.epoch),
         UNCHANGED <<kind, now, entries, highest, withdrawn, granted, taken, guard, emitted, cache, thread>>
  PROVE  ClusterInv'
<1>1. TypeOK'
  BY DEF ClusterInv, TypeOK, RegistryTypeOK
<1>2. Guarded' /\ Told' /\ Sequenced'
  BY Zenon DEF ClusterInv, Guarded, Told, Real, Sequenced
<1>3. Recorded'
  BY DEF ClusterInv, Recorded, Real
<1>4. \A f \in sent : f.nid \in Nodes /\ f.seq \in Nat /\ f.epoch \in Nat /\ f.seq <= seq[f.nid]
  BY DEF ClusterInv, TypeOK, RegistryTypeOK, Frame, Ordered
<1>5. \A n \in Nodes : seq[n] \in Nat /\ seq'[n] \in Nat
  BY DEF ClusterInv, TypeOK
<1>6. \A f \in sent' : f.seq <= seq'[f.nid] /\ f.epoch <= guard'[f.nid].epoch
  BY <1>4, <1>5 DEF ClusterInv, Ordered
<1>7. g.epoch <= g.epoch
  BY DEF Frame
<1>8. \A f, h \in sent' : f.nid = h.nid /\ f.seq <= h.seq => f.epoch <= h.epoch
  BY <1>7 DEF ClusterInv, Ordered
<1>. QED
  BY Zenon, <1>1, <1>2, <1>3, <1>6, <1>8 DEF ClusterInv, Ordered

\* An announcement carries the next sequence number and the epoch of the guard.
LEMMA AnnounceInv ==
  ASSUME ClusterInv, NEW a \in Nodes, NEW ttl \in {0, Ttl}, Announce(a, ttl)
  PROVE  ClusterInv'
<1>. DEFINE g == [nid |-> a, seq |-> seq[a] + 1, epoch |-> guard[a].epoch,
                  signed |-> now, seen |-> now, ttl |-> ttl]
<1>1. seq[a] \in Nat /\ guard[a].epoch \in Nat /\ now \in Nat
  BY RegistryAssumption DEF ClusterInv, TypeOK, RegistryTypeOK, Epochs
<1>2. g \in Frame
  BY <1>1 DEF Frame
<1>3. Real(g)
  BY DEF Real, ClusterInv, Guarded, Announce
<1>4. /\ sent' = sent \union {g}
      /\ UNCHANGED <<kind, now, entries, highest, withdrawn, granted, taken, guard, emitted, cache, thread>>
  BY DEF Announce
<1>5. /\ seq' \in [Nodes -> Nat] /\ \A n \in Nodes : seq[n] <= seq'[n]
      /\ seq'[a] = seq[a] + 1
  BY <1>1 DEF ClusterInv, TypeOK, Announce
<1>6. g.seq <= seq'[g.nid] /\ g.epoch <= guard[g.nid].epoch
  BY <1>1, <1>5
<1>7. \A f \in sent : f.nid = a => f.seq \in Nat /\ f.seq <= seq[a] /\ f.epoch <= guard[a].epoch
  BY DEF ClusterInv, TypeOK, RegistryTypeOK, Frame, Ordered
<1>8. \A f \in sent : f.nid = g.nid =>
        (f.seq <= g.seq => f.epoch <= g.epoch) /\ (g.seq <= f.seq => g.epoch <= f.epoch)
  <2>. SUFFICES ASSUME NEW f \in sent, f.nid = a
                PROVE  f.epoch <= g.epoch /\ ~(g.seq <= f.seq)
    OBVIOUS
  <2>1. f.seq \in Nat /\ f.seq <= seq[a] /\ f.epoch <= guard[a].epoch
    BY <1>7
  <2>2. g.seq = seq[a] + 1 /\ g.epoch = guard[a].epoch
    OBVIOUS
  <2>. HIDE DEF g
  <2>. QED
    BY <1>1, <2>1, <2>2
<1>. HIDE DEF g
<1>. QED
  BY <1>2, <1>3, <1>4, <1>5, <1>6, <1>8, SentInv

\* A heartbeat carries the sequence number and the epoch of the frame it repeats.
LEMMA HeartbeatInv ==
  ASSUME ClusterInv, NEW a \in Nodes, Heartbeat(a)
  PROVE  ClusterInv'
<1>1. PICK f \in sent :
        /\ sent' = sent \union {[f EXCEPT !.seen = now]}
        /\ UNCHANGED <<kind, now, entries, highest, withdrawn, anchors, cache, thread>>
  BY DEF Heartbeat
<1>. DEFINE g == [f EXCEPT !.seen = now]
<1>2. f \in Frame /\ now \in Nat
  BY RegistryAssumption DEF ClusterInv, TypeOK, RegistryTypeOK
<1>3. g \in Frame /\ g.nid = f.nid /\ g.seq = f.seq /\ g.epoch = f.epoch
  BY <1>2 DEF Frame
<1>4. Real(g)
  BY <1>3 DEF ClusterInv, Recorded, Real
<1>5. seq' = seq /\ seq \in [Nodes -> Nat] /\ \A n \in Nodes : seq[n] <= seq'[n]
  BY <1>1 DEF ClusterInv, TypeOK, anchors
<1>6. g.seq <= seq'[g.nid] /\ g.epoch <= guard[g.nid].epoch
  BY <1>3, <1>5 DEF ClusterInv, Ordered
<1>7. \A h \in sent : h.nid = g.nid =>
        (h.seq <= g.seq => h.epoch <= g.epoch) /\ (g.seq <= h.seq => g.epoch <= h.epoch)
  BY <1>3 DEF ClusterInv, Ordered
<1>8. UNCHANGED <<kind, now, entries, highest, withdrawn, granted, taken, guard, emitted, cache, thread>>
  BY <1>1 DEF anchors
<1>9. sent' = sent \union {g}
  BY <1>1
<1>. HIDE DEF g
<1>. QED
  BY <1>3, <1>4, <1>5, <1>6, <1>7, <1>8, <1>9, SentInv
-----------------------------------------------------------------------------
(* The registry. *)

\* apply_announce stores what is newer than everything it has seen of the NID, refreshes the
\* entry of the highest number, or removes the entry and keeps the number.
LEMMA AdmissionOrder ==
  ASSUME ClusterInv, NEW f \in sent, ApplyAnnounce(f)
  PROVE  /\ f \in Frame
         /\ highest[f.nid] <= f.seq
         /\ Admission(f) = "removed" => entries'[f.nid] = None
         /\ Admission(f) # "removed" =>
              /\ entries'[f.nid] = [frame |-> f, expires |-> Deadline(f)]
              /\ withdrawn[f.nid] < f.seq
<1>1. f \in Frame
  BY DEF ClusterInv, TypeOK, RegistryTypeOK
<1>2. f.nid \in Nodes /\ f.seq \in Nat
  BY <1>1 DEF Frame
<1>3. highest[f.nid] \in Nat \union {-1} /\ withdrawn[f.nid] \in Nat \union {-1} /\ withdrawn[f.nid] <= highest[f.nid]
  BY Zenon, <1>2 DEF ClusterInv, TypeOK, RegistryTypeOK, Sequenced, ApplyAnnounce
<1>4. Admission(f) \in {"accepted", "refreshed", "removed"}
  BY DEF ApplyAnnounce
<1>5. highest[f.nid] <= f.seq
  BY <1>2, <1>3, <1>4 DEF Admission
<1>6. /\ Admission(f) = "removed" => entries'[f.nid] = None
      /\ Admission(f) # "removed" => entries'[f.nid] = [frame |-> f, expires |-> Deadline(f)]
  BY Zenon, <1>2 DEF ApplyAnnounce, ClusterInv, TypeOK, RegistryTypeOK
<1>7. ASSUME Admission(f) # "removed" PROVE withdrawn[f.nid] < f.seq
  <2>1. CASE f.seq = highest[f.nid]
    <3>1. Repeated(f) = "refreshed"
      BY Zenon, <1>2, <1>3, <1>4, <1>7, <2>1 DEF Admission, Repeated
    <3>2. entries[f.nid] # None
      BY <3>1 DEF Repeated
    <3>. QED
      BY <1>2, <2>1, <3>2 DEF ClusterInv, Sequenced, ApplyAnnounce
  <2>2. CASE f.seq # highest[f.nid]
    BY <1>2, <1>3, <1>5, <2>2
  <2>. QED
    BY <2>1, <2>2
<1>. QED
  BY Zenon, <1>1, <1>5, <1>6, <1>7

\* NdpRegistryProfile.apply_announce
LEMMA ApplyAnnounceInv ==
  ASSUME ClusterInv, NEW f \in sent, ApplyAnnounce(f), UNCHANGED <<anchors, cache, thread>>
  PROVE  ClusterInv'
<1>1. /\ f \in Frame /\ f.nid \in Nodes /\ f.seq \in Nat
      /\ highest[f.nid] <= f.seq
      /\ Admission(f) = "removed" => entries'[f.nid] = None
      /\ Admission(f) # "removed" =>
           /\ entries'[f.nid] = [frame |-> f, expires |-> Deadline(f)]
           /\ withdrawn[f.nid] < f.seq
  BY AdmissionOrder DEF Frame
<1>2. Deadline(f) \in Nat
  BY <1>1, RegistryAssumption DEF Deadline, Frame
<1>3. /\ highest' = [highest EXCEPT ![f.nid] = f.seq]
      /\ withdrawn' = IF Admission(f) = "removed" THEN [withdrawn EXCEPT ![f.nid] = f.seq] ELSE withdrawn
      /\ UNCHANGED <<kind, now, sent>> /\ kind # "memory"
      /\ \A n \in Nodes \ {f.nid} : entries'[n] = entries[n]
  BY Zenon DEF ApplyAnnounce, ClusterInv, TypeOK, RegistryTypeOK
<1>4. entries' \in [Nodes -> [frame: Frame, expires: Nat] \union {None}]
  BY Zenon, <1>1, <1>2 DEF ApplyAnnounce, ClusterInv, TypeOK, RegistryTypeOK
<1>5. highest' \in [Nodes -> Nat \union {-1}] /\ withdrawn' \in [Nodes -> Nat \union {-1}]
  BY Zenon, <1>1, <1>3 DEF ClusterInv, TypeOK, RegistryTypeOK
<1>6. TypeOK'
  BY Zenon, <1>3, <1>4, <1>5 DEF ClusterInv, TypeOK, RegistryTypeOK, anchors
<1>7. Guarded' /\ Told' /\ Ordered'
  BY Zenon, <1>3 DEF ClusterInv, Guarded, Told, Ordered, Real, anchors
<1>8. Recorded'
  <2>1. \A n \in Nodes : entries'[n] # None => entries'[n].frame \in sent /\ entries'[n].frame.nid = n
    <3>. SUFFICES ASSUME NEW n \in Nodes, entries'[n] # None
                  PROVE  entries'[n].frame \in sent /\ entries'[n].frame.nid = n
      OBVIOUS
    <3>1. CASE n = f.nid
      BY <1>1, <3>1
    <3>2. CASE n # f.nid
      BY Zenon, <1>3, <3>2 DEF ClusterInv, Recorded
    <3>. QED
      BY <3>1, <3>2
  <2>. QED
    BY Zenon, <1>3, <2>1 DEF ClusterInv, Recorded, Real, anchors
<1>9. Sequenced'
  <2>. SUFFICES ASSUME NEW n \in Nodes
                PROVE  /\ withdrawn'[n] <= highest'[n]
                       /\ entries'[n] # None =>
                            entries'[n].frame.seq = highest'[n] /\ withdrawn'[n] < highest'[n]
    BY Zenon, <1>3 DEF Sequenced
  <2>1. highest \in [Nodes -> Nat \union {-1}] /\ withdrawn \in [Nodes -> Nat \union {-1}]
    BY Zenon DEF ClusterInv, TypeOK, RegistryTypeOK
  <2>2. CASE n = f.nid
    <3>1. highest'[n] = f.seq
      BY <1>1, <1>3, <2>1, <2>2
    <3>2. CASE Admission(f) = "removed"
      BY <1>1, <1>3, <2>1, <2>2, <3>1, <3>2
    <3>3. CASE Admission(f) # "removed"
      BY <1>1, <1>3, <2>1, <2>2, <3>1, <3>3
    <3>. QED
      BY Zenon, <3>2, <3>3
  <2>3. CASE n # f.nid
    <3>1. highest'[n] = highest[n] /\ withdrawn'[n] = withdrawn[n] /\ entries'[n] = entries[n]
      BY Zenon, <1>1, <1>3, <2>1, <2>3
    <3>. QED
      BY Zenon, <1>3, <3>1 DEF ClusterInv, Sequenced
  <2>. QED
    BY Zenon, <2>2, <2>3
<1>. QED
  BY <1>6, <1>7, <1>8, <1>9 DEF ClusterInv

\* InMemoryNdpRegistry.announce
LEMMA MemoryAnnounceInv ==
  ASSUME ClusterInv, NEW f \in sent, MemoryAnnounce(f), UNCHANGED <<anchors, cache, thread>>
  PROVE  ClusterInv'
<1>1. f \in Frame /\ f.nid \in Nodes /\ f.ttl \in Nat /\ now \in Nat
  BY RegistryAssumption DEF ClusterInv, TypeOK, RegistryTypeOK, Frame
<1>2. entries' \in [Nodes -> [frame: Frame, expires: Nat] \union {None}]
  BY <1>1 DEF MemoryAnnounce, ClusterInv, TypeOK, RegistryTypeOK
<1>3. TypeOK'
  BY Zenon, <1>2 DEF MemoryAnnounce, ClusterInv, TypeOK, RegistryTypeOK, anchors
<1>4. Guarded' /\ Told' /\ Ordered' /\ Sequenced'
  BY Zenon DEF MemoryAnnounce, ClusterInv, Guarded, Told, Ordered, Sequenced, Real, anchors
<1>5. \A n \in Nodes : entries'[n] # None => entries'[n].frame \in sent /\ entries'[n].frame.nid = n
  BY Zenon, <1>1 DEF MemoryAnnounce, ClusterInv, TypeOK, RegistryTypeOK, Recorded
<1>6. Recorded'
  BY Zenon, <1>5 DEF MemoryAnnounce, ClusterInv, Recorded, Real, anchors
<1>. QED
  BY <1>3, <1>4, <1>6 DEF ClusterInv

\* Time touches nothing that is ordered.
LEMMA TickInv ==
  ASSUME ClusterInv, Tick, UNCHANGED <<anchors, cache, thread>>
  PROVE  ClusterInv'
<1>1. now' \in 0 .. MaxTime
  BY RegistryAssumption DEF Tick, ClusterInv, TypeOK, RegistryTypeOK
<1>. QED
  BY Zenon, <1>1 DEF Tick, ClusterInv, TypeOK, RegistryTypeOK, Guarded, Told, Recorded, Ordered, Sequenced, Real, anchors
-----------------------------------------------------------------------------
(* The resolver. *)

\* A step of the cache and of one thread keeps the invariant if both hold what is real.
LEMMA ResolverInv ==
  ASSUME ClusterInv, NEW t \in Threads, NEW at \in {"idle", "lookup", "store", "send"},
         NEW got \in Info \union {None}, thread' = [thread EXCEPT ![t] = [at |-> at, got |-> got]],
         got # None => Real(got),
         cache' \in Info \union {None}, cache' # None => Real(cache'),
         UNCHANGED <<registry, anchors>>
  PROVE  ClusterInv'
<1>1. TypeOK'
  BY Zenon DEF ClusterInv, TypeOK, RegistryTypeOK, registry, anchors
<1>2. Guarded' /\ Recorded' /\ Ordered' /\ Sequenced'
  BY Zenon DEF ClusterInv, Guarded, Recorded, Ordered, Sequenced, Real, registry, anchors
<1>3. Told'
  BY Zenon DEF ClusterInv, TypeOK, Told, Real, anchors
<1>. QED
  BY <1>1, <1>2, <1>3 DEF ClusterInv

\* resolve_active, in its three steps, and the dispatch that follows it.
LEMMA ResolveInv ==
  ASSUME ClusterInv, NEW t \in Threads, Resolve(t)
  PROVE  ClusterInv'
<1>1. cache \in Info \union {None} /\ (cache # None => Real(cache))
  BY DEF ClusterInv, TypeOK, Told
<1>2. thread[t].got \in Info \union {None} /\ (thread[t].got # None => Real(thread[t].got))
  BY DEF ClusterInv, TypeOK, Told
<1>3. CASE Get(t)
  BY <1>1, <1>3, ResolverInv DEF Get, Resume
<1>4. CASE LookUp(t)
  <2>1. cache' = cache /\ UNCHANGED <<registry, anchors>>
    BY <1>4 DEF LookUp
  <2>2. CASE Resolved = None
    BY <1>1, <1>4, <2>1, <2>2, ResolverInv DEF LookUp, Resume
  <2>3. CASE Resolved # None
    <3>1. Resolved \in Info /\ Real(Resolved)
      BY <2>3, ResolvedReal
    <3>2. thread' = [thread EXCEPT ![t] = [at |-> "store", got |-> Resolved]]
      BY <1>4, <2>3 DEF LookUp, Resume
    <3>. QED
      BY Zenon, <1>1, <2>1, <3>1, <3>2, ResolverInv
  <2>. QED
    BY <2>2, <2>3
<1>5. CASE StoreLookup(t)
  BY Zenon, <1>2, <1>5, ResolverInv DEF StoreLookup, Resume
<1>6. CASE Dispatch(t)
  <2>1. cache' \in Info \union {None} /\ (cache' # None => Real(cache'))
    BY Zenon, <1>1, <1>6 DEF Dispatch
  <2>. QED
    BY Zenon, <1>6, <2>1, ResolverInv DEF Dispatch, Resume
<1>. QED
  BY <1>3, <1>4, <1>5, <1>6 DEF Resolve

\* on_anchor_failover
LEMMA FailoverInv ==
  ASSUME ClusterInv, NEW ev \in emitted, AnchorFailover(ev)
  PROVE  ClusterInv'
<1>1. ev \in Info /\ Real(ev)
  BY DEF ClusterInv, TypeOK, Told
<1>2. TypeOK'
  BY Zenon, <1>1 DEF AnchorFailover, ClusterInv, TypeOK, RegistryTypeOK, registry, anchors
<1>3. Guarded' /\ Recorded' /\ Ordered' /\ Sequenced'
  BY Zenon DEF AnchorFailover, ClusterInv, Guarded, Recorded, Ordered, Sequenced, Real, registry, anchors
<1>4. Told'
  BY Zenon, <1>1 DEF AnchorFailover, ClusterInv, Told, Real, anchors
<1>. QED
  BY <1>2, <1>3, <1>4 DEF ClusterInv
-----------------------------------------------------------------------------
(* The theorems. *)

\* Every step keeps the invariant.
LEMMA NextInv == ClusterInv /\ [Next]_vars => ClusterInv'
<1>. SUFFICES ASSUME ClusterInv, [Next]_vars PROVE ClusterInv'
  OBVIOUS
<1>1. CASE \E a \in Nodes : Anchor(a)
  BY <1>1, GrantInv, QuorumInv, HeartbeatInv, TakeOwnershipInv, FenceInv, AnnounceInv DEF Anchor
<1>2. CASE \E f \in sent : (ApplyAnnounce(f) \/ MemoryAnnounce(f)) /\ UNCHANGED <<anchors, cache, thread>>
  BY <1>2, ApplyAnnounceInv, MemoryAnnounceInv
<1>3. CASE Tick /\ UNCHANGED <<anchors, cache, thread>>
  BY <1>3, TickInv
<1>4. CASE \E t \in Threads : Resolve(t)
  BY <1>4, ResolveInv
<1>5. CASE \E ev \in emitted : AnchorFailover(ev)
  BY <1>5, FailoverInv
<1>6. CASE UNCHANGED vars
  BY Zenon, <1>6 DEF vars, registry, anchors, ClusterInv, TypeOK, RegistryTypeOK, Guarded, Told, Recorded, Ordered, Sequenced, Real
<1>. QED
  BY <1>1, <1>2, <1>3, <1>4, <1>5, <1>6 DEF Next

\* The invariant holds throughout.
THEOREM ClusterInvariant == Spec => []ClusterInv
  BY InitInv, NextInv, PTL DEF Spec

\* No anchor that check_inbound fenced accepts a topology write until it owns a newer epoch, and
\* no two anchors accept them at one epoch.
THEOREM FenceSafe == Spec => []FenceHolds
<1>1. ClusterInv => FenceHolds
  <2>. SUFFICES ASSUME ClusterInv PROVE FenceHolds
    OBVIOUS
  <2>1. \A a \in Nodes : Accepts(a) => ~guard[a].fenced /\ granted[guard[a].epoch] = a
    BY Zenon DEF ClusterInv, Guarded, Accepts
  <2>. QED
    BY Zenon, <2>1 DEF FenceHolds
<1>. QED
  BY <1>1, ClusterInvariant, PTL

\* What resolve_active hands out did own its epoch, and resolve_cluster finds the newest owner
\* once it is registered at its epoch, whatever else is registered.
THEOREM ResolutionSafe == Spec => []ResolutionTrue
<1>1. ClusterInv => ResolutionTrue
  <2>. SUFFICES ASSUME ClusterInv PROVE ResolutionTrue
    OBVIOUS
  <2>1. CacheReal
    BY DEF ClusterInv, Told, Real, CacheReal
  <2>2. ResolvesNewest
    <3>. SUFFICES ASSUME NEW e \in taken, \A d \in taken : d <= e, granted[e] \in Live, EpochOf(granted[e]) = e
                  PROVE  Resolved = [nid |-> granted[e], epoch |-> e]
      BY DEF ResolvesNewest
    <3>1. \A n \in Live : EpochOf(n) \in taken /\ granted[EpochOf(n)] = n /\ EpochOf(n) \in Nat
      BY LiveReal DEF Epochs
    <3>2. granted[e] \in Leaders
      BY <3>1 DEF Leaders
    <3>3. ASSUME NEW n \in Leaders PROVE n = granted[e]
      <4>1. n \in Live /\ e <= EpochOf(n)
        BY <3>3 DEF Leaders
      <4>2. EpochOf(n) = e
        BY <3>1, <4>1
      <4>. QED
        BY <3>1, <4>1, <4>2
    <3>4. Leaders = {granted[e]}
      BY <3>2, <3>3
    <3>5. Cardinality(Leaders) = 1
      BY Zenon, <3>4, FS_Singleton
    <3>. QED
      BY <3>4, <3>5 DEF Resolved
  <2>. QED
    BY <2>1, <2>2 DEF ResolutionTrue
<1>. QED
  BY <1>1, ClusterInvariant, PTL

\* The registry stays of its kind, and the highest number it has seen of a NID only grows.
LEMMA HighestGrows ==
  ASSUME ClusterInv, [Next]_vars
  PROVE  /\ kind' = kind /\ sent \subseteq sent'
         /\ \A n \in Nodes : highest[n] <= highest'[n]
<1>. highest \in [Nodes -> Nat \union {-1}]
  BY DEF ClusterInv, TypeOK, RegistryTypeOK
<1>1. CASE \E f \in sent : ApplyAnnounce(f)
  <2>1. PICK f \in sent : ApplyAnnounce(f)
    BY <1>1
  <2>2. f.nid \in Nodes /\ f.seq \in Nat /\ highest[f.nid] <= f.seq
    BY Zenon, <2>1, AdmissionOrder DEF Frame
  <2>3. highest' = [highest EXCEPT ![f.nid] = f.seq] /\ UNCHANGED <<kind, sent>>
    BY <2>1 DEF ApplyAnnounce
  <2>. QED
    BY <2>2, <2>3
<1>2. CASE ~ \E f \in sent : ApplyAnnounce(f)
  <2>1. ASSUME NEW a \in Nodes, Anchor(a) PROVE UNCHANGED <<kind, highest>> /\ sent \subseteq sent'
    <3>1. CASE Grant(a) \/ QuorumLost(a) \/ QuorumRestored(a)
      BY <3>1 DEF Grant, QuorumLost, QuorumRestored, registry
    <3>2. CASE Heartbeat(a) \/ \E ttl \in {0, Ttl} : Announce(a, ttl)
      BY <3>2 DEF Heartbeat, Announce
    <3>3. CASE \E e \in Epochs : TakeOwnership(a, e) \/ \E s \in Nodes \union {None} : Fence(a, e, s)
      BY <3>3 DEF TakeOwnership, Fence, registry
    <3>. QED
      BY <2>1, <3>1, <3>2, <3>3 DEF Anchor
  <2>2. ASSUME NEW t \in Threads, Resolve(t) PROVE UNCHANGED registry
    BY Zenon, <2>2 DEF Resolve, Get, LookUp, StoreLookup, Dispatch
  <2>3. highest' = highest /\ kind' = kind /\ sent \subseteq sent'
    BY Zenon, <1>2, <2>1, <2>2 DEF Next, vars, registry, MemoryAnnounce, Tick, AnchorFailover
  <2>. QED
    BY <2>3
<1>. QED
  BY <1>1, <1>2

\* apply_announce takes no anchor's registered epoch back, and revives nothing that was withdrawn.
THEOREM RollbackSafe == Spec => NoRollback
<1>. DEFINE Kept(a) == /\ kind # "memory" /\ entries[a] # None => EpochOf(a) <= EpochOf(a)'
                       /\ entries[a]'.frame.seq > withdrawn[a]'
            Step == \A a \in Nodes : entries[a]' # None => Kept(a)
<1>1. ClusterInv /\ ClusterInv' /\ [Next]_vars => Step
  <2>. SUFFICES ASSUME ClusterInv, ClusterInv', [Next]_vars, NEW a \in Nodes, entries'[a] # None
                PROVE  Kept(a)
    BY Zenon
  <2>1. entries'[a].frame \in sent' /\ entries'[a].frame.nid = a
    BY Zenon DEF ClusterInv, Recorded
  <2>2. entries'[a].frame.seq \in Nat
    BY Zenon, <2>1 DEF ClusterInv, TypeOK, RegistryTypeOK, Frame
  <2>3. /\ kind' = "memory" => withdrawn'[a] = -1
        /\ kind' # "memory" => entries'[a].frame.seq = highest'[a] /\ withdrawn'[a] < highest'[a]
    BY Zenon DEF ClusterInv, Sequenced
  <2>4. highest'[a] \in Nat \union {-1} /\ withdrawn'[a] \in Nat \union {-1}
    BY Zenon DEF ClusterInv, TypeOK, RegistryTypeOK
  <2>5. entries'[a].frame.seq > withdrawn'[a]
    BY <2>2, <2>3, <2>4
  <2>6. ASSUME kind # "memory", entries[a] # None
        PROVE  entries[a].frame.epoch <= entries'[a].frame.epoch
    <3>1. entries[a].frame \in sent /\ entries[a].frame.nid = a /\ entries[a].frame.seq = highest[a]
      BY Zenon, <2>6 DEF ClusterInv, Recorded, Sequenced
    <3>2. kind' # "memory" /\ entries[a].frame \in sent' /\ highest[a] <= highest'[a]
      BY <2>6, <3>1, HighestGrows
    <3>. QED
      BY Zenon, <2>1, <2>3, <3>1, <3>2 DEF ClusterInv, Ordered
  <2>. QED
    BY Zenon, <2>5, <2>6 DEF EpochOf
<1>2. NoRollback <=> [][Step]_vars
  BY DEF NoRollback
<1>. HIDE DEF Step
<1>. QED
  BY <1>1, <1>2, ClusterInvariant, PTL DEF Spec
=============================================================================
