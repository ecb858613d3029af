--------------------------- MODULE ReputationLog ---------------------------
(***************************************************************************)
(* ReputationLogClient (nip/reputation.py) reading a log that grows: an    *)
(* entry is submitted or found by a query, then a signed tree head, then   *)
(* an inclusion proof are fetched, and verify_inclusion is asked whether   *)
(* the entry is in the tree.  The log itself is external: it builds the    *)
(* tree of RFC 9162 over the entries as they came over the wire.  A hash   *)
(* is the value hashed, so two are equal only when their inputs are.       *)
(***************************************************************************)
EXTENDS Integers, Sequences, SequencesExt

CONSTANTS
  Readers,                       \* clients of the log
  Subjects, Incidents,           \* NIDs, and the incident types this version knows
  Later,                         \* an incident type of a later version
  MaxTree,                       \* bound on the size of the log
  Nothing

VARIABLES
  log,      \* the entries, as they came over the wire
  reader    \* for each client: where it is, the entry it asks about, head, proof, verdict

logVars == <<log, reader>>
-----------------------------------------------------------------------------
(* Entries.  An incident type this version does not know becomes other; its wire form is kept. *)

FromWire(w) ==
  [subject |-> w.subject, seq |-> w.seq,
   incident |-> IF w.incident \in Incidents THEN w.incident ELSE "other",
   raw |-> IF w.incident \in Incidents THEN "none" ELSE w.incident]

\* Mutant of ToWire: the raw string is dropped.
ToWireLossy(e) == [subject |-> e.subject, seq |-> e.seq, incident |-> e.incident]

ToWire(e) ==
  [subject |-> e.subject, seq |-> e.seq,
   incident |-> IF e.incident = "other" /\ e.raw # "none" THEN e.raw ELSE e.incident]

LeafHash(e) == [leaf |-> ToWire(e)]
NodeHash(l, r) == [left |-> l, right |-> r]
-----------------------------------------------------------------------------
(* Inclusion. *)

Bit(n, i) == (n \div 2 ^ i) % 2

\* The fold of verify_inclusion: bit i of leaf_index tells the side of step i of the path.
Folded(proof, e) ==
  FoldLeftDomain(LAMBDA hash, i :
                   IF Bit(proof.leaf_index, i - 1) = 0
                   THEN NodeHash(hash, proof.audit_path[i])
                   ELSE NodeHash(proof.audit_path[i], hash),
                 LeafHash(e), proof.audit_path)

VerifyInclusion(proof, head, e) == Folded(proof, e) = head.root
-----------------------------------------------------------------------------
(* The log: its tree, and the audit path of the entry with index i, counted from 0. *)

\* The largest power of two below n.
Split(n) == CHOOSE k \in 1 .. n - 1 : \E i \in 0 .. n : k = 2 ^ i /\ 2 * k >= n

RECURSIVE TreeHash(_)
TreeHash(d) ==
  IF Len(d) = 1 THEN [leaf |-> d[1]]
  ELSE LET k == Split(Len(d))
       IN  NodeHash(TreeHash(SubSeq(d, 1, k)), TreeHash(SubSeq(d, k + 1, Len(d))))

RECURSIVE AuditPath(_, _)
AuditPath(d, i) ==
  IF Len(d) = 1 THEN <<>>
  ELSE LET k == Split(Len(d))
           front == SubSeq(d, 1, k)
           back == SubSeq(d, k + 1, Len(d))
       IN  IF i < k THEN Append(AuditPath(front, i), TreeHash(back))
           ELSE Append(AuditPath(back, i - k), TreeHash(front))

HeadOf(n) == [size |-> n, root |-> TreeHash(SubSeq(log, 1, n))]
-----------------------------------------------------------------------------
(* The client.  An answer that is an error, or is no JSON, is raised and ends the attempt. *)

Away == [at |-> "away", entry |-> Nothing, head |-> Nothing, proof |-> Nothing, verdict |-> Nothing]
Takes(r, change) == reader' = [reader EXCEPT ![r] = change]

\* submit(): the log numbers the entry and echoes it.
Submit(r, subject, incident) ==
  LET w == [subject |-> subject, incident |-> incident, seq |-> Len(log)]
  IN  /\ reader[r].at = "away" /\ Len(log) < MaxTree
      /\ log' = Append(log, w)
      /\ Takes(r, [Away EXCEPT !.at = "entry", !.entry = FromWire(w)])

\* query(): one of the entries numbered above since, about the subject if one is given.
Query(r, subject, since) ==
  /\ reader[r].at = "away"
  /\ \E i \in DOMAIN log :
       /\ log[i].seq > since /\ subject \in {Nothing, log[i].subject}
       /\ Takes(r, [Away EXCEPT !.at = "entry", !.entry = FromWire(log[i])])
  /\ UNCHANGED log

\* get_sth(): the current head; get_gossip_sth(): one that was current at some time.
GetHead(r, n) ==
  /\ reader[r].at = "entry" /\ n \in DOMAIN log
  /\ Takes(r, [reader[r] EXCEPT !.at = "head", !.head = HeadOf(n)])
  /\ UNCHANGED log

\* get_proof(): for the tree as it is now, which may have grown since the head was fetched.
GetProof(r) ==
  /\ reader[r].at = "head"
  /\ Takes(r, [reader[r] EXCEPT !.at = "proof",
                 !.proof = [leaf_index |-> reader[r].entry.seq, tree_size |-> Len(log),
                            audit_path |-> AuditPath(log, reader[r].entry.seq)]])
  /\ UNCHANGED log

Verify(r) ==
  /\ reader[r].at = "proof"
  /\ Takes(r, [reader[r] EXCEPT !.at = "done",
                 !.verdict = VerifyInclusion(reader[r].proof, reader[r].head, reader[r].entry)])
  /\ UNCHANGED log

\* Other issuers submit entries too.
Others(subject, incident) ==
  /\ Len(log) < MaxTree
  /\ log' = Append(log, [subject |-> subject, incident |-> incident, seq |-> Len(log)])
  /\ UNCHANGED reader

\* A request fails, or the client is done.
Leave(r) == reader[r].at # "away" /\ Takes(r, Away) /\ UNCHANGED log

LogInit == log = <<>> /\ reader = [r \in Readers |-> Away]

LogNext ==
  \/ \E s \in Subjects, i \in Incidents \union {Later} :
       Others(s, i) \/ \E r \in Readers : Submit(r, s, i)
  \/ \E r \in Readers :
       \/ \E s \in Subjects \union {Nothing}, since \in -1 .. MaxTree : Query(r, s, since)
       \/ \E n \in 1 .. MaxTree : GetHead(r, n)
       \/ GetProof(r) \/ Verify(r) \/ Leave(r)
-----------------------------------------------------------------------------
(* Properties. *)

Balanced(n) == \E i \in 0 .. n : n = 2 ^ i

\* Although the log grows between the calls that fetch the head and the proof, what
\* verify_inclusion (reputation.py:461) says is right: TRUE only for an entry of the tree the head
\* describes, also when its incident type is of a later version ("round-trips through OTHER are
\* lossless", reputation.py:61); FALSE only when the proof is for another tree than the head, or
\* the tree does not have 2^k entries, where the bits of leaf_index do not tell the sides.
InclusionSound ==
  \A r \in Readers : reader[r].at = "done" =>
    IF reader[r].verdict
    THEN \E i \in 1 .. reader[r].head.size : log[i] = ToWire(reader[r].entry)
    ELSE reader[r].proof.tree_size # reader[r].head.size \/ ~Balanced(reader[r].head.size)
============================================================================
