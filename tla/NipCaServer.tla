---------------------------- MODULE NipCaServer ----------------------------
(* The standalone CA server (src/nip-ca-server): handlers that a pool of threads runs over one
   SQLite table.  Every call of CaDb is a transaction of its own, on a connection of its own, so
   that requests interleave between what they read and what they insert. *)
EXTENDS Integers, Sequences, SequencesExt, FiniteSetsExt

CONSTANTS
  Holders,      \* NIDs
  PubKeys,      \* keys of agents and nodes
  Forms,     \* requests to register, renew or revoke
  Earlier,      \* numbers of certificates issued, and revoked, before a behaviour begins
  AgentLife, NodeLife,  \* AGENT_DAYS, NODE_DAYS
  RenewalDays,  \* RENEWAL_DAYS
  MaxDay,       \* bound of the clock, whose tick is both a second and a day
  Vacant        \* no value

VARIABLES
  table,  \* nip_certificates, in the order of insertion
  today,
  asked     \* what each request knows, and its answer

serverVars == <<table, today, asked>>

-----------------------------------------------------------------------------
(* db.py *)

\* The insertions and revocations so far, which order the events of the table.
Moment == Len(table) + Cardinality({c \in Forms : asked[c].at = "revoked"})

\* CertRecord; revoked is the moment of revocation.  Not columns: source, the row that was renewed
\* (0: none), seen, when the request looked for an active certificate, and born, when it inserted.
Row(nid, kind, serial, key, issued, expires, source, seen, born) ==
  [nid |-> nid, kind |-> kind, serial |-> serial, key |-> key, issued |-> issued,
   expires |-> expires, revoked |-> Vacant, source |-> source, seen |-> seen, born |-> born]

\* f"0x{n:06X}", below 16^6; and what CAST makes of its digits: the number that those before the
\* first letter write to base ten.
Hex6(n) == [i \in 1 .. 6 |-> (n \div 16 ^ (6 - i)) % 16]
Cast(serial) ==
  LET letters == {i \in 1 .. 6 : serial[i] >= 10}
  IN  FoldLeft(LAMBDA x, d : 10 * x + d, 0, SubSeq(serial, 1, Min(letters \union {7}) - 1))

NextSerial == Hex6(Max({0} \union {Cast(table[i].serial) : i \in DOMAIN table}) + 1)

\* get_active: the rows one of which the query returns; those issued in one second tie.
Unrevoked(nid) == {i \in DOMAIN table : table[i].nid = nid /\ table[i].revoked = Vacant}
GetActive(nid) == {i \in Unrevoked(nid) : \A j \in Unrevoked(nid) : table[j].issued <= table[i].issued}

\* crl
Crl == {table[i].serial : i \in {j \in DOMAIN table : table[j].revoked # Vacant}}

-----------------------------------------------------------------------------
(* main.py *)

Unasked == [at |-> "unasked"]
Answers(c, answer) == asked' = [asked EXCEPT ![c] = answer]
Asks(c, nid, kind, key, source) ==
  asked' = [asked EXCEPT ![c] =
    [at |-> "checked", nid |-> nid, kind |-> kind, key |-> key, source |-> source, seen |-> Moment]]

\* _register until it has looked for an active certificate; expired ones count.
Register(c, nid, kind, key) ==
  /\ asked[c] = Unasked
  /\ IF GetActive(nid) = {}
     THEN Asks(c, nid, kind, key, 0)
     ELSE Answers(c, [at |-> "exists"])
  /\ UNCHANGED <<table, today>>

\* renew_agent until it has read the certificate to renew; datetime.now() has a fraction.
RenewAgent(c, nid) ==
  /\ asked[c] = Unasked
  /\ \/ GetActive(nid) = {} /\ Answers(c, [at |-> "not_found"])
     \/ \E i \in GetActive(nid), fraction \in {0, 1} :
          IF table[i].expires - today - fraction > RenewalDays
          THEN Answers(c, [at |-> "too_early"])
          ELSE Asks(c, nid, table[i].kind, table[i].key, i)
  /\ UNCHANGED <<table, today>>

\* next_serial
TakeNumber(c) ==
  /\ asked[c].at = "checked"
  /\ asked' = [asked EXCEPT ![c] = [serial |-> NextSerial, rows |-> Len(table), since |-> today,
                                at |-> "numbered"] @@ @]
  /\ UNCHANGED <<table, today>>

\* issue_cert, with the validity its callers give
IssueCert(q, issued) ==
  LET life == IF q.kind = "agent" THEN AgentLife ELSE NodeLife
  IN  Row(q.nid, q.kind, q.serial, q.key, issued, issued + life, q.source, q.seen, Moment)

\* Mutant of Insert: INSERT OR IGNORE.
InsertOrIgnore(c) ==
  /\ asked[c].at = "numbered"
  /\ \E issued \in asked[c].since .. today :
       LET q == asked[c]
           row == IssueCert(q, issued)
       IN  /\ table' = IF \E i \in DOMAIN table : table[i].serial = q.serial THEN table
                       ELSE Append(table, row)
           /\ Answers(c, [at |-> "issued", cert |-> row])
  /\ UNCHANGED today

\* insert: the transaction fails, and with it the request, if the serial is taken.
Insert(c) ==
  /\ asked[c].at = "numbered"
  /\ \E issued \in asked[c].since .. today :
       LET q == asked[c]
           row == IssueCert(q, issued)
       IN  IF \E i \in DOMAIN table : table[i].serial = q.serial
           THEN Answers(c, [at |-> "failed", raced |-> Len(table) > q.rows]) /\ UNCHANGED table
           ELSE table' = Append(table, row) /\ Answers(c, [at |-> "issued", cert |-> row])
  /\ UNCHANGED today

\* revoke_agent: every certificate of the NID.
RevokeAgent(c, nid) ==
  /\ asked[c] = Unasked
  /\ Answers(c, [at |-> IF Unrevoked(nid) = {} THEN "not_found" ELSE "revoked"])
  /\ table' = [i \in DOMAIN table |->
                 IF i \in Unrevoked(nid) THEN [table[i] EXCEPT !.revoked = Moment] ELSE table[i]]
  /\ UNCHANGED today

\* The answers verify_agent may give.
VerifyAgent(nid) ==
  IF GetActive(nid) = {} THEN {"not_found"}
  ELSE {IF table[i].expires > today THEN "valid" ELSE "expired" : i \in GetActive(nid)}

\* The process stops and starts again: startup() finds the table, requests in progress are gone.
Startup ==
  /\ \E c \in Forms : asked[c].at \in {"checked", "numbered"}
  /\ asked' = [c \in Forms |-> IF asked[c].at \in {"checked", "numbered"}
                                THEN [at |-> "lost"] ELSE asked[c]]
  /\ UNCHANGED <<table, today>>

DayPasses == today < MaxDay /\ today' = today + 1 /\ UNCHANGED <<table, asked>>

-----------------------------------------------------------------------------
ServerInit ==
  /\ \E past \in Earlier, nid \in Holders, key \in PubKeys :
       table = [i \in 1 .. past |->
                  [Row(nid, "agent", Hex6(i), key, 0, AgentLife, 0, i - 1, i - 1) EXCEPT !.revoked = i - 1]]
  /\ today = 0
  /\ asked = [c \in Forms |-> Unasked]

ServerNext ==
  \/ \E c \in Forms :
       \/ \E nid \in Holders, key \in PubKeys, kind \in {"agent", "node"} : Register(c, nid, kind, key)
       \/ \E nid \in Holders : RenewAgent(c, nid) \/ RevokeAgent(c, nid)
       \/ TakeNumber(c) \/ Insert(c)
  \/ Startup
  \/ DayPasses

-----------------------------------------------------------------------------
\* A certificate that was handed out is in the table, under a serial no other has, and it is on
\* the revocation list or verify_agent knows its NID (main.py:85).
HandedOutIsKnown ==
  \A c \in Forms : asked[c].at = "issued" =>
    LET cert == asked[c].cert
    IN  /\ \E i \in DOMAIN table :
             /\ [table[i] EXCEPT !.revoked = Vacant] = cert
             /\ \A j \in DOMAIN table \ {i} : table[j].serial # cert.serial
        /\ cert.serial \in Crl \/ "not_found" \notin VerifyAgent(cert.nid)

\* Two certificates of a NID that both come from registrations and are both unrevoked: the second
\* request had looked before the first was inserted (main.py:77).
SecondHolderRaced ==
  \A j \in DOMAIN table, i \in DOMAIN table :
    /\ i < j /\ table[i].nid = table[j].nid
    /\ table[i].source = 0 /\ table[j].source = 0
    /\ table[i].revoked = Vacant
    => table[j].seen <= table[i].born

\* A renewed certificate binds its NID to the key and the kind of the one it renews, and renews a
\* revoked one only if the revocation came while the request was in progress (main.py:109).
RenewalFollows ==
  \A j \in DOMAIN table : table[j].source > 0 =>
    LET old == table[table[j].source]
    IN  /\ <<old.nid, old.key, old.kind>> = <<table[j].nid, table[j].key, table[j].kind>>
        /\ old.revoked # Vacant /\ old.revoked < table[j].born => table[j].seen <= old.revoked

\* A request fails only because another took its serial, or because the table has a serial with
\* a letter, which next_serial reads as a smaller number (db.py:66).
FailureExplained ==
  \A c \in Forms : asked[c].at = "failed" =>
    asked[c].raced \/ \E i \in DOMAIN table : \E d \in 1 .. 6 : table[i].serial[d] >= 10

\* The standalone server: every certificate it hands out can be found and revoked, and what goes
\* wrong (a NID with two holders, a renewal that survives a revocation, a failed request) has a
\* race, or the reading of serials, as its cause.
ServerSound == HandedOutIsKnown /\ SecondHolderRaced /\ RenewalFollows /\ FailureExplained

\* README.md:31 "Register Agent, issue IdentFrame", README.md:32 "Renew certificate": a request
\* that no other insertion disturbs, and that was not refused, is answered with a certificate.
UndisturbedIssues == \A c \in Forms : asked[c].at = "failed" => asked[c].raced
=============================================================================
