------------------------------- MODULE NipCa -------------------------------
(***************************************************************************)
(* The NIP certificate authority: NipCaService (nip/ca/service.py) behind  *)
(* NipCaRouterApp (nip/ca/router.py), with the enrollment policies and     *)
(* their stores (nip/ca/ra.py), over the in-memory or the SQLite           *)
(* certificate store (nip/ca/store.py, nip/ca/sql_store.py).               *)
(*                                                                         *)
(* A call is a coroutine that suspends at every access to an SQL store, so *)
(* each access is a step; the in-memory store never suspends and a call    *)
(* runs to its end before another one starts.  Keys, scopes, capabilities  *)
(* and signatures are left out, but for the public key a certificate       *)
(* binds.  Requests that are malformed or unauthorized change nothing.     *)
(***************************************************************************)
EXTENDS Integers, Sequences, FiniteSets

CONSTANTS
  Agents, Groups, Sessions,  \* NIDs: registered ones, and the random ones of issue_session
  Keys,                      \* public keys
  Tokens,                    \* bootstrap tokens
  Calls,                     \* requests
  Stores,                    \* certificate stores considered: "memory", "sql"
  Tiers,                     \* enrollment tiers: "allowlist", "token", "pending"
  QueueMax,                  \* pending_queue_max_size
  AgentDays, GroupDays, SessionDays, WindowDays,  \* validity periods, renewal window
  TokenDays, PendingDays,    \* life of a token, of a decided pending record
  MaxTime,                   \* bound on the clock
  MaxSqlCalls,               \* bound on the calls made to a CA with an SQL store
  MaxTokenCalls,             \* the same, where tokens are handed out
  None

Nids == Agents \union Groups \union Sessions

\* The NID of a session is random: no request to register names it.
ASSUME NamesAssumption ==
  /\ Sessions \intersect (Agents \union Groups) = {}
  /\ None \notin Nids \union Keys \union Tokens \union Calls
  /\ Stores \subseteq {"memory", "sql"} /\ Tiers \subseteq {"allowlist", "token", "pending"}
ASSUME PeriodsAssumption ==
  /\ AgentDays \in Nat /\ GroupDays \in Nat /\ SessionDays \in Nat /\ WindowDays \in Nat
  /\ TokenDays \in Nat /\ PendingDays \in Nat
  /\ MaxTime \in Nat /\ MaxSqlCalls \in Nat /\ MaxTokenCalls \in Nat /\ QueueMax \in Nat

VARIABLES
  store, tier,  \* how this CA is configured
  now,          \* the clock, in days
  instants,     \* how often the clock was read to issue something: issued_at values differ
  rows,         \* the certificate table, in the order of insertion
  serial,       \* the serial counter
  token,        \* bootstrap tokens
  pending,      \* pending registrations, by the call that queued them
  call,         \* where each call is, and its local variables
  admitted,     \* history: the registrations a token let in
  under         \* history: the group each session was issued for

vars == <<store, tier, now, instants, rows, serial, token, pending, call, admitted, under>>
-----------------------------------------------------------------------------
(* The certificate store. *)

Row == [nid: Nids, key: Keys, role: {"none", "group", "session"}, parent: Groups \union {None},
        serial: Nat, issued: Nat, expires: Nat, revoked: BOOLEAN]

RowsOf(n) == {i \in DOMAIN rows : rows[i].nid = n}
LiveRowsOf(n) == {i \in RowsOf(n) : ~rows[i].revoked}

\* get_by_nid: the row issued last.
Latest(n) == CHOOSE i \in RowsOf(n) : \A j \in RowsOf(n) : rows[j].issued <= rows[i].issued
Known(n) == RowsOf(n) # {}
Record(n) == rows[Latest(n)]

\* revoke: SQL marks every live row of the NID, the in-memory store the last one.
Revoked(n) ==
  LET hit == IF store = "sql" THEN LiveRowsOf(n)
             ELSE {i \in LiveRowsOf(n) : \A j \in LiveRowsOf(n) : j <= i}
  IN  [i \in DOMAIN rows |-> IF i \in hit THEN [rows[i] EXCEPT !.revoked = TRUE] ELSE rows[i]]

\* get_by_parent_nid, less what is revoked already.
LiveChildren(g) == {rows[i].nid : i \in {j \in DOMAIN rows : rows[j].parent = g /\ ~rows[j].revoked}}

\* Mutant of Verifies: the group of a session is not looked at.
VerifiesAlone(n) == Known(n) /\ ~Record(n).revoked /\ now <= Record(n).expires

\* verify(): the answer of OCSP.
Verifies(n) ==
  /\ Known(n) /\ ~Record(n).revoked /\ now <= Record(n).expires
  /\ Record(n).parent # None =>
       LET g == Record(n).parent
       IN  Known(g) /\ ~Record(g).revoked /\ now <= Record(g).expires
-----------------------------------------------------------------------------
(* Calls.  at: "idle", the store access it waits for, or "done". *)

Ops == {"register", "group", "session", "renew", "revoke", "approve"}

Idle == [at |-> "idle", op |-> "none", nid |-> None, key |-> None, role |-> "none",
         parent |-> None, issued |-> 0, expires |-> 0, serial |-> 0, item |-> None,
         left |-> {}, result |-> "none"]

NoToken == [state |-> "absent", expires |-> 0]
NoPending == [status |-> "none", nid |-> None, key |-> None, requested |-> 0]

Over(x) == call[x].at \in {"idle", "done"}

\* Without suspensions no call starts or goes on while another is under way.
MayRun(x) == store = "sql" \/ \A y \in Calls \ {x} : Over(y)

\* The same for what the router does in one step.
MayAct == store = "sql" \/ \A y \in Calls : Over(y)

MayStart(x) ==
  /\ call[x].at = "idle" /\ MayRun(x)
  /\ store = "sql" => Cardinality({y \in Calls : call[y].at # "idle"})
                        < IF tier = "token" THEN MaxTokenCalls ELSE MaxSqlCalls

\* A request arrives; the first thing it asks of the store is a lookup.
Arrives(x, op, n, k) ==
  call' = [call EXCEPT ![x] = [Idle EXCEPT !.at = "lookup", !.op = op, !.nid = n, !.key = k]]
\* Of a call that is over, the approvals and revocations that succeeded are remembered.
Ended(c, res) ==
  IF c.op \in {"approve", "revoke"} /\ res = "ok"
    THEN [Idle EXCEPT !.at = "done", !.op = c.op, !.nid = c.nid, !.item = c.item, !.result = "ok"]
    ELSE [Idle EXCEPT !.at = "done", !.result = "other"]
End(x, res) == call' = [call EXCEPT ![x] = Ended(@, res)]

\* The tables of the CA and its running calls keep their types.
TypeOK ==
  /\ store \in Stores /\ tier \in Tiers
  /\ now \in 0..MaxTime /\ instants \in Nat /\ serial \in Nat
  /\ rows \in Seq(Row)
  /\ token \in [Tokens -> [state: {"absent", "fresh", "consumed", "revoked"}, expires: Nat]]
  /\ pending \in [Calls -> [status: {"none", "pending", "approved", "rejected"},
                            nid: Agents \union {None}, key: Keys \union {None}, requested: Nat]]
  /\ call \in [Calls -> [at: {"idle", "lookup", "serial", "save", "mark", "children", "cascade", "done"},
                         op: Ops \union {"none"}, nid: Nids \union {None}, key: Keys \union {None},
                         role: {"none", "group", "session"}, parent: Groups \union {None},
                         issued: Nat, expires: Nat, serial: Nat, item: Calls \union {None},
                         left: SUBSET Nids, result: {"none", "ok", "other"}]]
  /\ admitted \in [Tokens -> SUBSET Calls]
  /\ under \in [Sessions -> Groups \union {None}]

Init ==
  /\ store \in Stores /\ tier \in Tiers
  /\ now = 0 /\ instants = 0 /\ rows = <<>> /\ serial = 0
  /\ token = [t \in Tokens |-> NoToken]
  /\ pending = [x \in Calls |-> NoPending]
  /\ call = [x \in Calls |-> Idle]
  /\ admitted = [t \in Tokens |-> {}]
  /\ under = [s \in Sessions |-> None]
-----------------------------------------------------------------------------
(* Enrollment. *)

tables == <<store, tier, now, instants, rows, serial, under>>

CreateToken(t) ==
  /\ MayAct /\ tier = "token" /\ token[t] = NoToken
  /\ token' = [token EXCEPT ![t] = [state |-> "fresh", expires |-> now + TokenDays]]
  /\ UNCHANGED <<tables, pending, call, admitted>>

RevokeToken(t) ==
  /\ MayAct /\ token[t].state = "fresh"
  /\ token' = [token EXCEPT ![t].state = "revoked"]
  /\ UNCHANGED <<tables, pending, call, admitted>>

\* register_with_ra under tier 1, of an identifier that is on the allowlist; register_x509
\* asks no policy whatever the tier is.
RegisterListed(x, n, k) ==
  /\ MayStart(x)
  /\ Arrives(x, "register", n, k)
  /\ UNCHANGED <<tables, token, pending, admitted>>

\* Mutant of RegisterWithToken: the token is looked at and not consumed.
RegisterWithTokenKept(x, n, k, t) ==
  /\ tier = "token" /\ MayStart(x)
  /\ token[t].state = "fresh" /\ now <= token[t].expires
  /\ admitted' = [admitted EXCEPT ![t] = @ \union {x}]
  /\ Arrives(x, "register", n, k)
  /\ UNCHANGED <<tables, token, pending>>

\* register_with_ra under tier 2: the token is consumed before the registration is tried.
RegisterWithToken(x, n, k, t) ==
  /\ tier = "token" /\ MayStart(x)
  /\ token[t].state = "fresh" /\ now <= token[t].expires
  /\ token' = [token EXCEPT ![t].state = "consumed"]
  /\ admitted' = [admitted EXCEPT ![t] = @ \union {x}]
  /\ Arrives(x, "register", n, k)
  /\ UNCHANGED <<tables, pending>>

\* InMemoryPendingStore._sweep_locked
SweptPending ==
  [y \in Calls |-> IF pending[y].status \in {"approved", "rejected"}
                        /\ pending[y].requested + PendingDays < now
                     THEN NoPending ELSE pending[y]]

\* register_with_ra under tier 3: queued, or refused when the queue is full.
Enqueue(x, n, k) ==
  /\ tier = "pending" /\ MayStart(x)
  /\ IF Cardinality({y \in Calls : pending[y].status = "pending"}) >= QueueMax
       THEN End(x, "refused") /\ UNCHANGED pending
       ELSE /\ pending' = [SweptPending EXCEPT ![x] =
                             [status |-> "pending", nid |-> n, key |-> k, requested |-> now]]
            /\ End(x, "queued")
  /\ UNCHANGED <<tables, token, admitted>>

\* _approve_pending: the record is read, and its registration tried.
Approve(x, p) ==
  /\ MayStart(x)
  /\ pending[p].status = "pending"
  /\ call' = [call EXCEPT ![x] = [Idle EXCEPT !.at = "lookup", !.op = "approve", !.item = p,
                                              !.nid = pending[p].nid, !.key = pending[p].key]]
  /\ UNCHANGED <<tables, token, pending, admitted>>

\* _reject_pending
Reject(p) ==
  /\ MayAct /\ pending[p].status = "pending"
  /\ pending' = [pending EXCEPT ![p].status = "rejected"]
  /\ UNCHANGED <<tables, token, call, admitted>>
-----------------------------------------------------------------------------
(* The other requests. *)

enrollment == <<token, pending, admitted>>

RegisterGroup(x, g, k) ==
  MayStart(x) /\ Arrives(x, "group", g, k) /\ UNCHANGED <<tables, enrollment>>

\* s is the random NID the session will get.
IssueSession(x, g, s, k) ==
  /\ MayStart(x)
  /\ ~Known(s) /\ \A y \in Calls : call[y].nid # s
  /\ call' = [call EXCEPT ![x] = [Idle EXCEPT !.at = "lookup", !.op = "session", !.nid = s,
                                              !.parent = g, !.key = k]]
  /\ UNCHANGED <<tables, enrollment>>

Renew(x, n) ==
  MayStart(x) /\ Arrives(x, "renew", n, None) /\ UNCHANGED <<tables, enrollment>>

Revoke(x, n) ==
  MayStart(x) /\ Arrives(x, "revoke", n, None) /\ UNCHANGED <<tables, enrollment>>
-----------------------------------------------------------------------------
(* What a call does next. *)

\* It goes on to issue a certificate; the clock is read now.
Issues(x, key, role, days) ==
  /\ instants' = instants + 1
  /\ call' = [call EXCEPT ![x].at = "serial", ![x].key = key, ![x].role = role,
                          ![x].issued = instants + 1, ![x].expires = now + days]

\* The group may have a new session: it is a group, not revoked and not expired.
MayHaveSession(g) ==
  Known(g) /\ Record(g).role = "group" /\ ~Record(g).revoked /\ now <= Record(g).expires

\* Mutant of Renewable: revoked certificates are renewed.
RenewableAnyway(n) == Known(n) /\ now >= Record(n).expires - WindowDays

Renewable(n) == Known(n) /\ ~Record(n).revoked /\ now >= Record(n).expires - WindowDays

\* Mutant of Lookup: registration does not look whether the NID is taken.
LookupTaken(x) ==
  LET c == call[x]
  IN  /\ c.at = "lookup" /\ MayRun(x)
      /\ \/ c.op \in {"register", "approve"} /\ Issues(x, c.key, "none", AgentDays)
         \/ c.op = "group" /\ Issues(x, c.key, "group", GroupDays)
         \/ c.op = "session" /\ MayHaveSession(c.parent) /\ Issues(x, c.key, "session", SessionDays)
         \/ c.op = "renew" /\ Renewable(c.nid) /\ Issues(x, Record(c.nid).key, "none", AgentDays)
         \/ /\ c.op = "revoke" /\ Known(c.nid)
            /\ call' = [call EXCEPT ![x].at = "mark", ![x].role = Record(c.nid).role]
            /\ UNCHANGED instants
         \/ c.op # "revoke" /\ End(x, "refused") /\ UNCHANGED instants
      /\ UNCHANGED <<store, tier, now, rows, serial, under, enrollment>>

\* get_by_nid, and everything up to the next store access.  A registration may also be
\* refused for its capabilities or its validity, after its token was consumed.
Lookup(x) ==
  LET c == call[x]
  IN  /\ c.at = "lookup" /\ MayRun(x)
      /\ \/ c.op \in {"register", "approve"} /\ ~Known(c.nid) /\ Issues(x, c.key, "none", AgentDays)
         \/ c.op = "group" /\ ~Known(c.nid) /\ Issues(x, c.key, "group", GroupDays)
         \/ c.op = "session" /\ MayHaveSession(c.parent) /\ Issues(x, c.key, "session", SessionDays)
         \/ c.op = "renew" /\ Renewable(c.nid) /\ Issues(x, Record(c.nid).key, "none", AgentDays)
         \/ /\ c.op = "revoke" /\ Known(c.nid)
            /\ call' = [call EXCEPT ![x].at = "mark", ![x].role = Record(c.nid).role]
            /\ UNCHANGED instants
         \/ /\ \/ c.op \in {"register", "approve"}
               \/ c.op = "group" /\ Known(c.nid)
               \/ c.op = "session" /\ ~MayHaveSession(c.parent)
               \/ c.op = "renew" /\ ~Renewable(c.nid)
               \/ c.op = "revoke" /\ ~Known(c.nid)
            /\ End(x, "refused") /\ UNCHANGED instants
      /\ UNCHANGED <<store, tier, now, rows, serial, under, enrollment>>

\* Mutant of NextSerial: the number of certificates saved, plus one.
NextSerialRead(x) ==
  /\ call[x].at = "serial" /\ MayRun(x)
  /\ call' = [call EXCEPT ![x].at = "save", ![x].serial = Len(rows) + 1]
  /\ UNCHANGED <<tables, enrollment>>

\* next_serial
NextSerial(x) ==
  /\ call[x].at = "serial" /\ MayRun(x)
  /\ serial' = serial + 1
  /\ call' = [call EXCEPT ![x].at = "save", ![x].serial = serial + 1]
  /\ UNCHANGED <<store, tier, now, instants, rows, under, enrollment>>

\* save; an approval then marks its record.
Save(x) ==
  LET c == call[x]
  IN  /\ c.at = "save" /\ MayRun(x)
      /\ rows' = Append(rows, [nid |-> c.nid, key |-> c.key, role |-> c.role, parent |-> c.parent,
                               serial |-> c.serial, issued |-> c.issued, expires |-> c.expires,
                               revoked |-> FALSE])
      /\ under' = IF c.op = "session" THEN [under EXCEPT ![c.nid] = c.parent] ELSE under
      /\ pending' = IF c.op = "approve" /\ pending[c.item].status = "pending"
                      THEN [pending EXCEPT ![c.item].status = "approved"] ELSE pending
      /\ End(x, "ok")
      /\ UNCHANGED <<store, tier, now, instants, serial, token, admitted>>

\* The revocation proper; a group, as it was when looked up, goes on to its sessions.
Mark(x) ==
  LET c == call[x]
  IN  /\ c.at = "mark" /\ MayRun(x)
      /\ rows' = Revoked(c.nid)
      /\ IF LiveRowsOf(c.nid) = {} THEN End(x, "refused")
         ELSE IF c.role = "group" THEN call' = [call EXCEPT ![x].at = "children"]
         ELSE End(x, "ok")
      /\ UNCHANGED <<store, tier, now, instants, serial, under, enrollment>>

ListChildren(x) ==
  LET found == LiveChildren(call[x].nid)
  IN  /\ call[x].at = "children" /\ MayRun(x)
      /\ IF found = {} THEN End(x, "ok")
         ELSE call' = [call EXCEPT ![x].at = "cascade", ![x].left = found]
      /\ UNCHANGED <<tables, enrollment>>

Cascade(x) ==
  \E n \in call[x].left :
    /\ call[x].at = "cascade" /\ MayRun(x)
    /\ rows' = Revoked(n)
    /\ IF call[x].left = {n} THEN End(x, "ok")
       ELSE call' = [call EXCEPT ![x].left = @ \ {n}]
    /\ UNCHANGED <<store, tier, now, instants, serial, under, enrollment>>

\* The process dies and comes back: the SQL tables survive, the enrollment stores do not.
Restart ==
  /\ store = "sql"
  /\ call' = [x \in Calls |-> IF Over(x) THEN call[x] ELSE Ended(call[x], "lost")]
  /\ token' = [t \in Tokens |-> IF token[t].state = "absent" THEN token[t]
                                ELSE [token[t] EXCEPT !.state = "revoked"]]
  /\ pending' = [x \in Calls |-> NoPending]
  /\ UNCHANGED <<tables, admitted>>

Tick ==
  /\ MayAct /\ now < MaxTime
  /\ now' = now + 1
  /\ UNCHANGED <<store, tier, instants, rows, serial, under, call, enrollment>>

Step(x) == Lookup(x) \/ NextSerial(x) \/ Save(x) \/ Mark(x) \/ ListChildren(x) \/ Cascade(x)

Enroll(x) ==
  \/ \E n \in Agents, k \in Keys :
       \/ RegisterListed(x, n, k)
       \/ \E t \in Tokens : RegisterWithToken(x, n, k, t)
       \/ Enqueue(x, n, k)
  \/ \E p \in Calls : Approve(x, p)

Request(x) ==
  \/ \E g \in Groups, k \in Keys : \/ RegisterGroup(x, g, k)
                                   \/ \E s \in Sessions : IssueSession(x, g, s, k)
  \/ \E n \in Nids : Renew(x, n) \/ Revoke(x, n)

Next ==
  \/ \E x \in Calls : Enroll(x) \/ Request(x) \/ Step(x)
  \/ \E t \in Tokens : CreateToken(t) \/ RevokeToken(t)
  \/ \E p \in Calls : Reject(p)
  \/ Restart
  \/ Tick

Spec == Init /\ [][Next]_vars
-----------------------------------------------------------------------------
(* Properties. *)

Quiet == \A x \in Calls : Over(x)

\* No two certificates share a serial, and one about to be saved has a serial no other has,
\* however the calls that draw and use serials interleave and whenever the process restarts:
\* the save that "Serial already exists" (nip/ca/store.py) would refuse does not happen.
SerialsUnique ==
  /\ \A i, j \in DOMAIN rows : rows[i].serial = rows[j].serial => i = j
  /\ \A x \in Calls : call[x].at = "save" =>
       /\ \A i \in DOMAIN rows : rows[i].serial # call[x].serial
       /\ \A y \in Calls : call[y].at = "save" /\ call[y].serial = call[x].serial => x = y

\* A bootstrap token lets in one registration at most.
TokenAdmitsOne == \A t \in Tokens : \A x, y \in admitted[t] : x = y

\* Over a store that does not suspend a NID keeps the key it was first registered with, through
\* renewals, approvals of queued requests and repeated registrations ("Duplicate-NID rejection
\* at registration time is enforced by NipCaService", nip/ca/store.py).
KeyBound ==
  store = "memory" => \A i, j \in DOMAIN rows : rows[i].nid = rows[j].nid => rows[i].key = rows[j].key

\* Over such a store a NID whose certificate was revoked never comes back: register, renew and
\* a late approval all find the revoked record.
DeadStaysDead ==
  [][\A n \in Nids : store = "memory" /\ Known(n) /\ Record(n).revoked => (Record(n).revoked)']_vars

\* A session that verifies although its group was revoked has been renewed, which took it out of
\* its group; and then the renewal overlapped the revocation, or the group had been renewed too.
GroupTakesSessions ==
  \A s \in Sessions :
    LET g == under[s]
    IN  Quiet /\ g # None /\ Verifies(s) /\ Record(g).revoked =>
          /\ Record(s).role = "none"
          /\ store = "sql" \/ Record(g).role = "none"

\* Over a store that does not suspend an operator's decision about a queued registration is
\* made once: it is carried out by one approval, and not after it was rejected.
DecidedOnce ==
  LET Carried(p) == {x \in Calls : call[x].op = "approve" /\ call[x].item = p /\ call[x].result = "ok"}
  IN  store = "memory" => \A p \in Calls : /\ \A x, y \in Carried(p) : x = y
                                           /\ pending[p].status = "rejected" => Carried(p) = {}
                                           /\ pending[p].status = "approved" => Carried(p) # {}

\* Admission happens once: a single-use token admits one registration, and a queued registration
\* is decided once, although checking and spending a token, and looking up and saving a decision,
\* are separate steps of concurrent calls (nip/ca/ra.py).
AdmittedOnce == TokenAdmitsOne /\ DecidedOnce

\* "When the target is a group, every live session NID under it is also revoked"
\* (NipCaService.revoke).
CascadeComplete ==
  \A x \in Calls, s \in Sessions :
    call[x].op = "revoke" /\ call[x].result = "ok" /\ under[s] = call[x].nid /\ Quiet
      => Record(s).revoked
=============================================================================
