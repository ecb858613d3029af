---------------------------- MODULE NipVerifier ----------------------------
(***************************************************************************)
(* Verification of identities by a node: NipIdentVerifier.verify           *)
(* (nip/verifier.py) with the X.509 chain check (nip/x509/verifier.py),    *)
(* Phase-3 enforcement (nip/phase3.py) and the revocation policy           *)
(* (nip/revocation_policy.py); the validator of trust frames               *)
(* (nip/trust_validator.py) and the renewal and freshness policies         *)
(* (nip/alpha19_policy.py).                                                *)
(*                                                                         *)
(* verify() is a coroutine: it suspends while a live revocation source     *)
(* answers, and the CA revokes and renews meanwhile.  A signature is the   *)
(* name of the key it was made with, and a path is its list of segments.   *)
(***************************************************************************)
EXTENDS Integers, Sequences, FiniteSets, SequencesExt

CONSTANTS
  Frames,      \* identity frames presented
  Contexts,    \* what the node requires of the presenter
  Options,     \* verifier options considered; the local CRL is read at construction
  Nid,         \* the holder of the certificates
  Trusted,     \* issuer |-> public key
  Roots,       \* trusted X.509 roots
  Marks,       \* which live rows revoke() of the CA's store marks: "last" (memory), "all" (SQL)
  Life,        \* validity of a certificate
  Window,      \* how long before it expires a certificate may be renewed
  MaxRows,     \* bound on certificates issued to the NID
  MaxTime,     \* bound on the clock
  TrustFrames, TrustContexts,  \* cross-CA grants, and what they are validated for
  Malformed,   \* what does not parse
  None

VARIABLES
  now,
  mark,        \* a member of Marks
  rows,        \* the certificates the CA issued to the NID, oldest first
  opts,        \* options of the verifier, None until it is constructed
  v            \* the verification under way

vars == <<now, mark, rows, opts, v>>
-----------------------------------------------------------------------------
(* Results. *)

Ok == [valid |-> TRUE, step |-> 0, code |-> None]
Fail(step, code) == [valid |-> FALSE, step |-> step, code |-> code]

\* Checks made one after the other: the first that does not hold is reported.
FirstFailure(checks) ==
  LET failing == {i \in DOMAIN checks : ~checks[i].holds}
  IN  IF failing = {} THEN Ok
      ELSE LET first == checks[CHOOSE i \in failing : \A j \in failing : i <= j]
           IN  Fail(first.step, first.code)
Check(holds, step, code) == [holds |-> holds, step |-> step, code |-> code]
-----------------------------------------------------------------------------
(* Scope patterns: everything, a path and all below it, one path. *)

PathMatches(pattern, path) ==
  \/ pattern.kind = "any"
  \/ pattern.kind = "under" /\ IsPrefix(pattern.path, path)
  \/ pattern.kind = "exact" /\ pattern.path = path

\* _check_scope; scope is None when the frame has no list of nodes.
InScope(scope, path) == scope # None /\ \E p \in scope : PathMatches(p, path)
-----------------------------------------------------------------------------
(* X.509: the chain is a sequence of certificates, leaf first, or Malformed. *)

LeafEku(leaf) == leaf.eku = "critical"
SubjectIs(leaf, nid) == leaf.cn = nid /\ nid \in leaf.san

Ranks == 0 .. 2
AssuranceChecks(leaf, asserted) ==
  LET there == asserted # None /\ leaf.level # None
      ranked == leaf.level \in Ranks
  IN  << Check(there => leaf.level # Malformed, 3, "format"),
         Check(there => ranked, 3, "assurance-unknown"),
         Check(there => leaf.level = asserted, 3, "assurance-mismatch") >>

Anchored(chain, roots) ==
  /\ \A i \in 1 .. Len(chain) - 1 : chain[i].by = chain[i + 1].key
  /\ \E r \in roots : Last(chain) = r \/ Last(chain).by = r.key

X509Verify(chain, nid, asserted) ==
  IF chain = Malformed \/ chain = <<>> THEN Fail(3, "format")
  ELSE LET leaf == Head(chain)
       IN  FirstFailure(<< Check(LeafEku(leaf), 3, "eku"),
                           Check(SubjectIs(leaf, nid), 3, "subject") >>
                        \o AssuranceChecks(leaf, asserted)
                        \o << Check(Anchored(chain, Roots), 3, "format") >>)
-----------------------------------------------------------------------------
(* Phase 3. *)

\* An attestation extension that does not parse attests nothing; an absent one is not checked.
Attested(extension) == IF extension = Malformed THEN {} ELSE extension
Exceeds(claimed, extension) == extension # None /\ ~(claimed \subseteq Attested(extension))

\* The first SingleResponse of the staple; Malformed where there is none to read.
NextUpdate(staple) ==
  IF staple = Malformed \/ staple = <<>> THEN Malformed ELSE Head(staple)

Enforce(f, leaf, when) ==
  FirstFailure(<< Check(~Exceeds(f.roles, leaf.roles), 3, "roles"),
                  Check(~Exceeds(f.caps, leaf.caps), 3, "capabilities"),
                  Check(f.staple # None, 3, "staple"),
                  Check(f.staple # None => NextUpdate(f.staple) # Malformed, 3, "staple"),
                  Check(f.staple # None /\ NextUpdate(f.staple) # Malformed
                          => NextUpdate(f.staple) > when, 3, "staple") >>)
-----------------------------------------------------------------------------
(* The revocation policy.  consulted is the list of sources observed. *)

Order == <<"local_crl", "callback", "ca_store", "ocsp">>

\* Mutant of Observe: fail-open is not confined to OCSP.
ObserveOpen(source, outcome) ==
  IF outcome = "good" \/ (outcome = "unavailable" /\ opts.fail_open) THEN None
  ELSE Fail(4, IF outcome = "revoked" THEN "revoked" ELSE "unavailable")

\* observe(): None to go on.
Observe(source, outcome) ==
  IF outcome = "good" \/ (outcome = "unavailable" /\ source = "ocsp" /\ opts.fail_open)
  THEN None
  ELSE Fail(4, IF outcome = "revoked" THEN "revoked" ELSE "unavailable")

Complete(consulted) ==
  IF opts.required /\ consulted = <<>> THEN Fail(4, "unavailable") ELSE Ok
-----------------------------------------------------------------------------
(* The CA, as far as the revocation sources show it. *)

RevokedSerials == {rows[i].serial : i \in {j \in DOMAIN rows : rows[j].revoked}}

\* get_by_serial of a store; a serial it does not know counts as good.
StoreOutcome(serial) == IF serial \in RevokedSerials THEN "revoked" ELSE "good"

\* GET {ocsp_url}/{nid}: NipCaService.verify judges the certificate issued last to the NID.
OcspOutcome(nid) ==
  IF nid # Nid THEN "status"
  ELSE IF Last(rows).revoked THEN "revoked"
  ELSE IF now > Last(rows).expires THEN "expired" ELSE "good"

\* What a live source may answer.
Outcomes(source, f) ==
  CASE source = "callback" -> {StoreOutcome(f.serial), "unavailable"}
    [] source = "ca_store" -> {StoreOutcome(f.serial), "unavailable"}
    [] source = "ocsp" -> {OcspOutcome(f.nid), "status", "unavailable"}

\* The answer as verify() takes it: what a callback or OCSP refuses is returned as it is.
Verdict(source, outcome) ==
  CASE source = "ocsp" /\ outcome = "status" -> Fail(4, "unavailable")
    [] source = "ocsp" /\ outcome = "expired" -> Fail(4, "expired")
    [] OTHER -> Observe(source, outcome)
-----------------------------------------------------------------------------
(* verify(). *)

\* Steps 1 to 3, none of which suspends.
Preliminary(f) ==
  LET x509 == X509Verify(f.chain, f.nid, f.level)
      basic == FirstFailure(
        << Check(f.expires # Malformed, 1, "expired"),
           Check(f.expires # Malformed => f.expires > now, 1, "expired"),
           Check(f.issuer \in DOMAIN Trusted, 2, "issuer"),
           Check(f.issuer \in DOMAIN Trusted => f.by = Trusted[f.issuer], 3, "signature") >>)
  IN  IF ~basic.valid \/ ~opts.v2_trust \/ f.format # "v2-x509" THEN basic
      ELSE IF ~x509.valid \/ ~opts.phase3 THEN x509
      ELSE Enforce(f, Head(f.chain), now)

\* Steps 5 and 6.
Authorized(f, c) ==
  FirstFailure(<< Check(c.caps \subseteq f.caps, 5, "capability"),
                  Check(c.path # None => InScope(f.scope, c.path), 6, "scope") >>)

\* The sources still to be asked, in order.
Remaining(consulted) ==
  SelectSeq(Order, LAMBDA s : s \in opts.sources /\ ~Contains(consulted, s))

\* After a source let the frame pass: await the next one, or return.
GoOn(w, consulted) ==
  LET end == Complete(consulted)
  IN  IF Remaining(consulted) # <<>> THEN [w EXCEPT !.consulted = consulted]
      ELSE [w EXCEPT !.consulted = consulted, !.at = "done",
                     !.result = IF end.valid THEN Authorized(w.frame, w.ctx) ELSE end]
Idle == [at |-> "idle"]
Return(w, result) == [w EXCEPT !.at = "done", !.result = result]

\* verify() up to the first source that suspends it; the local CRL does not.
Begin(f, c) ==
  LET w == [at |-> "await", frame |-> f, ctx |-> c, start |-> now, consulted |-> <<>>,
            down |-> FALSE, was |-> RevokedSerials, dead |-> Last(rows).revoked, result |-> Ok]
      early == Preliminary(f)
      crl == Observe("local_crl", IF f.serial \in opts.crl THEN "revoked" ELSE "good")
  IN  /\ opts # None /\ v.at = "idle"
      /\ v' = CASE ~early.valid -> Return(w, early)
                [] early.valid /\ "local_crl" \notin opts.sources -> GoOn(w, <<>>)
                [] OTHER -> IF crl # None THEN Return(w, crl) ELSE GoOn(w, <<"local_crl">>)
      /\ UNCHANGED <<now, mark, rows, opts>>

\* The awaited source answers, or cannot be reached.
Consult ==
  /\ v.at = "await"
  /\ LET source == Head(Remaining(v.consulted))
     IN  \E outcome \in Outcomes(source, v.frame) :
           LET verdict == Verdict(source, outcome)
               w == [v EXCEPT !.down = v.down \/ outcome \in {"status", "unavailable"}]
           IN  v' = IF verdict = None THEN GoOn(w, Append(v.consulted, source))
                    ELSE Return(w, verdict)
  /\ UNCHANGED <<now, mark, rows, opts>>

\* The caller takes the result; it may verify another frame.
Deliver == v.at = "done" /\ v' = Idle /\ UNCHANGED <<now, mark, rows, opts>>

\* The verifier is constructed; its local CRL is the list the CA publishes at the time.
Construct(o) ==
  /\ opts = None
  /\ opts' = [sources |-> o.sources, fail_open |-> o.fail_open, required |-> o.required,
              v2_trust |-> o.v2_trust, phase3 |-> o.phase3, crl |-> RevokedSerials]
  /\ UNCHANGED <<now, mark, rows, v>>
-----------------------------------------------------------------------------
(* The CA and the clock. *)

\* renew(): another certificate for the NID, unless the last one is revoked or it is too early.
Renew ==
  /\ ~Last(rows).revoked /\ now >= Last(rows).expires - Window /\ Len(rows) < MaxRows
  /\ rows' = Append(rows, [serial |-> Len(rows) + 1, expires |-> now + Life, revoked |-> FALSE])
  /\ UNCHANGED <<now, mark, opts, v>>

\* revoke() of the store: the last live row of the NID, or every one.
Revoke ==
  LET live == {i \in DOMAIN rows : ~rows[i].revoked}
      hit == IF mark = "all" THEN live ELSE {i \in live : \A j \in live : j <= i}
  IN
  /\ live # {}
  /\ rows' = [i \in DOMAIN rows |-> [rows[i] EXCEPT !.revoked = @ \/ i \in hit]]
  /\ UNCHANGED <<now, mark, opts, v>>

Tick == now < MaxTime /\ now' = now + 1 /\ UNCHANGED <<mark, rows, opts, v>>

Init ==
  /\ now = 0 /\ mark \in Marks
  /\ rows = <<[serial |-> 1, expires |-> Life, revoked |-> FALSE]>>
  /\ opts = None /\ v = Idle

Next ==
  \/ \E o \in Options : Construct(o)
  \/ \E f \in Frames, c \in Contexts : Begin(f, c)
  \/ Consult \/ Deliver
  \/ Renew \/ Revoke \/ Tick

Spec == Init /\ [][Next]_vars
-----------------------------------------------------------------------------
(* Trust frames: complete tells that no required field is blank. *)

TrustValidate(f, c, time) ==
  FirstFailure(<< Check(f.complete /\ f.grants # {} /\ f.nodes # {}, 3, "invalid"),
                  Check(f.issued # Malformed /\ f.expires # Malformed, 3, "invalid"),
                  Check(f.expires # Malformed => f.expires > time, 3, "expired"),
                  Check(f.grantor \in c.grantors, 3, "issuer"),
                  Check(f.grantee = c.grantee, 3, "invalid"),
                  Check(c.caps \subseteq f.grants, 5, "capability"),
                  Check(c.path # None => InScope(f.nodes, c.path), 6, "scope") >>)
-----------------------------------------------------------------------------
(* The policies of NIP 0.15: each source reports an outcome, and may say until when. *)

Stale(s, time) == time # None /\ s.next_update # None /\ time >= s.next_update

\* Where the loop over the sources ends: the first that says unknown, or is fresh and decided.
Deciding(sources, time) ==
  {i \in DOMAIN sources : \/ sources[i].outcome = "unknown"
                          \/ ~Stale(sources[i], time) /\ sources[i].outcome \in {"good", "revoked"}}

EvaluateRevocation(sources, time, required) ==
  LET found == Deciding(sources, time)
      first == sources[CHOOSE i \in found : \A j \in found : i <= j]
  IN  IF found = {} THEN (IF required THEN Fail(4, "stale") ELSE Ok)
      ELSE CASE first.outcome = "unknown" -> Fail(4, "unknown")
             [] first.outcome = "revoked" -> Fail(4, "revoked")
             [] first.outcome = "good" -> Ok

\* A cached statement is replaced by a later signed one only.
Freshest(cached, incoming) ==
  IF incoming.signed /\ incoming.this_update > cached.this_update THEN incoming ELSE cached
-----------------------------------------------------------------------------
(* Properties. *)

\* What a node may rely on when verify() accepts: nothing here reads the order of the checks.
Acceptable(w) ==
  LET f == w.frame IN
  /\ f.expires # Malformed /\ w.start < f.expires
  /\ f.issuer \in DOMAIN Trusted /\ f.by = Trusted[f.issuer]
  /\ opts.v2_trust /\ f.format = "v2-x509" =>
       /\ Head(f.chain).cn = f.nid
       /\ \E r \in Roots : Last(f.chain) = r \/ Last(f.chain).by = r.key
       /\ opts.phase3 => /\ Head(f.chain).roles \notin {None, Malformed}
                              => f.roles \subseteq Head(f.chain).roles
                         /\ Head(f.staple) > w.start
  /\ "local_crl" \in opts.sources => f.serial \notin opts.crl
  /\ {"callback", "ca_store"} \intersect opts.sources # {} => f.serial \notin w.was
  /\ "ocsp" \in opts.sources => ~w.dead \/ (opts.fail_open /\ w.down)
  /\ opts.required => opts.sources # {}
  /\ w.ctx.caps \subseteq f.caps
  /\ w.ctx.path # None => \E p \in f.scope : PathMatches(p, w.ctx.path)

\* Why a verification that came as far as the revocation sources may still refuse.
Refusable(w) ==
  CASE w.result.code = "revoked" -> w.frame.serial \in opts.crl \union RevokedSerials
                                    \/ ("ocsp" \in opts.sources /\ RevokedSerials # {})
    [] w.result.code = "expired" -> w.result.step = 4 => now > rows[1].expires
    [] w.result.code = "unavailable" -> w.down \/ opts.sources = {}
    [] w.result.code = "capability" -> ~(w.ctx.caps \subseteq w.frame.caps)
    [] w.result.code = "scope" -> w.frame.scope = None
                                  \/ \A p \in w.frame.scope : ~PathMatches(p, w.ctx.path)
    [] OTHER -> w.result.step \in {1, 2, 3} /\ w.consulted = <<>>

IdentSound == v.at = "done" => IF v.result.valid THEN Acceptable(v) ELSE Refusable(v)

\* A trust frame that covers a request covers every request for less, at any earlier time.
TrustSound ==
  \A f \in TrustFrames, c, d \in TrustContexts, t, u \in 0 .. MaxTime :
    TrustValidate(f, c, t).valid =>
      /\ f.grantor \in c.grantors /\ f.grantee = c.grantee /\ t < f.expires
      /\ u <= t /\ d.caps \subseteq c.caps /\ d.path \in {None, c.path}
           /\ c.grantors = d.grantors /\ c.grantee = d.grantee => TrustValidate(f, d, u).valid

\* A required check passes on a fresh good answer with nothing conclusive before it, and the
\* statement kept does not depend on the order in which statements arrive.
FreshSound ==
  LET statements == [outcome: {"good", "revoked", "unknown", "unavailable"}, next_update: {None, 1}]
      cached == [this_update: 0 .. 2, signed: BOOLEAN]
  IN  /\ \A x, y \in statements, t \in {None, 0, 1}, required \in BOOLEAN :
           EvaluateRevocation(<<x, y>>, t, required).valid =>
             /\ x.outcome # "unknown" /\ (x.outcome = "revoked" => Stale(x, t))
             /\ required => \E z \in {x, y} : z.outcome = "good" /\ ~Stale(z, t)
      /\ \A x, y, z \in cached :
           Freshest(Freshest(x, y), z).this_update = Freshest(Freshest(x, z), y).this_update

\* However the CA's revocations and renewals, and failures of the sources, interleave with a
\* verification: verify() (verifier.py:194) accepts no frame whose certificate a configured
\* source already knew as revoked when the verification began (but for OCSP under fail-open),
\* nor one that is expired, untrusted, unanchored or lacks what the context asks; it refuses
\* for revocation or unavailability only when there was one.  The validator of trust frames and
\* the freshness policy, which look at one state, satisfy their own conditions.
VerifiedSoundly == IdentSound /\ TrustSound /\ FreshSound
============================================================================
