-------------------------------- MODULE Acme --------------------------------
(***************************************************************************)
(* ACME agent-01 issuance: AcmeServer (nip/acme/server.py), which serves   *)
(* every request in a thread of its own, and AcmeClient                    *)
(* (nip/acme/client.py), whose concurrent issue_agent_cert calls share one *)
(* account and one replay nonce.                                           *)
(*                                                                         *)
(* A request or its answer may be lost, and a caller may give up while the *)
(* server still works.  The owner of an order may also drive the server by *)
(* hand.  An order has one authorization with one challenge, so all three  *)
(* are one record.  A key stands for its JWK, and a signature for the key  *)
(* that made it.  What the server creates with a random name (a nonce, an  *)
(* account, an order, a certificate) is named after the request that made  *)
(* it create it.  Malformed envelopes are refused before anything else and *)
(* are left out.                                                           *)
(***************************************************************************)
CONSTANTS
  Keys,     \* Ed25519 keys
  AcmeClients,  \* AcmeClients, each named after its key
  Calls,    \* calls of issue_agent_cert
  Manual,   \* requests made by hand
  NoValue

ASSUME NamesAssumption == /\ AcmeClients \subseteq Keys /\ Calls \intersect Manual = {}
                          /\ NoValue \notin Keys \union Calls \union Manual

VARIABLES
  nonces,   \* _ServerState.nonces: minted and not consumed
  accounts, \* account_jwks: the key of each account, by the call that made it
  orders,   \* orders, authzs and challenges, by the call that made them
  certs,    \* certs: order and key of each certificate, by the request that made it
  client,   \* _directory, _account_url and _last_nonce of each client
  call,     \* where each call is
  post,      \* the request of each caller, from its posting to its answer
  proven,   \* history: orders whose challenge was answered with a good signature
  clean     \* history: clients that met no fault and whose calls did not overlap

server == <<nonces, accounts, orders, certs, proven>>
acmeVars == <<server, client, call, post, clean>>
-----------------------------------------------------------------------------
(* Messages. *)

Statuses == {"pending", "ready", "valid", "invalid"}

OrderState == [account: Calls, status: Statuses, authz: Statuses, challenge: Statuses,
               certificate: Calls \union Manual \union {NoValue}]

\* jws.sign: the protected header, the payload, and who signed.
Sign(path, order, c, payload, key, nonce) ==
  [step |-> "sent", path |-> path, order |-> order, kid |-> c.account, nonce |-> nonce,
   payload |-> payload, key |-> key, answer |-> NoValue]

NoRequest == [step |-> "none"]
Over == [step |-> "over"]

\* _send_problem: an answer without a Replay-Nonce.
Problem == [ok |-> FALSE]

\* A 2xx answer: what it locates, the certificate it names, and a fresh nonce.
Answer(x, certificate) == [ok |-> TRUE, certificate |-> certificate, nonce |-> <<x, post[x].path>>]

JwsVerify(r, key) == r.key = key

\* _verify_account
Verified(r) == r.kid # NoValue /\ JwsVerify(r, accounts[r.kid])

Known(o) == o \in Calls /\ orders[o] # NoValue

NewClient == [directory |-> FALSE, account |-> NoValue, nonce |-> NoValue]

Waiting(x) == call[x].at \notin {"idle", "done", "failed"}

AcmeInit ==
  /\ nonces = {}
  /\ accounts = [x \in Calls |-> NoValue] /\ orders = [x \in Calls |-> NoValue]
  /\ certs = [x \in Calls \union Manual |-> NoValue]
  /\ client = [c \in AcmeClients |-> NewClient]
  /\ call = [x \in Calls |-> [at |-> "idle", of |-> NoValue, cert |-> NoValue]]
  /\ post = [x \in Calls \union Manual |-> NoRequest]
  /\ proven = {} /\ clean = AcmeClients
-----------------------------------------------------------------------------
(* The server. *)

\* An answer; nobody reads it when the call has given up.
Replies(x, a) ==
  /\ post' = IF x \in Calls /\ Waiting(x) THEN [post EXCEPT ![x].step = "answered", ![x].answer = a]
            ELSE [post EXCEPT ![x] = Over]
  /\ nonces' = IF a.ok THEN nonces \union {a.nonce} ELSE nonces

Refuses(x) == Replies(x, Problem) /\ UNCHANGED <<accounts, orders, certs, proven>>

\* consume_nonce
Consume(x) ==
  /\ post[x].step = "sent"
  /\ IF post[x].nonce \in nonces
       THEN nonces' = nonces \ {post[x].nonce} /\ post' = [post EXCEPT ![x].step = "accepted"]
       ELSE Replies(x, Problem)
  /\ UNCHANGED <<accounts, orders, certs, proven, client, call, clean>>

Accepted(x, path) == post[x].step = "accepted" /\ post[x].path = path

\* _handle_new_account, after the nonce; the header carries the key that signed
NewAccount(x) ==
  /\ Accepted(x, "account")
  /\ accounts' = [accounts EXCEPT ![x] = post[x].key]
  /\ Replies(x, Answer(x, NoValue))
  /\ UNCHANGED <<orders, certs, proven, client, call, clean>>

\* _handle_new_order, after the nonce
NewOrder(x) ==
  /\ Accepted(x, "order")
  /\ IF Verified(post[x])
       THEN /\ orders' = [orders EXCEPT ![x] = [account |-> post[x].kid, status |-> "pending", authz |-> "pending",
                                                challenge |-> "pending", certificate |-> NoValue]]
            /\ Replies(x, Answer(x, NoValue))
            /\ UNCHANGED <<accounts, certs, proven>>
       ELSE Refuses(x)
  /\ UNCHANGED <<client, call, clean>>

\* _handle_authz, after the nonce; the authorization leads to its challenge
Authz(x) ==
  /\ Accepted(x, "authz")
  /\ IF Verified(post[x]) /\ Known(post[x].order)
       THEN Replies(x, Answer(x, NoValue)) /\ UNCHANGED <<accounts, orders, certs, proven>>
       ELSE Refuses(x)
  /\ UNCHANGED <<client, call, clean>>

\* _handle_challenge, after the nonce: the token is signed with the key of the account, or the
\* challenge becomes invalid; a good answer makes the order ready whatever its status was.
Challenge(x) ==
  LET o == post[x].order
  IN  /\ Accepted(x, "challenge")
      /\ \/ (~Verified(post[x]) \/ ~Known(o)) /\ Refuses(x)
         \/ /\ Verified(post[x]) /\ Known(o) /\ post[x].payload # accounts[post[x].kid]
            /\ orders' = [orders EXCEPT ![o].challenge = "invalid"]
            /\ Replies(x, Problem)
            /\ UNCHANGED <<accounts, certs, proven>>
         \/ /\ Verified(post[x]) /\ Known(o) /\ post[x].payload = accounts[post[x].kid]
            /\ orders' = [orders EXCEPT ![o].challenge = "valid", ![o].authz = "valid", ![o].status = "ready"]
            /\ proven' = proven \union {o}
            /\ Replies(x, Answer(x, NoValue))
            /\ UNCHANGED <<accounts, certs>>
      /\ UNCHANGED <<client, call, clean>>

\* Mutant of Finalize: only a finalized order is refused.
FinalizeEarly(x) ==
  LET o == post[x].order
  IN  /\ Accepted(x, "finalize")
      /\ IF /\ Verified(post[x]) /\ Known(o)
            /\ orders[o].status # "valid" /\ post[x].payload = "csr"
           THEN post' = [post EXCEPT ![x].step = "issuing"] /\ UNCHANGED server
           ELSE Refuses(x)
      /\ UNCHANGED <<client, call, clean>>

\* _handle_finalize up to the issuing: the status is read outside of the lock, and the CSR must
\* name the identifier of the order.
Finalize(x) ==
  LET o == post[x].order
  IN  /\ Accepted(x, "finalize")
      /\ IF /\ Verified(post[x]) /\ Known(o)
            /\ orders[o].status = "ready" /\ post[x].payload = "csr"
           THEN post' = [post EXCEPT ![x].step = "issuing"] /\ UNCHANGED server
           ELSE Refuses(x)
      /\ UNCHANGED <<client, call, clean>>

\* Its critical section.
Issue(x) ==
  LET o == post[x].order
  IN  /\ post[x].step = "issuing"
      /\ certs' = [certs EXCEPT ![x] = [order |-> o, key |-> post[x].key]]
      /\ orders' = [orders EXCEPT ![o].status = "valid", ![o].certificate = x]
      /\ post' = [post EXCEPT ![x].step = "issued"]
      /\ UNCHANGED <<nonces, accounts, proven, client, call, clean>>

\* Its answer, read from the order after the lock was released.
Issued(x) ==
  /\ post[x].step = "issued"
  /\ Replies(x, Answer(x, orders[post[x].order].certificate))
  /\ UNCHANGED <<accounts, orders, certs, proven, client, call, clean>>

\* _handle_cert, after the nonce
GetCert(x) ==
  /\ Accepted(x, "cert")
  /\ IF Verified(post[x]) /\ certs[post[x].payload] # NoValue
       THEN Replies(x, Answer(x, post[x].payload)) /\ UNCHANGED <<accounts, orders, certs, proven>>
       ELSE Refuses(x)
  /\ UNCHANGED <<client, call, clean>>

\* _handle_order, after the nonce
OrderStatus(x) ==
  /\ Accepted(x, "status")
  /\ IF Verified(post[x]) /\ Known(post[x].order)
       THEN /\ Replies(x, Answer(x, orders[post[x].order].certificate))
            /\ UNCHANGED <<accounts, orders, certs, proven>>
       ELSE Refuses(x)
  /\ UNCHANGED <<client, call, clean>>

Serve(x) ==
  \/ Consume(x) \/ NewAccount(x) \/ NewOrder(x) \/ Authz(x) \/ Challenge(x)
  \/ Finalize(x) \/ Issue(x) \/ Issued(x) \/ GetCert(x) \/ OrderStatus(x)
-----------------------------------------------------------------------------
(* The client. *)

Fails(x) == call' = [call EXCEPT ![x].at = "failed"] /\ post' = [post EXCEPT ![x] = Over]

\* The next request of a call, signed with what the client knows now; _new_account and
\* _new_order assert that there is a nonce.
Posts(x, c, path, order, payload) ==
  IF path \in {"account", "order"} /\ c.nonce = NoValue THEN Fails(x)
  ELSE /\ call' = [call EXCEPT ![x].at = path]
       /\ post' = [post EXCEPT ![x] = Sign(path, order, c, payload, call[x].of, c.nonce)]

\* issue_agent_cert after _ensure_directory
Goes(x, c) == IF c.account = NoValue THEN Posts(x, c, "account", NoValue, NoValue) ELSE Posts(x, c, "order", NoValue, NoValue)

\* issue_agent_cert: the first call of a client fetches the directory.
StartCall(x, k) ==
  /\ call[x].at = "idle" /\ call[x].of = NoValue
  /\ call' = [call EXCEPT ![x].of = k, ![x].at = IF client[k].directory THEN "ready" ELSE "directory"]
  /\ clean' = IF \E y \in Calls : Waiting(y) /\ call[y].of = k THEN clean \ {k} ELSE clean
  /\ UNCHANGED <<server, client, post>>

\* It has the directory already.
Proceed(x) ==
  /\ call[x].at = "ready"
  /\ Goes(x, client[call[x].of])
  /\ UNCHANGED <<server, client, clean>>

\* _ensure_directory
EnsureDirectory(x) ==
  /\ call[x].at = "directory"
  /\ client' = [client EXCEPT ![call[x].of].directory = TRUE]
  /\ call' = [call EXCEPT ![x].at = "nonce"]
  /\ UNCHANGED <<server, post, clean>>

\* _refresh_nonce
RefreshNonce(x) ==
  LET k == call[x].of
      c == [client[k] EXCEPT !.nonce = <<x, "nonce">>]
  IN  /\ call[x].at = "nonce"
      /\ nonces' = nonces \union {<<x, "nonce">>}
      /\ client' = [client EXCEPT ![k] = c]
      /\ Goes(x, c)
      /\ UNCHANGED <<accounts, orders, certs, proven, clean>>

\* _ensure_success, _capture_nonce, and on to the next stage.
Receive(x) ==
  LET k == call[x].of
      a == post[x].answer
      c == [client[k] EXCEPT !.nonce = IF a.nonce = NoValue THEN @ ELSE a.nonce,
                             !.account = IF post[x].path = "account" THEN x ELSE @]
  IN  /\ Waiting(x) /\ post[x].step = "answered"
      /\ IF ~a.ok THEN Fails(x) /\ UNCHANGED client
         ELSE /\ client' = [client EXCEPT ![k] = c]
              /\ \/ post[x].path = "account" /\ Posts(x, c, "order", NoValue, NoValue)
                 \/ post[x].path = "order" /\ Posts(x, c, "authz", x, NoValue)
                 \/ post[x].path = "authz" /\ Posts(x, c, "challenge", x, k)
                 \/ post[x].path = "challenge" /\ Posts(x, c, "finalize", x, "csr")
                 \/ post[x].path = "finalize" /\ Posts(x, c, "cert", x, a.certificate)
                 \/ /\ post[x].path = "cert"
                    /\ call' = [call EXCEPT ![x].at = "done", ![x].cert = a.certificate]
                    /\ post' = [post EXCEPT ![x] = Over]
      /\ UNCHANGED <<server, clean>>

\* The request never arrives, or its answer is late or lost: httpx raises.  The server may still
\* be at work on what it received.
Lose(x) ==
  /\ Waiting(x) /\ call[x].at # "ready"
  /\ call' = [call EXCEPT ![x].at = "failed"]
  /\ \/ post[x].step \in {"sent", "answered"} /\ post' = [post EXCEPT ![x] = Over]
     \/ post[x].step # "answered" /\ UNCHANGED post
  /\ clean' = clean \ {call[x].of}
  /\ UNCHANGED <<server, client>>

\* A request made by hand about an order, in the name of its account and with a fresh nonce.
ByHand(m, o, path, payload, key) ==
  /\ post[m] = NoRequest /\ Known(o)
  /\ nonces' = nonces \union {<<m, "nonce">>}
  /\ post' = [post EXCEPT ![m] = Sign(path, o, [account |-> orders[o].account], payload, key, <<m, "nonce">>)]
  /\ clean' = IF path = "finalize" THEN clean \ {accounts[orders[o].account]} ELSE clean
  /\ UNCHANGED <<accounts, orders, certs, proven, client, call>>

\* An answer to the challenge with some key or none, a CSR that names the order's identifier or
\* another, or a look at the order, which the wrong key may have signed.
HandMade(owner) ==
  {<<"challenge", k, owner>> : k \in Keys \union {NoValue}}
    \union {<<"finalize", csr, owner>> : csr \in {"csr", "other"}}
    \union {<<"status", NoValue, k>> : k \in Keys}
-----------------------------------------------------------------------------
Advance(x) == Proceed(x) \/ EnsureDirectory(x) \/ RefreshNonce(x) \/ Receive(x)

AcmeNext ==
  \/ \E x \in Calls \union Manual : Serve(x)
  \/ \E x \in Calls : Advance(x) \/ Lose(x) \/ \E k \in AcmeClients : StartCall(x, k)
  \/ \E m \in Manual, o \in {x \in Calls : Known(x)} :
       \E h \in HandMade(accounts[orders[o].account]) : ByHand(m, o, h[1], h[2], h[3])
-----------------------------------------------------------------------------
(* Properties. *)

InHand(x) == post[x].step \in {"accepted", "issuing", "issued"}

\* A nonce is worth one request: however threads interleave, no two requests being handled came
\* with the same nonce, and no nonce of theirs is accepted again (consume_nonce).
NonceSpentOnce ==
  \A x \in Calls \union Manual :
    InHand(x) => /\ post[x].nonce \notin nonces
                 /\ \A y \in Calls \union Manual : InHand(y) /\ post[y].nonce = post[x].nonce => x = y

\* A certificate is issued for an order whose challenge was answered with the key of its account,
\* although the status is read outside of the lock, and what a call returns is a certificate of its
\* own order and its client's key, although the order may be finalized by hand at the same time.
IssuedToOwner ==
  /\ \A i \in DOMAIN certs : certs[i] # NoValue => certs[i].order \in proven
  /\ \A x \in Calls : call[x].at = "done" => certs[call[x].cert] = [order |-> x, key |-> call[x].of]

\* A call fails only after a fault: its client lost an answer, now or in an earlier call, ran two
\* calls at once, or its order was finalized by hand.  In particular the nonce a client keeps from
\* one call to the next is good whenever none of these happened.
FailureHasCause == \A x \in Calls : call[x].at = "failed" => call[x].of \notin clean

\* The three together: what the server accepts is fresh, what it issues goes to who earned it, and a
\* client that did nothing wrong gets it.
OrdersSound == NonceSpentOnce /\ IssuedToOwner /\ FailureHasCause
=============================================================================
