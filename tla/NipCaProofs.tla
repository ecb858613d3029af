---------------------------- MODULE NipCaProofs ----------------------------
(***************************************************************************)
(* What NipCa keeps for any number of calls, names, keys and tokens.       *)
(* The lemmas of the first part say what each step does to each field of a *)
(* call and of a row; the later parts use these and leave the records      *)
(* alone.                                                                  *)
(***************************************************************************)
EXTENDS NipCa, TLAPS

IsCall(c) ==
  c = [at |-> c.at, op |-> c.op, nid |-> c.nid, key |-> c.key, role |-> c.role, parent |-> c.parent,
       issued |-> c.issued, expires |-> c.expires, serial |-> c.serial, item |-> c.item,
       left |-> c.left, result |-> c.result]

IsRow(r) ==
  r = [nid |-> r.nid, key |-> r.key, role |-> r.role, parent |-> r.parent, serial |-> r.serial,
       issued |-> r.issued, expires |-> r.expires, revoked |-> r.revoked]

CallsShaped == call = [x \in Calls |-> call[x]] /\ \A x \in Calls : IsCall(call[x])

RowsShaped ==
  /\ Len(rows) \in Nat /\ rows = [i \in 1 .. Len(rows) |-> rows[i]]
  /\ \A i \in 1 .. Len(rows) : IsRow(rows[i])

\* The tables and the calls are what they look like.
Shaped == CallsShaped /\ RowsShaped
-----------------------------------------------------------------------------
(* How a call changes. *)

\* A call whose request, key and stage are given.
Made(a, o, n, k, g, q) ==
  [at |-> a, op |-> o, nid |-> n, key |-> k, role |-> "none", parent |-> g, issued |-> 0, expires |-> 0,
   serial |-> 0, item |-> q, left |-> {}, result |-> "none"]

\* A call has its twelve fields.
LEMMA CallFields ==
  ASSUME NEW c, IsCall(c)
  PROVE  DOMAIN c = {"at", "op", "nid", "key", "role", "parent", "issued", "expires", "serial", "item",
                     "left", "result"}
BY DEF IsCall

\* It keeps them when one is set.
LEMMA FieldShape ==
  ASSUME NEW c, NEW v, IsCall(c)
  PROVE  /\ IsCall([c EXCEPT !.at = v]) /\ IsCall([c EXCEPT !.key = v]) /\ IsCall([c EXCEPT !.role = v])
         /\ IsCall([c EXCEPT !.issued = v]) /\ IsCall([c EXCEPT !.expires = v])
         /\ IsCall([c EXCEPT !.serial = v]) /\ IsCall([c EXCEPT !.left = v])
<1>1. IsCall([c EXCEPT !.at = v])
  BY DEF IsCall
<1>2. IsCall([c EXCEPT !.key = v])
  BY DEF IsCall
<1>3. IsCall([c EXCEPT !.role = v])
  BY DEF IsCall
<1>4. IsCall([c EXCEPT !.issued = v])
  BY DEF IsCall
<1>5. IsCall([c EXCEPT !.expires = v])
  BY DEF IsCall
<1>6. IsCall([c EXCEPT !.serial = v])
  BY DEF IsCall
<1>7. IsCall([c EXCEPT !.left = v])
  BY DEF IsCall
<1>. QED
  BY <1>1, <1>2, <1>3, <1>4, <1>5, <1>6, <1>7

\* And when several are: the combinations the steps make.
LEMMA StepShape ==
  ASSUME NEW c, IsCall(c), NEW a, NEW k, NEW r, NEW i, NEW e, NEW n, NEW l
  PROVE  /\ IsCall([c EXCEPT !.at = a, !.serial = n])
         /\ IsCall([c EXCEPT !.at = a, !.role = r]) /\ IsCall([c EXCEPT !.at = a, !.left = l])
         /\ IsCall([c EXCEPT !.at = a, !.key = k, !.role = r, !.issued = i, !.expires = e])
<1>. DEFINE c1 == [c EXCEPT !.at = a]
            c2 == [c1 EXCEPT !.key = k]
            c3 == [c2 EXCEPT !.role = r]
            c4 == [c3 EXCEPT !.issued = i]
<1>1. IsCall(c1)
  BY Zenon, FieldShape
<1>. HIDE DEF c1
<1>2. IsCall(c2) /\ IsCall([c1 EXCEPT !.serial = n]) /\ IsCall([c1 EXCEPT !.role = r]) /\ IsCall([c1 EXCEPT !.left = l])
  BY Zenon, <1>1, FieldShape
<1>. HIDE DEF c2
<1>3. IsCall(c3)
  BY Zenon, <1>2, FieldShape
<1>. HIDE DEF c3
<1>4. IsCall(c4)
  BY Zenon, <1>3, FieldShape
<1>. HIDE DEF c4
<1>5. IsCall([c4 EXCEPT !.expires = e])
  BY Zenon, <1>4, FieldShape
<1>6. /\ [c EXCEPT !.at = a, !.serial = n] = [c1 EXCEPT !.serial = n]
      /\ [c EXCEPT !.at = a, !.role = r] = [c1 EXCEPT !.role = r]
      /\ [c EXCEPT !.at = a, !.left = l] = [c1 EXCEPT !.left = l]
  BY DEF c1
<1>7. [c EXCEPT !.at = a, !.key = k, !.role = r, !.issued = i, !.expires = e] = [c4 EXCEPT !.expires = e]
  BY DEF c4, c3, c2, c1
<1>. QED
  BY <1>2, <1>5, <1>6, <1>7
-----------------------------------------------------------------------------
(* What a step does to the fields of the calls. *)

\* x is the only call that changes.
Others(x) == \A y \in Calls \ {x} : call'[y] = call[y]

\* A request has arrived.
Arrived(x, o, n, k, g, q) ==
  /\ Others(x) /\ call'[x].at = "lookup" /\ call'[x].op = o /\ call'[x].nid = n /\ call'[x].key = k
  /\ call'[x].parent = g /\ call'[x].item = q /\ call'[x].result = "none"

\* A call has ended.
EndedWith(x, res) ==
  /\ Others(x) /\ call'[x].at = "done"
  /\ \/ /\ call[x].op \in {"approve", "revoke"} /\ res = "ok"
        /\ call'[x].op = call[x].op /\ call'[x].nid = call[x].nid /\ call'[x].item = call[x].item
        /\ call'[x].result = "ok"
     \/ /\ ~(call[x].op \in {"approve", "revoke"} /\ res = "ok")
        /\ call'[x].op = "none" /\ call'[x].nid = None /\ call'[x].item = None /\ call'[x].result = "other"

\* A call goes on with the same request.
GoesOn(x, at) ==
  /\ Others(x) /\ call'[x].at = at /\ call'[x].op = call[x].op /\ call'[x].nid = call[x].nid
  /\ call'[x].parent = call[x].parent /\ call'[x].item = call[x].item /\ call'[x].result = call[x].result

\* One call is replaced.
LEMMA Replaced ==
  ASSUME CallsShaped, NEW x \in Calls, NEW c, IsCall(c), call' = [call EXCEPT ![x] = c]
  PROVE  CallsShaped' /\ Others(x) /\ call'[x] = c
<1>1. call' = [y \in Calls |-> IF y = x THEN c ELSE call[y]]
  BY DEF CallsShaped
<1>. QED
  BY <1>1 DEF CallsShaped, Others

\* A request arrives: the three ways the requests say so.
LEMMA ArrivesEffect ==
  ASSUME CallsShaped, NEW x \in Calls, NEW o, NEW n, NEW k, NEW g, NEW q,
         \/ Arrives(x, o, n, k) /\ g = None /\ q = None
         \/ /\ call' = [call EXCEPT ![x] = [Idle EXCEPT !.at = "lookup", !.op = o, !.item = q, !.nid = n, !.key = k]]
            /\ g = None
         \/ /\ call' = [call EXCEPT ![x] = [Idle EXCEPT !.at = "lookup", !.op = o, !.nid = n, !.parent = g, !.key = k]]
            /\ q = None
  PROVE  CallsShaped' /\ Arrived(x, o, n, k, g, q)
<1>. DEFINE c == Made("lookup", o, n, k, g, q)
<1>1. call' = [call EXCEPT ![x] = c]
  <2>. DEFINE c1 == [Idle EXCEPT !.at = "lookup"]
              c2 == [c1 EXCEPT !.op = o]
              c3 == [c2 EXCEPT !.nid = n]
              d3 == [c2 EXCEPT !.item = q]
              d4 == [d3 EXCEPT !.nid = n]
              e4 == [c3 EXCEPT !.parent = g]
  <2>1. c1 = Made("lookup", "none", None, None, None, None)
    BY DEF Idle, Made
  <2>. HIDE DEF c1
  <2>2. c2 = Made("lookup", o, None, None, None, None)
    BY <2>1 DEF Made
  <2>. HIDE DEF c2
  <2>3. c3 = Made("lookup", o, n, None, None, None) /\ d3 = Made("lookup", o, None, None, None, q)
    BY <2>2 DEF Made
  <2>. HIDE DEF c3, d3
  <2>4. d4 = Made("lookup", o, n, None, None, q) /\ e4 = Made("lookup", o, n, None, g, None)
    BY <2>3 DEF Made
  <2>. HIDE DEF d4, e4
  <2>5. [c3 EXCEPT !.key = k] = Made("lookup", o, n, k, None, None)
    BY <2>3 DEF Made
  <2>6. [d4 EXCEPT !.key = k] = Made("lookup", o, n, k, None, q)
    BY <2>4 DEF Made
  <2>7. [e4 EXCEPT !.key = k] = Made("lookup", o, n, k, g, None)
    BY <2>4 DEF Made
  <2>8. /\ [Idle EXCEPT !.at = "lookup", !.op = o, !.nid = n, !.key = k] = [c3 EXCEPT !.key = k]
        /\ [Idle EXCEPT !.at = "lookup", !.op = o, !.item = q, !.nid = n, !.key = k] = [d4 EXCEPT !.key = k]
        /\ [Idle EXCEPT !.at = "lookup", !.op = o, !.nid = n, !.parent = g, !.key = k] = [e4 EXCEPT !.key = k]
    BY DEF c1, c2, c3, d3, d4, e4
  <2>. DEFINE f1 == [Idle EXCEPT !.at = "lookup", !.op = o, !.nid = n, !.key = k]
              f2 == [Idle EXCEPT !.at = "lookup", !.op = o, !.item = q, !.nid = n, !.key = k]
              f3 == [Idle EXCEPT !.at = "lookup", !.op = o, !.nid = n, !.parent = g, !.key = k]
  <2>9. /\ f1 = Made("lookup", o, n, k, None, None) /\ f2 = Made("lookup", o, n, k, None, q)
        /\ f3 = Made("lookup", o, n, k, g, None)
    BY <2>5, <2>6, <2>7, <2>8
  <2>10. \/ call' = [call EXCEPT ![x] = f1] /\ g = None /\ q = None
         \/ call' = [call EXCEPT ![x] = f2] /\ g = None
         \/ call' = [call EXCEPT ![x] = f3] /\ q = None
    BY DEF Arrives
  <2>. HIDE DEF f1, f2, f3
  <2>. QED
    BY <2>9, <2>10
<1>2. /\ IsCall(c) /\ c.at = "lookup" /\ c.op = o /\ c.nid = n /\ c.key = k /\ c.parent = g /\ c.item = q
      /\ c.result = "none"
  BY DEF Made, IsCall
<1>. HIDE DEF c
<1>3. CallsShaped' /\ Others(x) /\ call'[x] = c
  BY Zenon, <1>1, <1>2, Replaced
<1>. QED
  BY <1>2, <1>3 DEF Arrived

\* A call ends.
LEMMA EndEffect ==
  ASSUME CallsShaped, NEW x \in Calls, NEW res, End(x, res)
  PROVE  CallsShaped' /\ EndedWith(x, res)
<1>. DEFINE c == Ended(call[x], res)
<1>1. IsCall(c) /\ c.at = "done"
  BY Zenon DEF Ended, IsCall, Idle
<1>2. CASE call[x].op \in {"approve", "revoke"} /\ res = "ok"
  <2>1. c.op = call[x].op /\ c.nid = call[x].nid /\ c.item = call[x].item /\ c.result = "ok"
    BY <1>2 DEF Ended, Idle
  <2>. HIDE DEF c
  <2>2. call' = [call EXCEPT ![x] = c]
    BY DEF End, c
  <2>. QED
    BY Zenon, <1>1, <1>2, <2>1, <2>2, Replaced DEF EndedWith
<1>3. CASE ~(call[x].op \in {"approve", "revoke"} /\ res = "ok")
  <2>1. c.op = "none" /\ c.nid = None /\ c.item = None /\ c.result = "other"
    BY <1>3 DEF Ended, Idle
  <2>. HIDE DEF c
  <2>2. call' = [call EXCEPT ![x] = c]
    BY DEF End, c
  <2>. QED
    BY Zenon, <1>1, <1>3, <2>1, <2>2, Replaced DEF EndedWith
<1>. QED
  BY <1>2, <1>3

\* A call goes on to issue a certificate.
LEMMA IssuesEffect ==
  ASSUME CallsShaped, NEW x \in Calls, NEW k, NEW r, NEW days, Issues(x, k, r, days)
  PROVE  /\ CallsShaped' /\ GoesOn(x, "serial") /\ instants' = instants + 1
         /\ call'[x].key = k /\ call'[x].role = r /\ call'[x].issued = instants + 1
<1>. DEFINE c == [call[x] EXCEPT !.at = "serial", !.key = k, !.role = r,
                                 !.issued = instants + 1, !.expires = now + days]
<1>1. IsCall(call[x])
  BY DEF CallsShaped
<1>2. IsCall(c)
  BY Zenon, <1>1, StepShape
<1>3. /\ c.at = "serial" /\ c.key = k /\ c.role = r /\ c.issued = instants + 1 /\ c.op = call[x].op
      /\ c.nid = call[x].nid /\ c.parent = call[x].parent /\ c.item = call[x].item /\ c.result = call[x].result
  BY <1>1, CallFields
<1>4. call' = [call EXCEPT ![x] = c] /\ instants' = instants + 1
  BY Zenon DEF Issues
<1>. HIDE DEF c
<1>. QED
  BY Zenon, <1>2, <1>3, <1>4, Replaced DEF GoesOn

\* A call has drawn its serial.
LEMMA NextSerialEffect ==
  ASSUME CallsShaped, NEW x \in Calls, NextSerial(x)
  PROVE  /\ CallsShaped' /\ GoesOn(x, "save") /\ call'[x].serial = serial + 1 /\ call'[x].key = call[x].key
         /\ call'[x].role = call[x].role /\ call'[x].issued = call[x].issued
<1>. DEFINE c == [call[x] EXCEPT !.at = "save", !.serial = serial + 1]
<1>1. IsCall(call[x])
  BY DEF CallsShaped
<1>2. IsCall(c)
  BY Zenon, <1>1, StepShape
<1>3. /\ c.at = "save" /\ c.serial = serial + 1 /\ c.key = call[x].key /\ c.role = call[x].role
      /\ c.issued = call[x].issued /\ c.op = call[x].op /\ c.nid = call[x].nid /\ c.parent = call[x].parent
      /\ c.item = call[x].item /\ c.result = call[x].result
  BY <1>1, CallFields
<1>4. call' = [call EXCEPT ![x] = c]
  BY Zenon DEF NextSerial
<1>. HIDE DEF c
<1>. QED
  BY Zenon, <1>2, <1>3, <1>4, Replaced DEF GoesOn

\* The stages of a revocation.
LEMMA RevocationEffect ==
  ASSUME CallsShaped, NEW x \in Calls, NEW r, NEW l
  PROVE  /\ call' = [call EXCEPT ![x].at = "mark", ![x].role = r] =>
              CallsShaped' /\ GoesOn(x, "mark") /\ call'[x].role = r
         /\ call' = [call EXCEPT ![x].at = "children"] => CallsShaped' /\ GoesOn(x, "children")
         /\ call' = [call EXCEPT ![x].at = "cascade", ![x].left = l] =>
              CallsShaped' /\ GoesOn(x, "cascade") /\ call'[x].left = l
         /\ call[x].at = "cascade" /\ call' = [call EXCEPT ![x].left = l] =>
              CallsShaped' /\ GoesOn(x, "cascade") /\ call'[x].left = l
<1>1. IsCall(call[x])
  BY DEF CallsShaped
<1>2. ASSUME call' = [call EXCEPT ![x].at = "mark", ![x].role = r]
      PROVE  CallsShaped' /\ GoesOn(x, "mark") /\ call'[x].role = r
  <2>. DEFINE c == [call[x] EXCEPT !.at = "mark", !.role = r]
  <2>1. IsCall(c)
    BY Zenon, <1>1, StepShape
  <2>2. /\ c.at = "mark" /\ c.role = r /\ c.op = call[x].op /\ c.nid = call[x].nid
        /\ c.parent = call[x].parent /\ c.item = call[x].item /\ c.result = call[x].result
    BY <1>1, CallFields
  <2>3. call' = [call EXCEPT ![x] = c]
    BY Zenon, <1>2
  <2>. HIDE DEF c
  <2>. QED
    BY Zenon, <2>1, <2>2, <2>3, Replaced DEF GoesOn
<1>3. ASSUME call' = [call EXCEPT ![x].at = "children"] PROVE CallsShaped' /\ GoesOn(x, "children")
  <2>. DEFINE c == [call[x] EXCEPT !.at = "children"]
  <2>1. IsCall(c)
    BY Zenon, <1>1, FieldShape
  <2>2. /\ c.at = "children" /\ c.op = call[x].op /\ c.nid = call[x].nid
        /\ c.parent = call[x].parent /\ c.item = call[x].item /\ c.result = call[x].result
    BY <1>1, CallFields
  <2>3. call' = [call EXCEPT ![x] = c]
    BY <1>3
  <2>. HIDE DEF c
  <2>. QED
    BY Zenon, <2>1, <2>2, <2>3, Replaced DEF GoesOn
<1>4. ASSUME call' = [call EXCEPT ![x].at = "cascade", ![x].left = l]
      PROVE  CallsShaped' /\ GoesOn(x, "cascade") /\ call'[x].left = l
  <2>. DEFINE c == [call[x] EXCEPT !.at = "cascade", !.left = l]
  <2>1. IsCall(c)
    BY Zenon, <1>1, StepShape
  <2>2. /\ c.at = "cascade" /\ c.left = l /\ c.op = call[x].op /\ c.nid = call[x].nid
        /\ c.parent = call[x].parent /\ c.item = call[x].item /\ c.result = call[x].result
    BY <1>1, CallFields
  <2>3. call' = [call EXCEPT ![x] = c]
    BY Zenon, <1>4
  <2>. HIDE DEF c
  <2>. QED
    BY Zenon, <2>1, <2>2, <2>3, Replaced DEF GoesOn
<1>5. ASSUME call[x].at = "cascade", call' = [call EXCEPT ![x].left = l]
      PROVE  CallsShaped' /\ GoesOn(x, "cascade") /\ call'[x].left = l
  <2>. DEFINE c == [call[x] EXCEPT !.left = l]
  <2>1. IsCall(c)
    BY Zenon, <1>1, FieldShape
  <2>2. /\ c.at = "cascade" /\ c.left = l /\ c.op = call[x].op /\ c.nid = call[x].nid
        /\ c.parent = call[x].parent /\ c.item = call[x].item /\ c.result = call[x].result
    BY <1>1, <1>5, CallFields
  <2>3. call' = [call EXCEPT ![x] = c]
    BY <1>5
  <2>. HIDE DEF c
  <2>. QED
    BY <2>1, <2>2, <2>3, Replaced DEF GoesOn
<1>. QED
  BY <1>2, <1>3, <1>4, <1>5
-----------------------------------------------------------------------------
(* What a step does to the rows. *)

\* A sequence is a function.
LEMMA SeqShape ==
  ASSUME NEW S, NEW s \in Seq(S)
  PROVE  s \in [1 .. Len(s) -> S]
OBVIOUS

\* Append, of a sequence of whatever.
LEMMA AppendShape ==
  ASSUME NEW s, NEW e, Len(s) \in Nat, s = [i \in 1 .. Len(s) |-> s[i]]
  PROVE  /\ Len(Append(s, e)) = Len(s) + 1
         /\ Append(s, e) = [i \in 1 .. Len(s) + 1 |-> IF i = Len(s) + 1 THEN e ELSE s[i]]
<1>. DEFINE S == {s[i] : i \in 1 .. Len(s)} \union {e}
<1>1. s \in Seq(S) /\ e \in S
  OBVIOUS
<1>. HIDE DEF S
<1>2. Append(s, e) \in Seq(S) /\ Len(Append(s, e)) = Len(s) + 1
  BY <1>1
<1>3. \A i \in 1 .. Len(s) + 1 : Append(s, e)[i] = IF i = Len(s) + 1 THEN e ELSE s[i]
  BY <1>1
<1>4. Append(s, e) \in [1 .. Len(s) + 1 -> S]
  BY Zenon, <1>2, SeqShape
<1>. QED
  BY Zenon, <1>2, <1>3, <1>4

\* The certificate of a call is the last row.
Saved(x) ==
  LET m == Len(rows) + 1
      c == call[x]
  IN  /\ Len(rows') = m /\ \A i \in 1 .. Len(rows) : rows'[i] = rows[i]
      /\ rows'[m].nid = c.nid /\ rows'[m].key = c.key /\ rows'[m].role = c.role
      /\ rows'[m].parent = c.parent /\ rows'[m].serial = c.serial /\ rows'[m].issued = c.issued
      /\ rows'[m].revoked = FALSE

\* save appends the certificate of the call.
LEMMA SavedRow ==
  ASSUME RowsShaped, NEW x \in Calls, Save(x)
  PROVE  RowsShaped' /\ Saved(x)
<1>. DEFINE c == call[x]
            r == [nid |-> c.nid, key |-> c.key, role |-> c.role, parent |-> c.parent,
                  serial |-> c.serial, issued |-> c.issued, expires |-> c.expires, revoked |-> FALSE]
<1>1. /\ IsRow(r) /\ r.nid = c.nid /\ r.key = c.key /\ r.role = c.role /\ r.parent = c.parent
      /\ r.serial = c.serial /\ r.issued = c.issued /\ r.revoked = FALSE
  BY DEF IsRow
<1>2. rows' = Append(rows, r)
  BY DEF Save
<1>. HIDE DEF c, r
<1>3. /\ Len(rows') = Len(rows) + 1 /\ Len(rows) \in Nat
      /\ rows' = [i \in 1 .. Len(rows) + 1 |-> IF i = Len(rows) + 1 THEN r ELSE rows[i]]
  BY <1>2, AppendShape DEF RowsShaped
<1>4. RowsShaped'
  BY <1>1, <1>3 DEF RowsShaped
<1>5. rows'[Len(rows) + 1] = r /\ \A i \in 1 .. Len(rows) : rows'[i] = rows[i]
  BY <1>3
<1>. QED
  BY <1>1, <1>3, <1>4, <1>5 DEF Saved, c

\* The rows that revoke marks.
Hit(n) == IF store = "sql" THEN LiveRowsOf(n)
          ELSE {i \in LiveRowsOf(n) : \A j \in LiveRowsOf(n) : j <= i}

Marked(n) ==
  /\ Len(rows') = Len(rows)
  /\ \A i \in 1 .. Len(rows) :
       /\ rows'[i].nid = rows[i].nid /\ rows'[i].key = rows[i].key /\ rows'[i].role = rows[i].role
       /\ rows'[i].parent = rows[i].parent /\ rows'[i].serial = rows[i].serial /\ rows'[i].issued = rows[i].issued
       /\ rows'[i].revoked = IF i \in Hit(n) THEN TRUE ELSE rows[i].revoked

\* revoke sets a flag of the rows it hits, and nothing else.
LEMMA MarkedRows ==
  ASSUME RowsShaped, NEW n, rows' = Revoked(n)
  PROVE  RowsShaped' /\ Marked(n)
<1>1. DOMAIN rows = 1 .. Len(rows) /\ Len(rows) \in Nat
  BY DEF RowsShaped
<1>2. rows' = [i \in 1 .. Len(rows) |-> IF i \in Hit(n) THEN [rows[i] EXCEPT !.revoked = TRUE] ELSE rows[i]]
  BY <1>1 DEF Revoked, Hit
<1>3. Len(rows') = Len(rows)
  BY <1>1, <1>2
<1>4. ASSUME NEW i \in 1 .. Len(rows)
      PROVE  /\ IsRow(rows'[i]) /\ rows'[i].nid = rows[i].nid /\ rows'[i].key = rows[i].key
             /\ rows'[i].role = rows[i].role /\ rows'[i].parent = rows[i].parent
             /\ rows'[i].serial = rows[i].serial /\ rows'[i].issued = rows[i].issued
             /\ rows'[i].revoked = IF i \in Hit(n) THEN TRUE ELSE rows[i].revoked
  <2>1. IsRow(rows[i])
    BY DEF RowsShaped
  <2>2. CASE i \in Hit(n)
    <3>1. rows'[i] = [rows[i] EXCEPT !.revoked = TRUE]
      BY <1>2, <2>2
    <3>. QED
      BY Zenon, <2>1, <2>2, <3>1 DEF IsRow
  <2>3. CASE i \notin Hit(n)
    BY <1>2, <2>1, <2>3
  <2>. QED
    BY Zenon, <2>2, <2>3
<1>5. RowsShaped'
  BY <1>1, <1>2, <1>3, <1>4 DEF RowsShaped
<1>. QED
  BY Zenon, <1>3, <1>4, <1>5 DEF Marked
-----------------------------------------------------------------------------
(* The kinds of steps. *)

\* A token is spent, or none is needed.
TokenUse(x) ==
  \/ UNCHANGED <<token, admitted>>
  \/ \E t \in Tokens : /\ token[t].state = "fresh"
                       /\ token' = [token EXCEPT ![t].state = "consumed"]
                       /\ admitted' = [admitted EXCEPT ![t] = @ \union {x}]

Begins(x) ==
  /\ MayStart(x) /\ UNCHANGED <<tables, pending>>
  /\ \E o, n, k, g, q :
       /\ Arrived(x, o, n, k, g, q)
       /\ \/ o = "register" /\ n \in Agents /\ g = None /\ TokenUse(x)
          \/ /\ o = "approve" /\ g = None /\ q \in Calls /\ pending[q].status = "pending" /\ n = pending[q].nid
             /\ UNCHANGED <<token, admitted>>
          \/ o = "group" /\ n \in Groups /\ g = None /\ UNCHANGED <<token, admitted>>
          \/ /\ o = "session" /\ n \in Sessions /\ g \in Groups
             /\ ~Known(n) /\ \A y \in Calls : call[y].nid # n
             /\ UNCHANGED <<token, admitted>>
          \/ o \in {"renew", "revoke"} /\ n \in Nids /\ g = None /\ UNCHANGED <<token, admitted>>

Queues(x) ==
  /\ MayStart(x) /\ UNCHANGED <<tables, token, admitted>>
  /\ \E res \in {"refused", "queued"} : EndedWith(x, res)
  /\ \/ UNCHANGED pending
     \/ \E n \in Agents, k \in Keys :
          pending' = [SweptPending EXCEPT ![x] = [status |-> "pending", nid |-> n, key |-> k, requested |-> now]]

Draws(x) ==
  /\ call[x].at = "lookup" /\ MayRun(x) /\ UNCHANGED <<store, tier, now, rows, serial, under, enrollment>>
  /\ GoesOn(x, "serial") /\ instants' = instants + 1 /\ call'[x].issued = instants + 1
  /\ \/ /\ call[x].op \in {"register", "approve"} /\ ~Known(call[x].nid)
        /\ call'[x].key = call[x].key /\ call'[x].role = "none"
     \/ /\ call[x].op = "group" /\ ~Known(call[x].nid)
        /\ call'[x].key = call[x].key /\ call'[x].role = "group"
     \/ /\ call[x].op = "session" /\ MayHaveSession(call[x].parent)
        /\ call'[x].key = call[x].key /\ call'[x].role = "session"
     \/ /\ call[x].op = "renew" /\ Renewable(call[x].nid)
        /\ call'[x].key = Record(call[x].nid).key /\ call'[x].role = "none"

Targets(x) ==
  /\ call[x].at = "lookup" /\ MayRun(x) /\ UNCHANGED <<tables, enrollment>>
  /\ call[x].op = "revoke" /\ Known(call[x].nid)
  /\ GoesOn(x, "mark") /\ call'[x].role = Record(call[x].nid).role

Refused(x) ==
  /\ call[x].at = "lookup" /\ MayRun(x) /\ UNCHANGED <<tables, enrollment>>
  /\ EndedWith(x, "refused")

Numbers(x) ==
  /\ call[x].at = "serial" /\ MayRun(x) /\ UNCHANGED <<store, tier, now, instants, rows, under, enrollment>>
  /\ serial' = serial + 1
  /\ GoesOn(x, "save") /\ call'[x].serial = serial + 1 /\ call'[x].key = call[x].key
  /\ call'[x].role = call[x].role /\ call'[x].issued = call[x].issued

Saves(x) ==
  /\ call[x].at = "save" /\ MayRun(x) /\ UNCHANGED <<store, tier, now, instants, serial, token, admitted>>
  /\ Saved(x) /\ EndedWith(x, "ok")
  /\ under' = IF call[x].op = "session" THEN [under EXCEPT ![call[x].nid] = call[x].parent] ELSE under
  /\ pending' = IF call[x].op = "approve" /\ pending[call[x].item].status = "pending"
                  THEN [pending EXCEPT ![call[x].item].status = "approved"] ELSE pending

Marks(x) ==
  /\ call[x].at = "mark" /\ MayRun(x) /\ UNCHANGED <<store, tier, now, instants, serial, under, enrollment>>
  /\ Marked(call[x].nid)
  /\ \/ LiveRowsOf(call[x].nid) = {} /\ EndedWith(x, "refused")
     \/ LiveRowsOf(call[x].nid) # {} /\ call[x].role # "group" /\ EndedWith(x, "ok")
     \/ LiveRowsOf(call[x].nid) # {} /\ call[x].role = "group" /\ GoesOn(x, "children")

Lists(x) ==
  /\ call[x].at = "children" /\ MayRun(x) /\ UNCHANGED <<tables, enrollment>>
  /\ \/ LiveChildren(call[x].nid) = {} /\ EndedWith(x, "ok")
     \/ GoesOn(x, "cascade") /\ call'[x].left = LiveChildren(call[x].nid)

Cascades(x) ==
  /\ call[x].at = "cascade" /\ MayRun(x) /\ UNCHANGED <<store, tier, now, instants, serial, under, enrollment>>
  /\ \E n \in call[x].left :
       /\ Marked(n)
       /\ \/ call[x].left = {n} /\ EndedWith(x, "ok")
          \/ GoesOn(x, "cascade") /\ call'[x].left = call[x].left \ {n}

\* The calls under way are forgotten.
Restarts ==
  /\ store = "sql" /\ UNCHANGED <<tables, admitted>>
  /\ \A x \in Calls : \/ Over(x) /\ call'[x] = call[x]
                      \/ /\ call'[x].at = "done" /\ call'[x].op = "none" /\ call'[x].nid = None
                         /\ call'[x].result = "other"
  /\ token' = [t \in Tokens |-> IF token[t].state = "absent" THEN token[t]
                                ELSE [token[t] EXCEPT !.state = "revoked"]]
  /\ pending' = [x \in Calls |-> NoPending]

\* No call and no certificate is touched.
Aside ==
  /\ UNCHANGED <<store, tier, instants, rows, serial, under, call, admitted>>
  /\ \/ UNCHANGED <<token, pending>>
     \/ MayAct /\ \E t \in Tokens : CreateToken(t) \/ RevokeToken(t)
     \/ MayAct /\ \E p \in Calls : Reject(p)

Moves(x) ==
  \/ Begins(x) \/ Queues(x) \/ Draws(x) \/ Targets(x) \/ Refused(x) \/ Numbers(x) \/ Saves(x)
  \/ Marks(x) \/ Lists(x) \/ Cascades(x)

\* Lookup goes on to issue, goes on to revoke, or refuses.
LEMMA LookupKinds ==
  ASSUME Shaped, NEW x \in Calls, Lookup(x)
  PROVE  Shaped' /\ (Draws(x) \/ Targets(x) \/ Refused(x))
<1>. DEFINE c == call[x]
<1>1. c.at = "lookup" /\ MayRun(x) /\ UNCHANGED <<store, tier, now, rows, serial, under, enrollment>>
  BY DEF Lookup
<1>2. RowsShaped'
  BY <1>1 DEF Shaped, RowsShaped
<1>3. CASE c.op \in {"register", "approve"} /\ ~Known(c.nid) /\ Issues(x, c.key, "none", AgentDays)
  BY <1>1, <1>2, <1>3, IssuesEffect DEF Shaped, Draws
<1>4. CASE c.op = "group" /\ ~Known(c.nid) /\ Issues(x, c.key, "group", GroupDays)
  BY <1>1, <1>2, <1>4, IssuesEffect DEF Shaped, Draws
<1>5. CASE c.op = "session" /\ MayHaveSession(c.parent) /\ Issues(x, c.key, "session", SessionDays)
  BY <1>1, <1>2, <1>5, IssuesEffect DEF Shaped, Draws
<1>6. CASE c.op = "renew" /\ Renewable(c.nid) /\ Issues(x, Record(c.nid).key, "none", AgentDays)
  BY <1>1, <1>2, <1>6, IssuesEffect DEF Shaped, Draws
<1>7. CASE /\ c.op = "revoke" /\ Known(c.nid)
           /\ call' = [call EXCEPT ![x].at = "mark", ![x].role = Record(c.nid).role]
           /\ UNCHANGED instants
  BY Zenon, <1>1, <1>2, <1>7, RevocationEffect DEF Shaped, Targets, tables
<1>8. CASE End(x, "refused") /\ UNCHANGED instants
  BY <1>1, <1>2, <1>8, EndEffect DEF Shaped, Refused, tables
<1>. QED
  BY <1>3, <1>4, <1>5, <1>6, <1>7, <1>8 DEF Lookup

\* A call that is under way takes one of the other steps.
LEMMA StepKinds ==
  ASSUME Shaped, NEW x \in Calls, Step(x)
  PROVE  Shaped' /\ Moves(x)
<1>1. CASE Lookup(x)
  BY <1>1, LookupKinds DEF Moves
<1>2. CASE NextSerial(x)
  <2>1. RowsShaped'
    BY <1>2 DEF NextSerial, Shaped, RowsShaped
  <2>. QED
    BY Zenon, <1>2, <2>1, NextSerialEffect DEF Shaped, NextSerial, Numbers, Moves
<1>3. CASE Save(x)
  <2>1. CallsShaped' /\ EndedWith(x, "ok")
    BY <1>3, EndEffect DEF Save, Shaped
  <2>2. RowsShaped' /\ Saved(x)
    BY <1>3, SavedRow DEF Shaped
  <2>3. Saves(x)
    BY <1>3, <2>1, <2>2 DEF Save, Saves
  <2>. QED
    BY <2>1, <2>2, <2>3 DEF Shaped, Moves
<1>4. CASE Mark(x)
  <2>1. RowsShaped' /\ Marked(call[x].nid)
    BY <1>4, MarkedRows DEF Mark, Shaped
  <2>2. /\ CallsShaped'
        /\ \/ LiveRowsOf(call[x].nid) = {} /\ EndedWith(x, "refused")
           \/ LiveRowsOf(call[x].nid) # {} /\ call[x].role # "group" /\ EndedWith(x, "ok")
           \/ LiveRowsOf(call[x].nid) # {} /\ call[x].role = "group" /\ GoesOn(x, "children")
    <3>1. CASE End(x, "refused") /\ LiveRowsOf(call[x].nid) = {}
      BY <3>1, EndEffect DEF Shaped
    <3>2. CASE End(x, "ok") /\ LiveRowsOf(call[x].nid) # {} /\ call[x].role # "group"
      BY <3>2, EndEffect DEF Shaped
    <3>3. CASE call' = [call EXCEPT ![x].at = "children"] /\ LiveRowsOf(call[x].nid) # {} /\ call[x].role = "group"
      BY Zenon, <3>3, RevocationEffect DEF Shaped
    <3>. QED
      BY <1>4, <3>1, <3>2, <3>3 DEF Mark
  <2>3. Marks(x)
    BY <1>4, <2>1, <2>2 DEF Mark, Marks
  <2>. QED
    BY <2>1, <2>2, <2>3 DEF Shaped, Moves
<1>5. CASE ListChildren(x)
  <2>1. RowsShaped'
    BY <1>5 DEF ListChildren, tables, Shaped, RowsShaped
  <2>2. /\ CallsShaped'
        /\ \/ LiveChildren(call[x].nid) = {} /\ EndedWith(x, "ok")
           \/ GoesOn(x, "cascade") /\ call'[x].left = LiveChildren(call[x].nid)
    <3>1. CASE End(x, "ok") /\ LiveChildren(call[x].nid) = {}
      BY <3>1, EndEffect DEF Shaped
    <3>2. CASE call' = [call EXCEPT ![x].at = "cascade", ![x].left = LiveChildren(call[x].nid)]
      BY Zenon, <3>2, RevocationEffect DEF Shaped
    <3>. QED
      BY <1>5, <3>1, <3>2 DEF ListChildren
  <2>3. Lists(x)
    BY <1>5, <2>2 DEF ListChildren, Lists
  <2>. QED
    BY <2>1, <2>2, <2>3 DEF Shaped, Moves
<1>6. CASE Cascade(x)
  <2>1. PICK n \in call[x].left :
          /\ call[x].at = "cascade" /\ MayRun(x) /\ rows' = Revoked(n)
          /\ IF call[x].left = {n} THEN End(x, "ok") ELSE call' = [call EXCEPT ![x].left = call[x].left \ {n}]
          /\ UNCHANGED <<store, tier, now, instants, serial, under, enrollment>>
    BY <1>6 DEF Cascade, Shaped, CallsShaped
  <2>2. RowsShaped' /\ Marked(n)
    BY <2>1, MarkedRows DEF Shaped
  <2>3. /\ CallsShaped'
        /\ \/ call[x].left = {n} /\ EndedWith(x, "ok")
           \/ GoesOn(x, "cascade") /\ call'[x].left = call[x].left \ {n}
    <3>1. CASE call[x].left = {n} /\ End(x, "ok")
      BY <3>1, EndEffect DEF Shaped
    <3>2. CASE call' = [call EXCEPT ![x].left = call[x].left \ {n}]
      BY Zenon, <2>1, <3>2, RevocationEffect DEF Shaped
    <3>. QED
      BY <2>1, <3>1, <3>2
  <2>4. Cascades(x)
    BY <2>1, <2>2, <2>3 DEF Cascades
  <2>. QED
    BY <2>2, <2>3, <2>4 DEF Shaped, Moves
<1>. QED
  BY <1>1, <1>2, <1>3, <1>4, <1>5, <1>6 DEF Step

\* A request arrives.
LEMMA RequestKinds ==
  ASSUME Shaped, NEW x \in Calls, Enroll(x) \/ Request(x)
  PROVE  Shaped' /\ Moves(x)
<1>1. rows' = rows
  BY Zenon DEF Enroll, Request, RegisterListed, RegisterWithToken, Enqueue, Approve, RegisterGroup, IssueSession,
         Renew, Revoke, tables
<1>2. RowsShaped'
  BY <1>1 DEF Shaped, RowsShaped
<1>3. CASE \E n \in Agents, k \in Keys : RegisterListed(x, n, k)
  <2>1. PICK n \in Agents, k \in Keys : RegisterListed(x, n, k)
    BY <1>3
  <2>2. CallsShaped' /\ Arrived(x, "register", n, k, None, None)
    BY Zenon, <2>1, ArrivesEffect DEF RegisterListed, Shaped
  <2>3. Begins(x)
    BY <2>1, <2>2 DEF RegisterListed, Begins, TokenUse
  <2>. QED
    BY <1>2, <2>2, <2>3 DEF Shaped, Moves
<1>4. CASE \E n \in Agents, k \in Keys, t \in Tokens : RegisterWithToken(x, n, k, t)
  <2>1. PICK n \in Agents, k \in Keys, t \in Tokens : RegisterWithToken(x, n, k, t)
    BY <1>4
  <2>2. CallsShaped' /\ Arrived(x, "register", n, k, None, None)
    BY Zenon, <2>1, ArrivesEffect DEF RegisterWithToken, Shaped
  <2>3. TokenUse(x)
    BY Zenon, <2>1 DEF RegisterWithToken, TokenUse
  <2>4. Begins(x)
    BY <2>1, <2>2, <2>3 DEF RegisterWithToken, Begins
  <2>. QED
    BY <1>2, <2>2, <2>4 DEF Shaped, Moves
<1>5. CASE \E n \in Agents, k \in Keys : Enqueue(x, n, k)
  <2>1. PICK n \in Agents, k \in Keys : Enqueue(x, n, k)
    BY <1>5
  <2>2. CallsShaped' /\ \E res \in {"refused", "queued"} : EndedWith(x, res)
    BY <2>1, EndEffect DEF Enqueue, Shaped
  <2>3. Queues(x)
    BY <2>1, <2>2 DEF Enqueue, Queues
  <2>. QED
    BY <1>2, <2>2, <2>3 DEF Shaped, Moves
<1>6. CASE \E p \in Calls : Approve(x, p)
  <2>1. PICK p \in Calls : Approve(x, p)
    BY <1>6
  <2>2. CallsShaped' /\ Arrived(x, "approve", pending[p].nid, pending[p].key, None, p)
    BY Zenon, <2>1, ArrivesEffect DEF Approve, Shaped
  <2>3. Begins(x)
    BY <2>1, <2>2 DEF Approve, Begins
  <2>. QED
    BY <1>2, <2>2, <2>3 DEF Shaped, Moves
<1>7. CASE \E g \in Groups, k \in Keys : RegisterGroup(x, g, k)
  <2>1. PICK g \in Groups, k \in Keys : RegisterGroup(x, g, k)
    BY <1>7
  <2>2. CallsShaped' /\ Arrived(x, "group", g, k, None, None)
    BY Zenon, <2>1, ArrivesEffect DEF RegisterGroup, Shaped
  <2>3. Begins(x)
    BY <2>1, <2>2 DEF RegisterGroup, Begins, enrollment
  <2>. QED
    BY <1>2, <2>2, <2>3 DEF Shaped, Moves
<1>8. CASE \E g \in Groups, k \in Keys, s \in Sessions : IssueSession(x, g, s, k)
  <2>1. PICK g \in Groups, k \in Keys, s \in Sessions : IssueSession(x, g, s, k)
    BY <1>8
  <2>2. CallsShaped' /\ Arrived(x, "session", s, k, g, None)
    BY Zenon, <2>1, ArrivesEffect DEF IssueSession, Shaped
  <2>3. Begins(x)
    BY <2>1, <2>2 DEF IssueSession, Begins, enrollment
  <2>. QED
    BY <1>2, <2>2, <2>3 DEF Shaped, Moves
<1>9. CASE \E n \in Nids : Renew(x, n) \/ Revoke(x, n)
  <2>1. PICK n \in Nids : Renew(x, n) \/ Revoke(x, n)
    BY <1>9
  <2>2. CallsShaped' /\ \E o \in {"renew", "revoke"} : Arrived(x, o, n, None, None, None)
    BY Zenon, <2>1, ArrivesEffect DEF Renew, Revoke, Shaped
  <2>3. Begins(x)
    BY <2>1, <2>2 DEF Renew, Revoke, Begins, enrollment
  <2>. QED
    BY <1>2, <2>2, <2>3 DEF Shaped, Moves
<1>. QED
  BY <1>3, <1>4, <1>5, <1>6, <1>7, <1>8, <1>9 DEF Enroll, Request

\* Every step is of one of the kinds.
LEMMA NextKinds ==
  ASSUME Shaped, [Next]_vars
  PROVE  Shaped' /\ ((\E x \in Calls : Moves(x)) \/ Restarts \/ Aside)
<1>1. CASE \E x \in Calls : Enroll(x) \/ Request(x) \/ Step(x)
  BY <1>1, StepKinds, RequestKinds
<1>2. CASE Restart
  <2>1. call' = [y \in Calls |-> call'[y]] /\ \A y \in Calls : call'[y] = IF Over(y) THEN call[y] ELSE Ended(call[y], "lost")
    BY <1>2 DEF Restart
  <2>2. ASSUME NEW y \in Calls
        PROVE  LET c == Ended(call[y], "lost")
               IN  IsCall(c) /\ c.at = "done" /\ c.op = "none" /\ c.nid = None /\ c.result = "other"
    BY Zenon DEF Ended, Idle, IsCall
  <2>3. CallsShaped'
    BY <2>1, <2>2 DEF Shaped, CallsShaped
  <2>4. RowsShaped'
    BY <1>2 DEF Restart, tables, Shaped, RowsShaped
  <2>5. Restarts
    BY <1>2, <2>1, <2>2 DEF Restart, Restarts
  <2>. QED
    BY <2>3, <2>4, <2>5 DEF Shaped
<1>3. CASE \/ \E t \in Tokens : CreateToken(t) \/ RevokeToken(t)
           \/ \E p \in Calls : Reject(p)
           \/ Tick \/ UNCHANGED vars
  <2>1. UNCHANGED <<call, rows>>
    BY <1>3 DEF CreateToken, RevokeToken, Reject, Tick, vars, tables
  <2>2. Aside
    BY <1>3 DEF CreateToken, RevokeToken, Reject, Tick, vars, tables, enrollment, Aside
  <2>. QED
    BY <2>1, <2>2 DEF Shaped, CallsShaped, RowsShaped
<1>. QED
  BY <1>1, <1>2, <1>3 DEF Next
-----------------------------------------------------------------------------
\* Serials are drawn from the counter: what was saved, or is about to be, is not above it.
Drawn ==
  /\ serial \in Nat
  /\ \A i \in 1 .. Len(rows) : rows[i].serial \in Nat /\ rows[i].serial <= serial
  /\ \A x \in Calls : call[x].at = "save" => call[x].serial \in Nat /\ call[x].serial <= serial

SerialInv == Drawn /\ SerialsUnique

\* What an approval or a revocation that arrives names.
LEMMA BeginsAs ==
  ASSUME NEW x \in Calls, Begins(x)
  PROVE  /\ call'[x].op = "approve" => call'[x].item \in Calls /\ pending[call'[x].item].status = "pending"
         /\ call'[x].op = "revoke" => call'[x].nid \in Nids
<1>1. PICK o, n, k, g, q :
        /\ Arrived(x, o, n, k, g, q)
        /\ \/ o = "approve" /\ q \in Calls /\ pending[q].status = "pending"
           \/ o \in {"renew", "revoke"} /\ n \in Nids
           \/ o \in {"register", "group", "session"}
  BY DEF Begins
<1>2. call'[x].op = o /\ call'[x].item = q /\ call'[x].nid = n
  BY Zenon, <1>1 DEF Arrived
<1>. QED
  BY <1>1, <1>2

\* A request that arrives, is queued or refused, or lists the sessions issues nothing.
LEMMA Elsewhere ==
  ASSUME NEW x \in Calls, Begins(x) \/ Queues(x) \/ Refused(x) \/ Lists(x)
  PROVE  rows' = rows /\ Others(x) /\ call'[x].at \in {"lookup", "done", "cascade"}
<1>1. CASE Begins(x)
  BY <1>1 DEF Begins, Arrived, tables
<1>2. CASE Queues(x)
  BY Zenon, <1>2 DEF Queues, EndedWith, tables
<1>3. CASE Refused(x)
  BY Zenon, <1>3 DEF Refused, EndedWith, tables
<1>4. CASE Lists(x)
  BY Zenon, <1>4 DEF Lists, EndedWith, GoesOn, tables
<1>. QED
  BY Zenon, <1>1, <1>2, <1>3, <1>4

\* A step that draws no serial and saves nothing.
LEMMA KeepsSerials ==
  ASSUME Shaped, Shaped', SerialInv, serial' = serial, Len(rows') = Len(rows),
         \A i \in 1 .. Len(rows) : rows'[i].serial = rows[i].serial,
         \A x \in Calls : call'[x].at = "save" => call[x].at = "save" /\ call'[x].serial = call[x].serial
  PROVE  SerialInv'
<1>1. DOMAIN rows = 1 .. Len(rows) /\ DOMAIN rows' = 1 .. Len(rows)
  BY DEF Shaped, RowsShaped
<1>2. Drawn'
  BY Zenon DEF SerialInv, Drawn
<1>3. SerialsUnique'
  BY <1>1 DEF SerialInv, SerialsUnique
<1>. QED
  BY <1>2, <1>3 DEF SerialInv

\* next_serial hands out a number above all that were handed out.
LEMMA NumbersSerial ==
  ASSUME Shaped, SerialInv, NEW x \in Calls, Numbers(x)
  PROVE  SerialInv'
<1>1. /\ serial \in Nat /\ rows' = rows /\ serial' = serial + 1
      /\ call'[x].serial = serial + 1 /\ \A y \in Calls \ {x} : call'[y] = call[y]
  BY Zenon DEF Numbers, GoesOn, Others, SerialInv, Drawn
<1>2. \A i \in DOMAIN rows : rows[i].serial \in Nat /\ rows[i].serial <= serial
  BY DEF SerialInv, Shaped, RowsShaped, Drawn
<1>3. \A y \in Calls : call[y].at = "save" => call[y].serial \in Nat /\ call[y].serial <= serial
  BY DEF SerialInv, Drawn
<1>4. Drawn'
  BY <1>1 DEF SerialInv, Drawn
<1>5. \A i, j \in DOMAIN rows' : rows'[i].serial = rows'[j].serial => i = j
  BY <1>1 DEF SerialInv, SerialsUnique
<1>6. \A y \in Calls : call'[y].at = "save" => \A i \in DOMAIN rows' : rows'[i].serial # call'[y].serial
  BY <1>1, <1>2 DEF SerialInv, SerialsUnique
<1>7. \A y, z \in Calls : call'[y].at = "save" /\ call'[z].at = "save" /\ call'[z].serial = call'[y].serial => y = z
  BY <1>1, <1>3 DEF SerialInv, SerialsUnique
<1>. QED
  BY <1>4, <1>5, <1>6, <1>7 DEF SerialInv, SerialsUnique

\* save uses the number up.
LEMMA SavesSerial ==
  ASSUME Shaped, Shaped', SerialInv, NEW x \in Calls, Saves(x)
  PROVE  SerialInv'
<1>. DEFINE m == Len(rows) + 1
<1>1. /\ call[x].at = "save" /\ serial' = serial /\ call'[x].at = "done"
      /\ \A y \in Calls \ {x} : call'[y] = call[y]
  BY DEF Saves, EndedWith, Others
<1>2. /\ Len(rows) \in Nat /\ DOMAIN rows = 1 .. Len(rows) /\ DOMAIN rows' = 1 .. m /\ Len(rows') = m
      /\ rows'[m].serial = call[x].serial /\ \A i \in 1 .. Len(rows) : rows'[i] = rows[i]
  BY DEF Saves, Saved, Shaped, RowsShaped
<1>3. call[x].serial \in Nat /\ call[x].serial <= serial /\ \A i \in 1 .. Len(rows) : rows[i].serial # call[x].serial
  BY Zenon, <1>1, <1>2 DEF SerialInv, Drawn, SerialsUnique
<1>4. \A y \in Calls : call'[y].at = "save" => call'[y] = call[y] /\ call[y].serial # call[x].serial
  BY <1>1 DEF SerialInv, SerialsUnique
<1>5. Drawn'
  <2>1. ASSUME NEW i \in 1 .. Len(rows') PROVE rows'[i].serial \in Nat /\ rows'[i].serial <= serial'
    <3>1. i \in 1 .. Len(rows) \/ i = m
      BY <1>2
    <3>. QED
      BY Zenon, <1>1, <1>2, <1>3, <3>1 DEF SerialInv, Drawn
  <2>. QED
    BY Zenon, <1>1, <1>4, <2>1 DEF SerialInv, Drawn
<1>6. \A i, j \in DOMAIN rows' : rows'[i].serial = rows'[j].serial => i = j
  BY <1>2, <1>3 DEF SerialInv, SerialsUnique
<1>7. \A y \in Calls : call'[y].at = "save" => \A i \in DOMAIN rows' : rows'[i].serial # call'[y].serial
  BY <1>2, <1>4 DEF SerialInv, SerialsUnique
<1>8. \A y, z \in Calls : call'[y].at = "save" /\ call'[z].at = "save" /\ call'[z].serial = call'[y].serial => y = z
  BY <1>4 DEF SerialInv, SerialsUnique
<1>. QED
  BY Zenon, <1>5, <1>6, <1>7, <1>8 DEF SerialInv, SerialsUnique

\* Serials stay distinct, drawn and saved.
LEMMA SerialStep ==
  ASSUME Shaped, SerialInv, [Next]_vars
  PROVE  SerialInv'
<1>1. Shaped' /\ ((\E x \in Calls : Moves(x)) \/ Restarts \/ Aside)
  BY NextKinds
<1>2. ASSUME NEW x \in Calls, Begins(x) \/ Queues(x) \/ Draws(x) \/ Targets(x) \/ Refused(x) \/ Lists(x)
      PROVE  SerialInv'
  <2>1. rows' = rows /\ serial' = serial
    BY Zenon, <1>2 DEF Begins, Queues, Draws, Targets, Refused, Lists, tables
  <2>2. Others(x) /\ call'[x].at # "save"
    <3>1. CASE Draws(x) \/ Targets(x)
      BY <3>1 DEF Draws, Targets, GoesOn
    <3>. QED
      BY <1>2, <3>1, Elsewhere
  <2>3. \A y \in Calls : call'[y].at = "save" => call'[y] = call[y]
    BY <2>2 DEF Others
  <2>. QED
    BY <1>1, <2>1, <2>3, KeepsSerials
<1>3. ASSUME NEW x \in Calls, Marks(x) \/ Cascades(x)
      PROVE  SerialInv'
  <2>1. \E n : Marked(n) /\ serial' = serial
    BY Zenon, <1>3 DEF Marks, Cascades
  <2>2. Others(x) /\ call'[x].at # "save"
    BY Zenon, <1>3 DEF Marks, Cascades, EndedWith, GoesOn
  <2>3. \A y \in Calls : call'[y].at = "save" => call'[y] = call[y]
    BY <2>2 DEF Others
  <2>. QED
    BY Zenon, <1>1, <2>1, <2>3, KeepsSerials DEF Marked
<1>4. CASE Restarts
  <2>1. rows' = rows /\ serial' = serial /\ \A y \in Calls : call'[y].at = "save" => call'[y] = call[y]
    BY <1>4 DEF Restarts, tables
  <2>. QED
    BY Zenon, <1>1, <2>1, KeepsSerials
<1>5. CASE Aside
  BY Zenon, <1>1, <1>5, KeepsSerials DEF Aside
<1>. QED
  BY <1>1, <1>2, <1>3, <1>4, <1>5, NumbersSerial, SavesSerial DEF Moves

\* The invariant of the shapes.
LEMMA ShapeInvariant == Spec => []Shaped
<1>1. Init => Shaped
  <2>. SUFFICES ASSUME Init PROVE Shaped
    OBVIOUS
  <2>1. call = [x \in Calls |-> Idle] /\ IsCall(Idle)
    BY Zenon DEF Init, Idle, IsCall
  <2>2. rows = << >> /\ Len(rows) = 0
    BY DEF Init
  <2>. QED
    BY <2>1, <2>2 DEF Shaped, CallsShaped, RowsShaped
<1>2. Shaped /\ [Next]_vars => Shaped'
  BY NextKinds
<1>. QED
  BY <1>1, <1>2, PTL DEF Spec

\* No serial is used twice, whatever interleaves and whenever the process restarts: the save that
\* the store would refuse ("Serial already exists") is never tried.
THEOREM SerialSafe == Spec => []SerialsUnique
<1>1. Init => SerialInv
  <2>. SUFFICES ASSUME Init PROVE SerialInv
    OBVIOUS
  <2>1. call = [x \in Calls |-> Idle] /\ Idle.at = "idle" /\ rows = << >> /\ Len(rows) = 0 /\ serial = 0
    BY Zenon DEF Init, Idle
  <2>2. /\ \A x \in Calls : call[x].at # "save"
        /\ DOMAIN rows = {} /\ 1 .. Len(rows) = {} /\ serial \in Nat
    BY <2>1
  <2>. QED
    BY Zenon, <2>2 DEF SerialInv, Drawn, SerialsUnique
<1>2. Shaped /\ SerialInv /\ [Next]_vars => SerialInv'
  BY SerialStep
<1>3. SerialInv => SerialsUnique
  BY DEF SerialInv
<1>. QED
  BY <1>1, <1>2, <1>3, ShapeInvariant, PTL DEF Spec
-----------------------------------------------------------------------------
(* The stages of a call, and the clock. *)

Issuing(x) == call[x].at \in {"serial", "save"}

\* Each call is at a stage of its operation.
Staged ==
  \A x \in Calls :
    LET c == call[x]
    IN  \/ c.at = "idle" /\ c.op = "none" /\ c.nid = None /\ c.result = "none"
        \/ c.at = "lookup" /\ c.op \in Ops /\ c.result = "none"
        \/ Issuing(x) /\ c.op \in Ops \ {"revoke"} /\ c.result = "none"
        \/ c.at \in {"mark", "children", "cascade"} /\ c.op = "revoke" /\ c.result = "none"
        \/ c.at = "done"

\* Among the rows of a name there is one issued last.
Topped ==
  \A k \in 1 .. Len(rows) : \E i \in 1 .. Len(rows) :
    /\ rows[i].nid = rows[k].nid
    /\ \A j \in 1 .. Len(rows) : rows[j].nid = rows[k].nid => rows[j].issued <= rows[i].issued

\* What the clock has given out.
Timed ==
  /\ Topped
  /\ instants \in Nat
  /\ \A i \in 1 .. Len(rows) : rows[i].issued \in Nat /\ rows[i].issued <= instants
  /\ \A x \in Calls : Issuing(x) => call[x].issued \in Nat /\ call[x].issued <= instants

\* Each step takes a call to a stage of its operation.
LEMMA StagedStep ==
  ASSUME Shaped, Staged, [Next]_vars
  PROVE  Staged'
<1>1. (\E x \in Calls : Moves(x)) \/ Restarts \/ Aside
  BY NextKinds
<1>2. ASSUME NEW x \in Calls, Others(x),
             \/ call'[x].at = "lookup" /\ call'[x].op \in Ops /\ call'[x].result = "none"
             \/ call'[x].at \in {"serial", "save"} /\ call'[x].op \in Ops \ {"revoke"} /\ call'[x].result = "none"
             \/ call'[x].at \in {"mark", "children", "cascade"} /\ call'[x].op = "revoke" /\ call'[x].result = "none"
             \/ call'[x].at = "done"
      PROVE  Staged'
  BY <1>2 DEF Staged, Others, Issuing
<1>3. ASSUME NEW x \in Calls, Begins(x) PROVE Staged'
  BY <1>2, <1>3 DEF Begins, Arrived, Ops
<1>4. ASSUME NEW x \in Calls, Queues(x) \/ Refused(x) \/ Saves(x) PROVE Staged'
  BY <1>2, <1>4 DEF Queues, Refused, Saves, EndedWith
<1>5. ASSUME NEW x \in Calls, Draws(x) PROVE Staged'
  BY Zenon, <1>2, <1>5 DEF Draws, GoesOn, Staged, Issuing, Ops
<1>6. ASSUME NEW x \in Calls, Targets(x) \/ Numbers(x) PROVE Staged'
  BY Zenon, <1>2, <1>6 DEF Targets, Numbers, GoesOn, Staged, Issuing
<1>7. ASSUME NEW x \in Calls, Marks(x) \/ Lists(x) \/ Cascades(x) PROVE Staged'
  BY Zenon, <1>2, <1>7 DEF Marks, Lists, Cascades, GoesOn, EndedWith, Staged, Issuing
<1>8. CASE Restarts
  BY <1>8 DEF Restarts, Staged, Issuing
<1>9. CASE Aside
  BY Zenon, <1>9 DEF Aside, Staged, Issuing
<1>. QED
  BY <1>1, <1>3, <1>4, <1>5, <1>6, <1>7, <1>8, <1>9 DEF Moves

\* Only a call that may run changes.
LEMMA MovesAlone ==
  ASSUME NEW x \in Calls, Moves(x)
  PROVE  MayRun(x) /\ Others(x) /\ store' = store
<1>1. MayRun(x) /\ store' = store
  BY Zenon DEF Moves, Begins, Queues, Draws, Targets, Refused, Numbers, Saves, Marks, Lists, Cascades, MayStart, tables
<1>2. Others(x)
  BY ZenonT(40) DEF Moves, Begins, Queues, Draws, Targets, Refused, Numbers, Saves, Marks, Lists, Cascades,
         Arrived, EndedWith, GoesOn
<1>. QED
  BY <1>1, <1>2

\* The row issued last is the new one, or the one that was.
LEMMA ToppedSaves ==
  ASSUME Shaped, Timed, NEW x \in Calls, Saves(x)
  PROVE  /\ \A i \in 1 .. Len(rows') : rows'[i].issued \in Nat /\ rows'[i].issued <= instants
         /\ Topped'
<1>. DEFINE m == Len(rows) + 1
<1>1. /\ Issuing(x) /\ Len(rows') = m /\ rows'[m].issued = call[x].issued
      /\ \A i \in 1 .. Len(rows) : rows'[i] = rows[i]
  BY DEF Saves, Saved, Issuing
<1>2. Len(rows) \in Nat
  BY DEF Shaped, RowsShaped
<1>3. \A i \in 1 .. m : rows'[i].issued \in Nat /\ rows'[i].issued <= instants
  BY <1>1, <1>2 DEF Timed
<1>4. ASSUME NEW k \in 1 .. m
      PROVE  \E i \in 1 .. m : /\ rows'[i].nid = rows'[k].nid
                               /\ \A j \in 1 .. m : rows'[j].nid = rows'[k].nid => rows'[j].issued <= rows'[i].issued
  <2>1. CASE \A j \in 1 .. Len(rows) : rows[j].nid # rows'[k].nid
    <3>1. k = m
      BY <1>1, <1>2, <2>1
    <3>2. ASSUME NEW j \in 1 .. m, rows'[j].nid = rows'[k].nid PROVE rows'[j].issued <= rows'[m].issued
      <4>1. j = m
        BY <1>1, <1>2, <2>1, <3>2
      <4>. QED
        BY <1>3, <4>1
    <3>. QED
      BY Zenon, <1>2, <3>1, <3>2
  <2>2. ASSUME NEW h \in 1 .. Len(rows), rows[h].nid = rows'[k].nid
        PROVE  \E i \in 1 .. m : /\ rows'[i].nid = rows'[k].nid
                                 /\ \A j \in 1 .. m : rows'[j].nid = rows'[k].nid => rows'[j].issued <= rows'[i].issued
    <3>1. PICK i \in 1 .. Len(rows) :
            /\ rows[i].nid = rows[h].nid
            /\ \A j \in 1 .. Len(rows) : rows[j].nid = rows[h].nid => rows[j].issued <= rows[i].issued
      BY DEF Timed, Topped
    <3>0. i \in 1 .. m /\ m \in 1 .. m
      BY <1>2
    <3>2. /\ rows'[i].nid = rows'[k].nid /\ rows'[i].issued \in Nat /\ rows'[m].issued \in Nat
          /\ \A j \in 1 .. Len(rows) : rows'[j].nid = rows'[k].nid => rows'[j].issued <= rows'[i].issued
      BY Zenon, <1>1, <1>3, <2>2, <3>0, <3>1
    <3>3. \A j \in 1 .. m : j \in 1 .. Len(rows) \/ j = m
      BY <1>2
    <3>4. CASE rows'[m].nid = rows'[k].nid /\ rows'[i].issued < rows'[m].issued
      <4>1. ASSUME NEW j \in 1 .. m, rows'[j].nid = rows'[k].nid PROVE rows'[j].issued <= rows'[m].issued
        BY <1>3, <3>2, <3>3, <3>4, <4>1
      <4>. QED
        BY Zenon, <3>0, <3>4, <4>1
    <3>5. CASE ~(rows'[m].nid = rows'[k].nid /\ rows'[i].issued < rows'[m].issued)
      <4>1. ASSUME NEW j \in 1 .. m, rows'[j].nid = rows'[k].nid PROVE rows'[j].issued <= rows'[i].issued
        BY <1>3, <3>2, <3>3, <3>5, <4>1
      <4>2. i \in 1 .. m
        BY <1>2
      <4>. QED
        BY Zenon, <3>2, <4>1, <4>2
    <3>. QED
      BY Zenon, <3>4, <3>5
  <2>. QED
    BY <2>1, <2>2
<1>5. Topped'
  BY Zenon, <1>1, <1>4 DEF Topped
<1>. QED
  BY Zenon, <1>1, <1>3, <1>5

\* No instant is given out later than the clock, and every name has a row issued last.
LEMMA TimedStep ==
  ASSUME Shaped, Timed, [Next]_vars
  PROVE  Timed'
<1>1. (\E x \in Calls : Moves(x)) \/ Restarts \/ Aside
  BY NextKinds
<1>2. instants \in Nat /\ (rows' = rows => Topped')
  BY DEF Timed, Topped
<1>3. ASSUME NEW x \in Calls, Begins(x) \/ Queues(x) \/ Targets(x) \/ Refused(x) \/ Lists(x) PROVE Timed'
  <2>1. rows' = rows /\ instants' = instants
    BY Zenon, <1>3 DEF Begins, Queues, Targets, Refused, Lists, tables
  <2>2. Others(x) /\ call'[x].at \notin {"serial", "save"}
    <3>1. CASE Targets(x)
      BY <3>1 DEF Targets, GoesOn
    <3>. QED
      BY <1>3, <3>1, Elsewhere
  <2>. QED
    BY <1>2, <2>1, <2>2 DEF Timed, Others, Issuing
<1>4. ASSUME NEW x \in Calls, Draws(x) PROVE Timed'
  <2>1. Others(x) /\ rows' = rows /\ instants' = instants + 1 /\ call'[x].issued = instants + 1
    BY Zenon, <1>4 DEF Draws, GoesOn
  <2>2. instants + 1 \in Nat /\ \A n \in Nat : n <= instants => n <= instants + 1
    BY <1>2
  <2>3. instants + 1 <= instants + 1
    BY <1>2
  <2>. QED
    BY Zenon, <1>2, <2>1, <2>2, <2>3 DEF Timed, Others, Issuing
<1>5. ASSUME NEW x \in Calls, Numbers(x) PROVE Timed'
  <2>1. /\ Others(x) /\ rows' = rows /\ instants' = instants /\ Issuing(x)
        /\ call'[x].issued = call[x].issued
    BY Zenon, <1>5 DEF Numbers, GoesOn, Issuing
  <2>. QED
    BY Zenon, <1>2, <2>1 DEF Timed, Others, Issuing
<1>6. ASSUME NEW x \in Calls, Saves(x) PROVE Timed'
  <2>1. Others(x) /\ call'[x].at = "done" /\ instants' = instants
    BY <1>6 DEF Saves, EndedWith
  <2>2. Topped' /\ \A i \in 1 .. Len(rows') : rows'[i].issued \in Nat /\ rows'[i].issued <= instants
    BY <1>6, ToppedSaves
  <2>. QED
    BY Zenon, <2>1, <2>2 DEF Timed, Others, Issuing
<1>7. ASSUME NEW x \in Calls, Marks(x) \/ Cascades(x) PROVE Timed'
  <2>1. Others(x) /\ call'[x].at \notin {"serial", "save"} /\ instants' = instants
    BY Zenon, <1>7 DEF Marks, Cascades, EndedWith, GoesOn
  <2>2. Len(rows') = Len(rows) /\ \A i \in 1 .. Len(rows) : rows'[i].issued = rows[i].issued /\ rows'[i].nid = rows[i].nid
    BY Zenon, <1>7 DEF Marks, Cascades, Marked
  <2>3. Topped'
    <3>1. Topped
      BY Zenon DEF Timed
    <3>. SUFFICES ASSUME NEW k \in 1 .. Len(rows)
                  PROVE  \E i \in 1 .. Len(rows) :
                           /\ rows'[i].nid = rows'[k].nid
                           /\ \A j \in 1 .. Len(rows) : rows'[j].nid = rows'[k].nid => rows'[j].issued <= rows'[i].issued
      BY Zenon, <2>2 DEF Topped
    <3>2. PICK i \in 1 .. Len(rows) :
            /\ rows[i].nid = rows[k].nid
            /\ \A j \in 1 .. Len(rows) : rows[j].nid = rows[k].nid => rows[j].issued <= rows[i].issued
      BY Zenon, <3>1 DEF Topped
    <3>. QED
      BY Zenon, <2>2, <3>2
  <2>. QED
    BY Zenon, <2>1, <2>2, <2>3 DEF Timed, Others, Issuing
<1>8. CASE Restarts
  BY <1>2, <1>8 DEF Restarts, tables, Timed, Issuing
<1>9. CASE Aside
  BY Zenon, <1>2, <1>9 DEF Aside, Timed, Issuing
<1>. QED
  BY <1>1, <1>3, <1>4, <1>5, <1>6, <1>7, <1>8, <1>9 DEF Moves
-----------------------------------------------------------------------------
\* A token that was not used has let nobody in.
TokenInv ==
  /\ token = [t \in Tokens |-> token[t]] /\ admitted = [t \in Tokens |-> admitted[t]]
  /\ \A t \in Tokens : /\ token[t] = [state |-> token[t].state, expires |-> token[t].expires]
                       /\ admitted[t] = {} \/ \E x \in Calls : admitted[t] = {x}
                       /\ token[t].state \in {"absent", "fresh"} => admitted[t] = {}

IsPending(r) == r = [status |-> r.status, nid |-> r.nid, key |-> r.key, requested |-> r.requested]

CarriedOut(p) == {x \in Calls : call[x].op = "approve" /\ call[x].item = p /\ call[x].result = "ok"}

\* A queued registration under decision is still undecided, and one that was never queued, or
\* waits, was not carried out.
DecisionInv ==
  /\ pending = [p \in Calls |-> pending[p]]
  /\ \A p \in Calls : IsPending(pending[p])
  /\ store = "memory" =>
       /\ \A x \in Calls : ~Over(x) /\ call[x].op = "approve" =>
            call[x].item \in Calls /\ pending[call[x].item].status = "pending"
       /\ \A p \in Calls :
            /\ pending[p].status \in {"pending", "rejected"} => CarriedOut(p) = {}
            /\ pending[p].status = "approved" => CarriedOut(p) # {}
            /\ CarriedOut(p) = {} \/ \E x \in Calls : CarriedOut(p) = {x}
            /\ call[p].at = "idle" => CarriedOut(p) = {} /\ pending[p].status = "none"

\* A token that is spent has let in one registration, and is not spent again.
LEMMA TokenStep ==
  ASSUME Shaped, TokenInv, [Next]_vars
  PROVE  TokenInv'
<1>1. (\E x \in Calls : Moves(x)) \/ Restarts \/ Aside
  BY NextKinds
<1>2. CASE UNCHANGED <<token, admitted>>
  BY <1>2 DEF TokenInv
<1>3. ASSUME NEW t \in Tokens, NEW v, token' = [token EXCEPT ![t] = v],
             v = [state |-> v.state, expires |-> v.expires],
             admitted'[t] = {} \/ \E x \in Calls : admitted'[t] = {x},
             v.state \in {"absent", "fresh"} => admitted'[t] = {},
             admitted' = [u \in Tokens |-> admitted'[u]], \A u \in Tokens \ {t} : admitted'[u] = admitted[u]
      PROVE  TokenInv'
  BY <1>3 DEF TokenInv
<1>4. ASSUME NEW x \in Calls, NEW t \in Tokens, token[t].state = "fresh",
             token' = [token EXCEPT ![t].state = "consumed"], admitted' = [admitted EXCEPT ![t] = @ \union {x}]
      PROVE  TokenInv'
  <2>. DEFINE v == [token[t] EXCEPT !.state = "consumed"]
  <2>1. v = [state |-> v.state, expires |-> v.expires] /\ v.state = "consumed" /\ token' = [token EXCEPT ![t] = v]
    BY <1>4 DEF TokenInv
  <2>2. admitted' = [u \in Tokens |-> admitted'[u]] /\ \A u \in Tokens \ {t} : admitted'[u] = admitted[u]
    BY Zenon, <1>4 DEF TokenInv
  <2>3. admitted'[t] = {x}
    BY <1>4 DEF TokenInv
  <2>. HIDE DEF v
  <2>. QED
    BY Zenon, <1>3, <2>1, <2>2, <2>3
<1>5. ASSUME NEW x \in Calls, Moves(x) PROVE TokenInv'
  <2>1. TokenUse(x)
    BY <1>5 DEF Moves, Begins, Queues, Draws, Targets, Refused, Numbers, Saves, Marks, Lists, Cascades,
                TokenUse, enrollment
  <2>. QED
    BY <1>2, <1>4, <2>1 DEF TokenUse
<1>6. CASE Restarts
  <2>1. admitted' = admitted
    BY <1>6 DEF Restarts
  <2>2. token' = [t \in Tokens |-> IF token[t].state = "absent" THEN token[t] ELSE [token[t] EXCEPT !.state = "revoked"]]
    BY <1>6 DEF Restarts
  <2>3. ASSUME NEW t \in Tokens
        PROVE  /\ token'[t] = [state |-> token'[t].state, expires |-> token'[t].expires]
               /\ token'[t].state \in {"absent", "fresh"} => token[t].state = "absent"
    <3>1. CASE token[t].state = "absent"
      BY <2>2, <3>1 DEF TokenInv
    <3>2. CASE token[t].state # "absent"
      <4>1. token'[t] = [token[t] EXCEPT !.state = "revoked"]
        BY <2>2, <3>2
      <4>2. token[t] = [state |-> token[t].state, expires |-> token[t].expires]
        BY DEF TokenInv
      <4>. QED
        BY <4>1, <4>2
    <3>. QED
      BY Zenon, <3>1, <3>2
  <2>. QED
    BY <2>1, <2>2, <2>3 DEF TokenInv
<1>7. ASSUME NEW t \in Tokens, CreateToken(t) \/ RevokeToken(t) PROVE TokenInv'
  <2>1. admitted' = admitted
    BY <1>7 DEF CreateToken, RevokeToken
  <2>2. CASE CreateToken(t)
    <3>. DEFINE v == [state |-> "fresh", expires |-> now + TokenDays]
    <3>1. v.state = "fresh" /\ v = [state |-> v.state, expires |-> v.expires] /\ token' = [token EXCEPT ![t] = v]
      BY <2>2 DEF CreateToken
    <3>2. admitted[t] = {}
      BY <2>2 DEF CreateToken, NoToken, TokenInv
    <3>. HIDE DEF v
    <3>. QED
      BY Zenon, <1>3, <2>1, <3>1, <3>2 DEF TokenInv
  <2>3. CASE RevokeToken(t)
    <3>. DEFINE v == [token[t] EXCEPT !.state = "revoked"]
    <3>1. v.state = "revoked" /\ v = [state |-> v.state, expires |-> v.expires] /\ token' = [token EXCEPT ![t] = v]
      BY <2>3 DEF RevokeToken, TokenInv
    <3>. HIDE DEF v
    <3>. QED
      BY Zenon, <1>3, <2>1, <3>1 DEF TokenInv
  <2>. QED
    BY <1>7, <2>2, <2>3
<1>8. CASE Aside
  BY <1>2, <1>7, <1>8 DEF Aside, Reject
<1>. QED
  BY <1>1, <1>5, <1>6, <1>8

\* What an approval that succeeds adds; nothing else is carried out.
LEMMA CarriedStep ==
  ASSUME Shaped, Staged, NEW x \in Calls, Moves(x), NEW p
  PROVE  CarriedOut(p)' = IF Saves(x) /\ call[x].op = "approve" /\ call[x].item = p
                          THEN CarriedOut(p) \union {x} ELSE CarriedOut(p)
<1>1. Others(x)
  BY MovesAlone
<1>2. x \notin CarriedOut(p)
  <2>1. call[x].at # "done"
    BY Zenon DEF Moves, Begins, Queues, Draws, Targets, Refused, Numbers, Saves, Marks, Lists, Cascades, MayStart
  <2>. QED
    BY Zenon, <2>1 DEF Staged, CarriedOut
<1>3. CASE Saves(x)
  BY <1>1, <1>2, <1>3 DEF Saves, EndedWith, CarriedOut, Others
<1>4. CASE ~Saves(x)
  <2>1. ~(call'[x].op = "approve" /\ call'[x].result = "ok")
    BY ZenonT(40), <1>4 DEF Moves, Begins, Queues, Draws, Targets, Refused, Numbers, Marks, Lists, Cascades,
                Arrived, EndedWith, GoesOn, Staged, Issuing
  <2>. QED
    BY Zenon, <1>1, <1>2, <1>4, <2>1 DEF CarriedOut, Others
<1>. QED
  BY <1>3, <1>4

\* The queue after a registration was queued.
LEMMA QueueShape ==
  ASSUME NEW x \in Calls, NEW n, NEW k, DecisionInv,
         pending' = [SweptPending EXCEPT ![x] = [status |-> "pending", nid |-> n, key |-> k, requested |-> now]]
  PROVE  /\ pending' = [p \in Calls |-> pending'[p]] /\ \A p \in Calls : IsPending(pending'[p])
         /\ pending'[x].status = "pending" /\ pending'[x].nid = n
         /\ \A p \in Calls \ {x} : \/ pending'[p] = pending[p]
                                   \/ pending'[p].status = "none" /\ pending[p].status \in {"approved", "rejected"}
<1>. DEFINE r == [status |-> "pending", nid |-> n, key |-> k, requested |-> now]
<1>1. IsPending(r) /\ r.status = "pending" /\ r.nid = n
  BY DEF IsPending
<1>2. IsPending(NoPending) /\ NoPending.status = "none"
  BY DEF IsPending, NoPending
<1>3. pending' = [SweptPending EXCEPT ![x] = r]
  OBVIOUS
<1>. HIDE DEF r
<1>4. pending' = [p \in Calls |-> IF p = x THEN r ELSE SweptPending[p]]
  BY Zenon, <1>3 DEF SweptPending
<1>5. \A p \in Calls : \/ SweptPending[p] = pending[p]
                       \/ SweptPending[p] = NoPending /\ pending[p].status \in {"approved", "rejected"}
  BY Zenon DEF SweptPending
<1>6. pending'[x] = r /\ \A p \in Calls \ {x} : pending'[p] = SweptPending[p]
  BY <1>4
<1>7. \A p \in Calls : IsPending(pending'[p])
  BY <1>1, <1>2, <1>5, <1>6 DEF DecisionInv
<1>8. pending' = [p \in Calls |-> pending'[p]]
  BY Zenon, <1>4
<1>. QED
  BY Zenon, <1>1, <1>2, <1>5, <1>6, <1>7, <1>8

\* One record is decided.
LEMMA DecidedShape ==
  ASSUME NEW q \in Calls, NEW v, DecisionInv, pending' = [pending EXCEPT ![q].status = v]
  PROVE  /\ pending' = [p \in Calls |-> pending'[p]] /\ \A p \in Calls : IsPending(pending'[p])
         /\ pending'[q].status = v /\ pending'[q].nid = pending[q].nid
         /\ \A p \in Calls \ {q} : pending'[p] = pending[p]
<1>. DEFINE r == [pending[q] EXCEPT !.status = v]
<1>1. IsPending(r) /\ r.status = v /\ r.nid = pending[q].nid
  BY DEF IsPending, DecisionInv
<1>2. pending' = [pending EXCEPT ![q] = r]
  OBVIOUS
<1>. HIDE DEF r
<1>. QED
  BY <1>1, <1>2 DEF DecisionInv

\* A call other than a save, over the in-memory store.
LEMMA DecisionMoves ==
  ASSUME Shaped, Staged, DecisionInv, NEW x \in Calls, Moves(x), ~Saves(x)
  PROVE  DecisionInv'
<1>1. \A p \in Calls : CarriedOut(p)' = CarriedOut(p)
  BY CarriedStep
<1>2. Others(x) /\ MayRun(x) /\ store' = store
  BY MovesAlone
<1>3. call'[x].at # "idle"
  BY ZenonT(40) DEF Moves, Begins, Queues, Draws, Targets, Refused, Numbers, Marks, Lists, Cascades, Arrived, EndedWith, GoesOn
<1>4. CASE Queues(x) /\ pending' # pending
  <2>1. PICK n \in Agents, k \in Keys :
          pending' = [SweptPending EXCEPT ![x] = [status |-> "pending", nid |-> n, key |-> k, requested |-> now]]
    BY <1>4 DEF Queues
  <2>2. /\ pending' = [p \in Calls |-> pending'[p]] /\ \A p \in Calls : IsPending(pending'[p])
        /\ pending'[x].status = "pending"
        /\ \A p \in Calls \ {x} : \/ pending'[p] = pending[p]
                                  \/ pending'[p].status = "none" /\ pending[p].status \in {"approved", "rejected"}
    BY Zenon, <2>1, QueueShape
  <2>3. call'[x].at = "done" /\ call[x].at = "idle"
    BY Zenon, <1>4 DEF Queues, EndedWith, MayStart
  <2>4. ASSUME store = "memory", NEW y \in Calls PROVE Over(y)'
    BY <1>2, <2>3, <2>4 DEF MayRun, Over, Others
  <2>5. ASSUME store = "memory", NEW p \in Calls
        PROVE  /\ pending'[p].status \in {"pending", "rejected"} => CarriedOut(p)' = {}
               /\ pending'[p].status = "approved" => CarriedOut(p)' # {}
               /\ CarriedOut(p)' = {} \/ \E z \in Calls : CarriedOut(p)' = {z}
               /\ call'[p].at = "idle" => CarriedOut(p)' = {} /\ pending'[p].status = "none"
    <3>1. CASE p = x
      BY Zenon, <1>1, <1>3, <2>2, <2>3, <2>5, <3>1 DEF DecisionInv
    <3>2. CASE p # x
      BY <1>1, <1>2, <2>2, <2>5, <3>2 DEF DecisionInv, Others
    <3>. QED
      BY Zenon, <3>1, <3>2
  <2>. QED
    BY Zenon, <1>2, <2>2, <2>4, <2>5 DEF DecisionInv
<1>5. CASE pending' = pending
  <2>1. ASSUME store = "memory", NEW y \in Calls, ~Over(y)', call'[y].op = "approve"
        PROVE  call'[y].item \in Calls /\ pending'[call'[y].item].status = "pending"
    <3>1. y = x
      BY Zenon, <1>2, <2>1 DEF MayRun, Over, Others
    <3>2. CASE Begins(x)
      <4>1. call'[x].item \in Calls /\ pending[call'[x].item].status = "pending"
        BY Zenon, <2>1, <3>1, <3>2, BeginsAs
      <4>. QED
        BY <1>5, <3>1, <4>1
    <3>3. CASE ~Begins(x)
      <4>1. ~Over(x) /\ call[x].op = "approve" /\ call'[x].item = call[x].item
        BY Zenon, <2>1, <3>1, <3>3 DEF Moves, Queues, Draws, Targets, Refused, Numbers, Marks, Lists, Cascades,
                                 EndedWith, GoesOn, Over
      <4>. QED
        BY Zenon, <1>5, <2>1, <3>1, <4>1 DEF DecisionInv
    <3>. QED
      BY Zenon, <3>2, <3>3
  <2>2. \A p \in Calls : call'[p].at = "idle" => call[p].at = "idle"
    BY Zenon, <1>2, <1>3 DEF Others
  <2>. QED
    BY <1>1, <1>2, <1>5, <2>1, <2>2 DEF DecisionInv
<1>6. pending' = pending \/ Queues(x)
  BY Zenon DEF Moves, Begins, Draws, Targets, Refused, Numbers, Marks, Lists, Cascades, enrollment
<1>. QED
  BY <1>4, <1>5, <1>6

\* A save carries out the decision it belongs to.
LEMMA DecisionSaves ==
  ASSUME Shaped, Staged, DecisionInv, NEW x \in Calls, Saves(x)
  PROVE  DecisionInv'
<1>. PICK q : q = call[x].item
  OBVIOUS
<1>1. Others(x) /\ MayRun(x) /\ store' = store
  BY MovesAlone DEF Moves
<1>2. call'[x].at = "done" /\ call[x].at = "save"
  BY DEF Saves, EndedWith
<1>3. \A p \in Calls : CarriedOut(p)' = IF call[x].op = "approve" /\ q = p THEN CarriedOut(p) \union {x} ELSE CarriedOut(p)
  BY Zenon, CarriedStep DEF Moves
<1>4. ASSUME store = "memory", NEW y \in Calls PROVE Over(y)'
  BY Zenon, <1>1, <1>2, <1>4 DEF MayRun, Over, Others
<1>5. \A p \in Calls : call'[p].at = "idle" => call[p].at = "idle"
  BY Zenon, <1>1, <1>2 DEF Others
<1>6. CASE store = "memory" /\ call[x].op = "approve"
  <2>1. q \in Calls /\ pending[q].status = "pending" /\ CarriedOut(q) = {}
    BY Zenon, <1>2, <1>6 DEF DecisionInv, Over
  <2>2. pending' = [pending EXCEPT ![q].status = "approved"]
    BY <1>6, <2>1 DEF Saves
  <2>3. /\ pending' = [p \in Calls |-> pending'[p]] /\ \A p \in Calls : IsPending(pending'[p])
        /\ pending'[q].status = "approved" /\ \A p \in Calls \ {q} : pending'[p] = pending[p]
    BY ONLY Zenon, DecisionInv, <2>1, <2>2, DecidedShape
  <2>4. CarriedOut(q)' = {x} /\ \A p \in Calls \ {q} : CarriedOut(p)' = CarriedOut(p)
    <3>1. CarriedOut(q)' = CarriedOut(q) \union {x}
      BY <1>3, <1>6, <2>1
    <3>2. CarriedOut(q) \union {x} = {x}
      BY Zenon, <2>1
    <3>. QED
      BY Zenon, <1>3, <3>1, <3>2
  <2>5. call[q].at # "idle"
    BY <1>6, <2>1 DEF DecisionInv
  <2>6. ASSUME NEW p \in Calls
        PROVE  /\ pending'[p].status \in {"pending", "rejected"} => CarriedOut(p)' = {}
               /\ pending'[p].status = "approved" => CarriedOut(p)' # {}
               /\ CarriedOut(p)' = {} \/ \E z \in Calls : CarriedOut(p)' = {z}
               /\ call'[p].at = "idle" => CarriedOut(p)' = {} /\ pending'[p].status = "none"
    <3>1. CASE p = q
      BY Zenon, <1>5, <2>3, <2>4, <2>5, <3>1
    <3>2. CASE p # q
      BY <1>5, <1>6, <2>3, <2>4, <3>2 DEF DecisionInv
    <3>. QED
      BY Zenon, <3>1, <3>2
  <2>. QED
    BY Zenon, <1>1, <1>4, <1>6, <2>3, <2>6 DEF DecisionInv
<1>7. CASE store = "memory" /\ call[x].op # "approve"
  <2>1. pending' = pending /\ \A p \in Calls : CarriedOut(p)' = CarriedOut(p)
    BY <1>3, <1>7 DEF Saves
  <2>. QED
    BY <1>1, <1>4, <1>5, <1>7, <2>1 DEF DecisionInv
<1>8. CASE store # "memory"
  <2>1. pending' = pending \/ pending' = [pending EXCEPT ![q].status = "approved"]
    BY DEF Saves
  <2>2. CASE q \in Calls
    BY Zenon, <1>1, <1>8, <2>1, <2>2, DecidedShape DEF DecisionInv
  <2>3. CASE q \notin Calls
    BY <1>1, <1>8, <2>1, <2>3 DEF DecisionInv
  <2>. QED
    BY <2>2, <2>3
<1>. QED
  BY <1>6, <1>7, <1>8

\* A decision is carried out once, and recorded when it is.
LEMMA DecisionStep ==
  ASSUME Shaped, Staged, DecisionInv, [Next]_vars
  PROVE  DecisionInv'
<1>1. (\E x \in Calls : Moves(x)) \/ Restarts \/ Aside
  BY NextKinds
<1>2. CASE Restarts
  <2>1. store = "sql" /\ store' = store /\ pending' = [x \in Calls |-> NoPending]
    BY <1>2 DEF Restarts, tables
  <2>2. IsPending(NoPending)
    BY DEF IsPending, NoPending
  <2>. QED
    BY Zenon, <2>1, <2>2 DEF DecisionInv
<1>3. ASSUME call' = call, pending' = pending, store' = store PROVE DecisionInv'
  BY <1>3 DEF DecisionInv, Over, CarriedOut
<1>4. ASSUME NEW q \in Calls, Reject(q), call' = call, store' = store PROVE DecisionInv'
  <2>1. MayAct /\ pending[q].status = "pending" /\ pending' = [pending EXCEPT ![q].status = "rejected"]
    BY <1>4 DEF Reject
  <2>2. /\ pending' = [p \in Calls |-> pending'[p]] /\ \A p \in Calls : IsPending(pending'[p])
        /\ pending'[q].status = "rejected" /\ \A p \in Calls \ {q} : pending'[p] = pending[p]
    BY Zenon, <2>1, DecidedShape
  <2>3. store = "memory" => \A y \in Calls : Over(y)'
    BY <1>4, <2>1 DEF MayAct, Over
  <2>4. \A p \in Calls : CarriedOut(p)' = CarriedOut(p)
    BY <1>4 DEF CarriedOut
  <2>5. ASSUME store = "memory", NEW p \in Calls
        PROVE  /\ pending'[p].status \in {"pending", "rejected"} => CarriedOut(p)' = {}
               /\ pending'[p].status = "approved" => CarriedOut(p)' # {}
               /\ CarriedOut(p)' = {} \/ \E z \in Calls : CarriedOut(p)' = {z}
               /\ call'[p].at = "idle" => CarriedOut(p)' = {} /\ pending'[p].status = "none"
    <3>1. CASE p = q
      BY <1>4, <2>1, <2>2, <2>4, <2>5, <3>1 DEF DecisionInv
    <3>2. CASE p # q
      BY <1>4, <2>2, <2>4, <2>5, <3>2 DEF DecisionInv
    <3>. QED
      BY Zenon, <3>1, <3>2
  <2>. QED
    BY Zenon, <1>4, <2>2, <2>3, <2>5 DEF DecisionInv
<1>5. CASE Aside
  BY <1>3, <1>4, <1>5 DEF Aside, CreateToken, RevokeToken
<1>. QED
  BY <1>1, <1>2, <1>5, DecisionMoves, DecisionSaves

\* Nothing is queued or decided at first.
LEMMA DecisionInit == Init => Staged /\ DecisionInv
<1>. SUFFICES ASSUME Init PROVE Staged /\ DecisionInv
  OBVIOUS
<1>1. /\ call = [x \in Calls |-> Idle] /\ Idle.at = "idle" /\ Idle.op = "none" /\ Idle.nid = None
      /\ Idle.result = "none"
  BY Zenon DEF Init, Idle
<1>2. Staged
  BY Zenon, <1>1 DEF Staged
<1>3. pending = [p \in Calls |-> NoPending] /\ IsPending(NoPending) /\ NoPending.status = "none"
  BY DEF Init, NoPending, IsPending
<1>4. \A p \in Calls : CarriedOut(p) = {}
  BY <1>1 DEF CarriedOut
<1>5. DecisionInv
  BY Zenon, <1>1, <1>3, <1>4 DEF DecisionInv, Over
<1>. QED
  BY <1>2, <1>5

\* Admission happens once: a single-use token lets in one registration, and over the in-memory store
\* a queued registration is carried out by one approval and not after it was rejected.
THEOREM AdmissionSafe == Spec => []AdmittedOnce
<1>1. Init => Staged /\ TokenInv /\ DecisionInv
  <2>1. Init => TokenInv
    BY DEF Init, TokenInv, NoToken
  <2>. QED
    BY <2>1, DecisionInit
<1>2. Shaped /\ Staged /\ TokenInv /\ DecisionInv /\ [Next]_vars => (Staged /\ TokenInv /\ DecisionInv)'
  BY StagedStep, TokenStep, DecisionStep
<1>3. TokenInv /\ DecisionInv => AdmittedOnce
  <2>. SUFFICES ASSUME TokenInv, DecisionInv PROVE AdmittedOnce
    OBVIOUS
  <2>1. TokenAdmitsOne
    BY DEF TokenInv, TokenAdmitsOne
  <2>2. DecidedOnce
    BY DEF DecisionInv, DecidedOnce, CarriedOut
  <2>. QED
    BY <2>1, <2>2 DEF AdmittedOnce
<1>. QED
  BY <1>1, <1>2, <1>3, ShapeInvariant, PTL DEF Spec
=============================================================================
