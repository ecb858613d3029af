---------------------------- MODULE NwpReputation ----------------------------
(***************************************************************************)
(* DefaultReputationEvaluator (nwp/reputation.py): which of an agent's     *)
(* logged incidents ban, reject or throttle it, with the cached answers of *)
(* the log and the cached bans.                                            *)
(*                                                                         *)
(* evaluate() never suspends (urlopen blocks the event loop), so one       *)
(* evaluation is one step.  Severities and assurance levels are their      *)
(* indices, days and seconds the same ticks.                               *)
(***************************************************************************)
EXTENDS Integers, Sequences, FiniteSets

CONSTANTS
  Agents,    \* NIDs
  Policies,  \* ReputationPolicy objects a node may be configured with
  Incidents, \* kinds of incidents the log knows
  MaxTime,   \* bound on the clock
  MaxLog,    \* bound on the incidents of an agent
  None

ASSUME PolicyAssumption == None \notin Nat /\ \A p \in Policies : p.cache_ttl \in Nat

VARIABLES
  now,     \* the clock
  policy,  \* ReputationPolicy
  log,     \* the log sources: what was reported of each agent
  bans,    \* _bans: until when
  fetched, \* _cache: [until, entries]
  outage   \* history: when the log was last asked, if in vain

reputation == <<now, policy, log, bans, fetched, outage>>

Critical == 4

Entry == [incident: Incidents \union {"*"}, severity: 0..Critical, at: 0..MaxTime]

ReputationInit ==
  /\ now = 0 /\ policy \in Policies
  /\ log = [a \in Agents |-> <<>>]
  /\ bans = [a \in Agents |-> None] /\ fetched = [a \in Agents |-> None]
  /\ outage = [a \in Agents |-> None]
-----------------------------------------------------------------------------
(* Rules. *)

IncidentMatch(pattern, incident) == pattern = "*" \/ pattern = incident

SevMatch(rule, severity) == IF rule.exact THEN severity = rule.severity ELSE severity >= rule.severity

Recent(rule, e) == rule.within_days = None \/ e.at >= now - rule.within_days

\* _rule_matches
RuleMatches(rule, entries) ==
  LET matched == {i \in DOMAIN entries : /\ Recent(rule, entries[i])
                                         /\ IncidentMatch(rule.incident, entries[i].incident)
                                         /\ SevMatch(rule, entries[i].severity)}
      needed == IF rule.count < 1 THEN 1 ELSE rule.count
  IN  Cardinality(matched) >= needed

AnyMatches(rules, entries) == \E rule \in rules : RuleMatches(rule, entries)

\* The order of the three lists is the order of severity.
Outcome(entries) ==
  IF AnyMatches(policy.ban_on, entries) THEN "ban"
  ELSE IF AnyMatches(policy.reject_on, entries) THEN "reject"
  ELSE IF AnyMatches(policy.throttle_on, entries) THEN "throttle" ELSE "accept"
-----------------------------------------------------------------------------
(* The evaluator. *)

\* on_log_unavailable, when the log was asked in vain
Unavailable(at) ==
  IF policy.on_log_unavailable = "deny"
    THEN <<[incident |-> "*", severity |-> Critical, at |-> at]>> ELSE <<>>

\* Mutant of Cached: an entry is good for one tick more.
CachedLonger(nid) == policy.cache_ttl > 0 /\ fetched[nid] # None /\ fetched[nid].until >= now

Cached(nid) == policy.cache_ttl > 0 /\ fetched[nid] # None /\ fetched[nid].until > now

\* _fetch_entries; up tells whether some log source answers.
FetchEntries(nid, up) ==
  IF Cached(nid) THEN fetched[nid].entries ELSE IF up THEN log[nid] ELSE Unavailable(now)

Banned(nid) == bans[nid] # None /\ bans[nid] > now

\* evaluate
Evaluate(nid, assurance, up, outcome) ==
  \/ ~policy.enabled /\ outcome = "accept" /\ UNCHANGED reputation
  \/ /\ policy.enabled /\ policy.min_assurance > assurance /\ outcome = "reject"
     /\ UNCHANGED reputation
  \/ /\ policy.enabled /\ policy.min_assurance <= assurance /\ Banned(nid) /\ outcome = "ban"
     /\ UNCHANGED reputation
  \/ LET entries == FetchEntries(nid, up)
     IN  /\ policy.enabled /\ policy.min_assurance <= assurance /\ ~Banned(nid)
         /\ outcome = Outcome(entries)
         /\ bans' = IF outcome = "ban" THEN [bans EXCEPT ![nid] = now + policy.ban_ttl] ELSE bans
         /\ fetched' = IF policy.cache_ttl = 0 \/ Cached(nid) THEN fetched
                       ELSE [fetched EXCEPT ![nid] = [until |-> now + policy.cache_ttl, entries |-> entries]]
         /\ outage' = IF Cached(nid) THEN outage ELSE [outage EXCEPT ![nid] = IF up THEN None ELSE now]
         /\ UNCHANGED <<now, policy, log>>

\* clear_ban, which leaves the cached entries alone
ClearBan(nid) ==
  /\ bans[nid] # None
  /\ bans' = [bans EXCEPT ![nid] = None]
  /\ UNCHANGED <<now, policy, log, fetched, outage>>

\* The log learns of an incident (nothing reads it where the policy is off).
Report(nid, incident, severity) ==
  /\ policy.enabled /\ Len(log[nid]) < MaxLog
  /\ log' = [log EXCEPT ![nid] = Append(@, [incident |-> incident, severity |-> severity, at |-> now])]
  /\ UNCHANGED <<now, policy, bans, fetched, outage>>

Tick ==
  /\ policy.enabled /\ now < MaxTime
  /\ now' = now + 1
  /\ UNCHANGED <<policy, log, bans, fetched, outage>>
-----------------------------------------------------------------------------
\* An evaluator that lets an agent pass now may have missed only what its cache hides: incidents
\* younger than cache_ttl_seconds, or a log that was out of reach as recently, whose stand-in
\* (none, under on_log_unavailable = "allow") it judges instead.
MayPass(nid) ==
  LET lifetime == policy.cache_ttl
      reported == log[nid]
      asked == outage[nid]
  IN  policy.enabled =>
      /\ ~Banned(nid)
      /\ IF asked # None
           THEN (asked = now \/ asked + lifetime > now) /\ Outcome(Unavailable(asked)) = "accept"
           ELSE \E n \in 0..Len(reported) :
                  /\ \A i \in 1..Len(reported) : reported[i].at + lifetime <= now => i <= n
                  /\ Outcome(SubSeq(reported, 1, n)) = "accept"
=============================================================================
