----------------------------- MODULE NopLeases ------------------------------
(***************************************************************************)
(* The leases of the portable profile (nop/portable_profile.py,            *)
(* _evaluate_lease): runners claim tasks for a time, renew, and record     *)
(* which nodes of a task are terminal, so that a task taken over from a    *)
(* runner that stopped is not run again from the start.                    *)
(***************************************************************************)
EXTENDS Integers, FiniteSets

CONSTANTS
  Runners, TaskIds,
  DedupKeys,   \* compute_dedup_key of a task and its graph
  Seconds,     \* lease lengths asked for
  MinLease, MaxLease,
  MaxClock,    \* bound on the clock
  Nobody

VARIABLES
  clock,
  lease,     \* task |-> its last lease, or Nobody
  terminal,  \* dedup keys whose node is terminal
  granted    \* history: the leases granted, with the time up to which each was good

leaseVars == <<clock, lease, terminal, granted>>

Clamped(seconds) ==
  IF seconds < MinLease THEN MinLease ELSE IF seconds > MaxLease THEN MaxLease ELSE seconds

Held(t) == lease[t] # Nobody /\ lease[t].expires > clock

\* A lease of a runner replaces the one before, if that was its own.
Grant(t, r, seconds) ==
  LET new == [runner |-> r, expires |-> clock + Clamped(seconds)]
  IN  /\ lease' = [lease EXCEPT ![t] = new]
      /\ granted' = granted \union {[task |-> t, runner |-> r, from |-> clock, until |-> new.expires]}

\* claim: granted to the holder again, or when nobody holds the task; a conflict changes nothing.
Claim(t, r, seconds) ==
  /\ Held(t) => lease[t].runner = r
  /\ Grant(t, r, seconds)
  /\ UNCHANGED <<clock, terminal>>

\* renew: for the holder only.
RenewLease(t, r, seconds) ==
  /\ Held(t) /\ lease[t].runner = r
  /\ Grant(t, r, seconds)
  /\ UNCHANGED <<clock, terminal>>

MarkTerminal(k) ==
  /\ k \notin terminal /\ terminal' = terminal \union {k}
  /\ UNCHANGED <<clock, lease, granted>>

Passes == clock < MaxClock /\ clock' = clock + 1 /\ UNCHANGED <<lease, terminal, granted>>

LeaseInit ==
  clock = 0 /\ lease = [t \in TaskIds |-> Nobody] /\ terminal = {} /\ granted = {}

LeaseNext ==
  \/ \E t \in TaskIds, r \in Runners, s \in Seconds : Claim(t, r, s) \/ RenewLease(t, r, s)
  \/ \E k \in DedupKeys : MarkTerminal(k)
  \/ Passes

\* Two runners never hold a task at the same time: what one was granted has run out, unless it
\* shortened it itself, before another is granted the task.
LeaseExclusive ==
  \A g, h \in granted : g.task = h.task /\ g.runner # h.runner /\ g.from <= h.from =>
    \/ g.until <= h.from
    \/ \E k \in granted : /\ k.task = g.task /\ k.runner = g.runner
                          /\ g.from <= k.from /\ k.until <= h.from
=============================================================================
