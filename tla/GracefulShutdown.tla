-------------------------- MODULE GracefulShutdown --------------------------
(* The drain of a daemon (nps_sdk/daemon/shutdown.py): tasks of one event loop that trigger it, the
   hooks it runs, and its time limit.  Hooks may be registered at any time, fail, or wait for the
   drain they are part of.  A hook that is cancelled is assumed to end. *)
EXTENDS Naturals, Sequences, SequencesExt, FiniteSets

CONSTANTS
  Hooks,      \* the hooks that may be registered
  Signals     \* the tasks that call trigger: SIGTERM, SIGINT, the daemon itself

VARIABLES
  hooks,      \* _hooks
  stopping,   \* state.is_stopping
  released,   \* _done
  signal,     \* task -> "idle", "draining", "waiting", "returned" or "raised"
  current,    \* position of the hook that runs, 0 if none
  blocked,    \* it waits for the drain
  ended,      \* history: the hooks that ended well, in order
  due         \* history: the hooks there were when the drain got to its end, 0 if it did not
shutdownVars == <<hooks, stopping, released, signal, current, blocked, ended, due>>

OnShutdown(h) ==
  /\ \A k \in DOMAIN hooks : hooks[k] # h
  /\ hooks' = Append(hooks, h)
  /\ UNCHANGED <<stopping, released, signal, current, blocked, ended, due>>

Trigger(t) ==
  /\ signal[t] = "idle"
  /\ IF stopping
       THEN /\ signal' = [signal EXCEPT ![t] = IF released THEN "returned" ELSE "waiting"]
            /\ UNCHANGED <<stopping, current>>
       ELSE /\ stopping' = TRUE /\ current' = 1
            /\ signal' = [signal EXCEPT ![t] = "draining"]
  /\ UNCHANGED <<hooks, released, blocked, ended, due>>

\* wait_for_shutdown, and the rest of a trigger that came second
Wakes(t) ==
  /\ signal[t] = "waiting" /\ released
  /\ signal' = [signal EXCEPT ![t] = "returned"]
  /\ UNCHANGED <<hooks, stopping, released, current, blocked, ended, due>>

\* _run_hooks: a hook that ends gives way to the next, one registered in the meantime included;
\* it may also call trigger, and wait for itself.
HookRuns ==
  /\ current \in DOMAIN hooks /\ ~blocked
  /\ \/ ended' = Append(ended, hooks[current]) /\ current' = current + 1 /\ UNCHANGED blocked
     \/ blocked' = TRUE /\ UNCHANGED <<ended, current>>
  /\ UNCHANGED <<hooks, stopping, released, signal, due>>

\* The finally clause, however the drain ended.
Finally(t, outcome, run) ==
  /\ signal[t] = "draining"
  /\ released' = TRUE /\ current' = 0 /\ blocked' = FALSE /\ due' = run
  /\ signal' = [signal EXCEPT ![t] = outcome]
  /\ UNCHANGED <<hooks, stopping, ended>>

\* All hooks have run; the time is up; one has raised; the task is cancelled.
Drained(t) == current > Len(hooks) /\ Finally(t, "returned", Len(hooks))
TimesOut(t) == current \in DOMAIN hooks /\ Finally(t, "returned", 0)
HookRaises(t) == current \in DOMAIN hooks /\ ~blocked /\ Finally(t, "raised", 0)
Cancelled(t) ==
  \/ Finally(t, "raised", 0)
  \/ /\ signal[t] = "waiting"
     /\ signal' = [signal EXCEPT ![t] = "raised"]
     /\ UNCHANGED <<hooks, stopping, released, current, blocked, ended, due>>

ShutdownInit ==
  /\ hooks = <<>> /\ stopping = FALSE /\ released = FALSE /\ current = 0 /\ blocked = FALSE /\ ended = <<>> /\ due = 0
  /\ signal = [t \in Signals |-> "idle"]
ShutdownNext ==
  \/ \E h \in Hooks : OnShutdown(h)
  \/ \E t \in Signals : Trigger(t) \/ Wakes(t) \/ Drained(t) \/ TimesOut(t) \/ HookRaises(t) \/ Cancelled(t)
  \/ HookRuns
-----------------------------------------------------------------------------
\* One task drains, hooks end in the order of their registration and once each, nobody returns from
\* trigger while a hook still runs, and a drain that was not cut short leaves out no hook but those
\* registered after it (shutdown.py:62).
DrainOrderly ==
  /\ Cardinality({t \in Signals : signal[t] = "draining"}) = IF stopping /\ ~released THEN 1 ELSE 0
  /\ IsPrefix(ended, hooks)
  /\ (\E t \in Signals : signal[t] = "returned") => released /\ current = 0
  /\ stopping /\ ~released => current = Len(ended) + 1
  /\ Len(ended) >= due
=============================================================================
