------------------------------- MODULE Sched -------------------------------
(***************************************************************************)
(* What the kernel promises of its scheduling: one task runs at a time, it *)
(* is given the processor only when it is ready and no task of a higher    *)
(* priority is, and it keeps the processor until it gives it up.  The ways *)
(* to wait (sleeping, blocking) are not told apart.                        *)
(***************************************************************************)
EXTENDS Integers

CONSTANTS Task, Priority   (* 0 is the highest priority *)

VARIABLES status, prio

Init ==
  /\ status = [t \in Task |-> "unused"]
  /\ prio = [t \in Task |-> 0]

Running == {t \in Task : status[t] = "running"}

Becomes(t, from, to) ==
  /\ status[t] = from
  /\ status' = [status EXCEPT ![t] = to]

Create(t) ==
  /\ Becomes(t, "unused", "ready")
  /\ \E p \in Priority : prio' = [prio EXCEPT ![t] = p]

Dispatch(t) ==
  /\ Running = {}
  /\ \A u \in Task : status[u] = "ready" => prio[t] <= prio[u]
  /\ Becomes(t, "ready", "running")
  /\ UNCHANGED prio

Yield(t) == Becomes(t, "running", "ready") /\ UNCHANGED prio
Wait(t) == Becomes(t, "running", "waiting") /\ UNCHANGED prio
Exit(t) == Becomes(t, "running", "unused") /\ UNCHANGED prio
Wake(t) == Becomes(t, "waiting", "ready") /\ UNCHANGED prio

Next ==
  \E t \in Task :
    Create(t) \/ Dispatch(t) \/ Yield(t) \/ Wait(t) \/ Exit(t) \/ Wake(t)

Spec == Init /\ [][Next]_<<status, prio>>
=============================================================================
