----------------------------- MODULE RqPushRace -----------------------------
(***************************************************************************)
(* rq_push of hrt_yield and of hrt_create_task runs with the tick enabled, *)
(* and hrt__tick_isr calls rq_push too (through hrt__make_ready).  Here    *)
(* the push of a task is taken statement by statement, and the handler's   *)
(* push, which nothing interrupts, can come between any two of them.       *)
(***************************************************************************)
EXTENDS Ring, FiniteSets

CONSTANTS
  Yielder,    (* the task whose own push is interrupted            *)
  Sleepers    (* the tasks the tick handler pushes                 *)

VARIABLES
  ring,       (* g_rq[p]                                           *)
  at,         (* the next statement of the interrupted push        *)
  pushed      (* history: tasks pushed and not popped since        *)

vars == <<ring, at, pushed>>

Init ==
  /\ ring \in EmptyRings
  /\ at = "idle"
  /\ pushed = {}

(* count >= HARDRT_MAX_TASKS is tested first.                               *)
Check ==
  /\ at = "idle" /\ Yielder \notin pushed
  /\ ring.count < N
  /\ at' = "store"
  /\ UNCHANGED <<ring, pushed>>

Store ==
  /\ at = "store"
  /\ ring' = [ring EXCEPT !.q = [@ EXCEPT ![ring.tail] = Yielder]]
  /\ at' = "tail"
  /\ UNCHANGED pushed

MoveTail ==
  /\ at = "tail"
  /\ ring' = [ring EXCEPT !.tail = (@ + 1) % N]
  /\ at' = "count"
  /\ UNCHANGED pushed

Count ==
  /\ at = "count"
  /\ ring' = [ring EXCEPT !.count = @ + 1]
  /\ at' = "idle"
  /\ pushed' = pushed \cup {Yielder}

(* hrt__make_ready of a sleeper, inside the tick handler.                   *)
IsrPush(s) ==
  /\ s \notin pushed
  /\ ring' = RingPush(ring, s)
  /\ pushed' = pushed \cup {s}
  /\ UNCHANGED at

(* The scheduler pops with the tick masked and no push in progress.         *)
Pop ==
  /\ at = "idle" /\ ring.count > 0
  /\ ring' = RingPop(ring)
  /\ pushed' = pushed \ {RingFront(ring)}
  /\ UNCHANGED at

Next == Check \/ Store \/ MoveTail \/ Count \/ Pop \/ \E s \in Sleepers : IsrPush(s)

Spec == Init /\ [][Next]_vars

(* hrt__tick_isr "is safe to call at interrupt context; it [...] wakes      *)
(* sleeping tasks": between two pushes the ready queue holds the tasks that *)
(* were pushed, each once.                                                  *)
HoldsThePushed ==
  at = "idle" =>
    /\ {Contents(ring)[i] : i \in 1 .. ring.count} = pushed
    /\ ring.count = Cardinality(pushed)
=============================================================================
