------------------------------- MODULE Kernel -------------------------------
(***************************************************************************)
(* The portable core of HardRT (src/core/hardrt_core.c, hardrt_sched.c):   *)
(* task control blocks, ready queues, the tick and the operations on them  *)
(* that the ports and the primitives call.  A port module extends this one *)
(* and says when each operation runs and what can interrupt it.            *)
(*                                                                         *)
(* A ready queue is a sequence of task ids: PartProofs shows that the ring *)
(* of the code is one.  The fields of a TCB are functions of the task id;  *)
(* the stack, entry point and saved registers are left out.                *)
(***************************************************************************)
EXTENDS Integers, Sequences, FiniteSets

CONSTANTS
  MaxTasks,     (* HARDRT_MAX_TASKS: slots, the idle slot included          *)
  MaxPrio,      (* HARDRT_MAX_PRIO: priority classes, 0 is the highest      *)
  CfgMaxTasks,  (* tasks the application keeps alive at once                *)
  Attrs,        (* attributes tasks are created with: [prio, slice]         *)
  NullAttr,     (* the NULL attribute pointer, if tasks are created with it *)
  Policies,     (* policies hrt_set_policy is called with                   *)
  Slices,       (* values hrt_set_default_timeslice is called with          *)
  CfgPolicy,    (* hrt_config_t.policy                                      *)
  CfgSlice,     (* hrt_config_t.default_slice                               *)
  SleepTicks,   (* lengths of sleeps, in ticks (hrt__ms_to_ticks is >= 1)   *)
  TickMod       (* g_tick counts modulo this power of two (2^32)            *)

Policy == {"HRT_SCHED_PRIORITY", "HRT_SCHED_RR", "HRT_SCHED_PRIORITY_RR"}

ASSUME KernelAssumption ==
  /\ MaxTasks \in Nat \ {0, 1}
  /\ MaxPrio \in Nat \ {0}
  /\ CfgMaxTasks \in 1 .. MaxTasks
  /\ Attrs \subseteq [prio : Nat, slice : Nat]
  /\ NullAttr \in BOOLEAN
  /\ Policies \subseteq Policy /\ CfgPolicy \in Policy
  /\ Slices \subseteq Nat /\ CfgSlice \in Nat
  /\ SleepTicks \subseteq Nat \ {0}
  /\ TickMod \in Nat \ {0}

Task == 0 .. (MaxTasks - 1)
Prio == 0 .. (MaxPrio - 1)
HRT_IDLE_ID == MaxTasks - 1
NoTask == -1

VARIABLES
  state, prio, timeslice_cfg, slice_left, wake_tick,     (* g_tcbs[]        *)
  g_rq,                 (* ready queues: task ids per priority              *)
  g_tick, g_current, g_policy, g_default_slice,
  g_error,              (* last code given to hrt_error                     *)
  to_sleep              (* history: ticks each sleeper has still to sleep   *)

tcbVars == <<state, prio, timeslice_cfg, slice_left, wake_tick>>
cfgVars == <<g_policy, g_default_slice>>
kernelVars ==
  <<tcbVars, g_rq, g_tick, g_current, cfgVars, g_error, to_sleep>>

(* hrt_init: TCBs and queues are zeroed and every slot is UNUSED; a zero    *)
(* default_slice in the configuration means 5.                              *)
hrt_init ==
  /\ state = [t \in Task |-> "UNUSED"]
  /\ prio = [t \in Task |-> 0]
  /\ timeslice_cfg = [t \in Task |-> 0]
  /\ slice_left = [t \in Task |-> 0]
  /\ wake_tick = [t \in Task |-> 0]
  /\ g_rq = [p \in Prio |-> <<>>]
  /\ g_tick = 0
  /\ g_current = NoTask
  /\ g_policy = CfgPolicy
  /\ g_default_slice = IF CfgSlice = 0 THEN 5 ELSE CfgSlice
  /\ g_error = "NONE"
  /\ to_sleep = [t \in Task |-> 0]

-----------------------------------------------------------------------------
(* Ready queues.                                                            *)

(* Mistaken form of rq_push: the task goes to the front.                    *)
MutPushFront(rq, p, id) ==
  IF p \notin Prio \/ Len(rq[p]) >= MaxTasks
  THEN rq
  ELSE [rq EXCEPT ![p] = <<id>> \o @]

(* A push with a bad priority, or onto a full queue, is dropped.            *)
rq_push(rq, p, id) ==
  IF p \notin Prio \/ Len(rq[p]) >= MaxTasks
  THEN rq
  ELSE [rq EXCEPT ![p] = Append(@, id)]

(* The error such a push reports.                                           *)
rq_push_error(rq, p) ==
  IF p \notin Prio THEN "ERR_INVALID_PRIO"
  ELSE IF Len(rq[p]) >= MaxTasks THEN "ERR_RQ_OVERFLOW" ELSE g_error

(* hrt__pick_next_ready: the priority it pops from, if any queue is not     *)
(* empty.  Neither the policy nor the state of the task is looked at.       *)
NonEmpty(rq) == {p \in Prio : rq[p] # <<>>}

(* Mistaken form of TopPrio: the scan starts from the other end.            *)
MutBottomPrio(rq) ==
  CHOOSE p \in NonEmpty(rq) : \A o \in NonEmpty(rq) : o <= p

TopPrio(rq) == CHOOSE p \in NonEmpty(rq) : \A o \in NonEmpty(rq) : p <= o

hrt__pick_next_ready(rq) ==
  IF NonEmpty(rq) = {} THEN HRT_IDLE_ID ELSE Head(rq[TopPrio(rq)])

(* Mistaken form of rq_pop: the head is read and stays.                     *)
MutPopKeeps(rq) == rq

rq_pop(rq) ==
  IF NonEmpty(rq) = {} THEN rq ELSE [rq EXCEPT ![TopPrio(rq)] = Tail(@)]

(* Mistaken forms of hrt__make_ready: the state, or the quantum, is left as *)
(* it was.                                                                  *)
MutReadyNoState(id) ==
  /\ state' = state
  /\ slice_left' = [slice_left EXCEPT ![id] = timeslice_cfg[id]]
  /\ g_rq' = rq_push(g_rq, prio[id], id)
  /\ g_error' = rq_push_error(g_rq, prio[id])

MutReadyOldSlice(id) ==
  /\ state' = [state EXCEPT ![id] = "READY"]
  /\ slice_left' = slice_left
  /\ g_rq' = rq_push(g_rq, prio[id], id)
  /\ g_error' = rq_push_error(g_rq, prio[id])

(* hrt__make_ready: READY, a fresh quantum, at the tail of its queue.       *)
(* Without HARDRT_DEBUG a task that is READY already is queued again.       *)
hrt__make_ready(id) ==
  /\ state' = [state EXCEPT ![id] = "READY"]
  /\ slice_left' = [slice_left EXCEPT ![id] = timeslice_cfg[id]]
  /\ g_rq' = rq_push(g_rq, prio[id], id)
  /\ g_error' = rq_push_error(g_rq, prio[id])

-----------------------------------------------------------------------------
(* Operations of the running task (or of main, for hrt_create_task).        *)

FreeSlots == {t \in Task : state[t] = "UNUSED"}

(* hrt_create_task: the first UNUSED slot of all of them, HRT_IDLE_ID       *)
(* included; the priority is checked only by rq_push, after the slot is     *)
(* READY.  A bad fn or stack, and the lack of a slot, only set the error.   *)
hrt_create_task(p, slice) ==
  LET id == CHOOSE t \in FreeSlots : \A u \in FreeSlots : t <= u
  IN  /\ FreeSlots # {}
      /\ state' = [state EXCEPT ![id] = "READY"]
      /\ prio' = [prio EXCEPT ![id] = p]
      /\ timeslice_cfg' = [timeslice_cfg EXCEPT ![id] = slice]
      /\ slice_left' = [slice_left EXCEPT ![id] = slice]
      /\ wake_tick' = [wake_tick EXCEPT ![id] = 0]
      /\ to_sleep' = [to_sleep EXCEPT ![id] = 0]
      /\ g_rq' = rq_push(g_rq, p, id)
      /\ g_error' = rq_push_error(g_rq, p)
      /\ UNCHANGED <<g_tick, g_current, cfgVars>>

hrt_create_task_fails ==
  /\ g_error' \in {"ERR_INVALID_TASK"}
                 \cup {e \in {"ERR_INVALID_ID"} : FreeSlots = {}}
  /\ UNCHANGED <<tcbVars, g_rq, g_tick, g_current, cfgVars, to_sleep>>

hrt_set_policy(p) ==
  /\ g_policy' = p
  /\ UNCHANGED <<tcbVars, g_rq, g_tick, g_current, g_default_slice, g_error,
                 to_sleep>>

hrt_set_default_timeslice(s) ==
  /\ g_default_slice' = s
  /\ UNCHANGED <<tcbVars, g_rq, g_tick, g_current, g_policy, g_error, to_sleep>>

-----------------------------------------------------------------------------
(* The tick, and round-robin accounting.                                    *)

(* Mistaken form of hrt__inc_tick: the counter saturates.                   *)
MutSaturate ==
  g_tick' = IF g_tick + 1 = TickMod THEN g_tick ELSE g_tick + 1

hrt__inc_tick == g_tick' = (g_tick + 1) % TickMod

(* Mistaken form of Due: the unsigned compare that forgets the wrap.        *)
MutUnsignedDue(t) == wake_tick[t] <= g_tick

(* (int32_t)(wake_tick - now) <= 0: the difference as a signed number.      *)
Due(t) ==
  LET d == (wake_tick[t] - g_tick) % TickMod
  IN  d = 0 \/ 2 * d >= TickMod

RoundRobin(t) ==
  /\ g_policy \in {"HRT_SCHED_RR", "HRT_SCHED_PRIORITY_RR"}
  /\ timeslice_cfg[t] > 0

(* Mistaken form of Charged: a quantum of zero is decremented too.          *)
MutChargeZero(t) == state[t] = "READY" /\ RoundRobin(t)

(* The quantum of g_current runs down while it is READY.                    *)
Charged(t) == state[t] = "READY" /\ RoundRobin(t) /\ slice_left[t] > 0

tick_charge ==
  slice_left' = IF g_current \in Task /\ Charged(g_current)
                THEN [slice_left EXCEPT ![g_current] = @ - 1]
                ELSE slice_left

tick_expires == g_current \in Task /\ Charged(g_current) /\ slice_left[g_current] = 1

tick_error == IF g_current \in Task THEN g_error ELSE "ERR_INVALID_ID"

(* hrt__on_scheduler_entry: the quantum of the task that came back is spent *)
(* and it is still READY: it is refreshed and requeued.                     *)
Rotates(t) == state[t] = "READY" /\ RoundRobin(t) /\ slice_left[t] = 0

hrt__on_scheduler_entry ==
  LET t == g_current
  IN  IF Rotates(t)
      THEN /\ slice_left' = [slice_left EXCEPT ![t] = timeslice_cfg[t]]
           /\ g_rq' = rq_push(g_rq, prio[t], t)
           /\ g_error' = rq_push_error(g_rq, prio[t])
      ELSE UNCHANGED <<slice_left, g_rq, g_error>>

-----------------------------------------------------------------------------

State == {"READY", "SLEEP", "BLOCKED", "UNUSED"}

Error == {"NONE", "ERR_INVALID_ID", "ERR_INVALID_TASK", "ERR_INVALID_PRIO",
          "ERR_RQ_OVERFLOW"}

KernelTypeOK ==
  /\ state \in [Task -> State]
  /\ prio \in [Task -> Nat]
  /\ timeslice_cfg \in [Task -> Nat]
  /\ slice_left \in [Task -> Nat]
  /\ wake_tick \in [Task -> 0 .. (TickMod - 1)]
  /\ g_rq \in [Prio -> Seq(Task)]
  /\ g_tick \in 0 .. (TickMod - 1)
  /\ g_current \in Task \cup {NoTask}
  /\ g_policy \in Policy
  /\ g_default_slice \in Nat
  /\ g_error \in Error
  /\ to_sleep \in [Task -> Nat]
=============================================================================
