----------------------------- MODULE PosixPort -----------------------------
(***************************************************************************)
(* The core on the POSIX port (src/port/posix/port_posix.c).  Tasks and    *)
(* the scheduler loop are ucontexts of one thread, so one program counter  *)
(* says what the processor executes.  A task keeps the processor until it  *)
(* calls the kernel.                                                       *)
(*                                                                         *)
(*   main   before hrt_start                                               *)
(*   loop   top of the loop of hrt_port_enter_scheduler                    *)
(*   pick   g_switch_pending cleared, SIGALRM not yet blocked              *)
(*   run    the task g_current, in its own code                            *)
(*   woke   g_current in a give, unlock, send or receive that made a waiter *)
(*          READY and calls hrt_yield next                                *)
(*   push   g_current in hrt_yield, before rq_push                         *)
(*   arm    g_current in hrt_sleep, before state = HRT_SLEEP               *)
(*   hop    g_current on its way into hrt_port_yield_to_scheduler, before  *)
(*          SIGALRM is blocked                                             *)
(*                                                                         *)
(* All of them are points where SIGALRM is not blocked; what the code does *)
(* with it blocked is one step.  With TickSrc = "SYSTICK" the tick handler *)
(* can run at each of them; with "EXTERNAL" main or the running task calls *)
(* hrt_tick_from_isr.  The handler's loop over the tasks is one step per   *)
(* task (`isr' is its index), since it is the only thing that runs.        *)
(***************************************************************************)
EXTENDS Kernel

CONSTANTS
  TickSrc,      (* hrt_config_t.tick_src                                    *)
  Services      (* what the tasks call, besides taking and giving in an ISR *)

ASSUME PosixAssumption ==
  /\ TickSrc \in {"SYSTICK", "EXTERNAL"}
  /\ Services \subseteq {"create", "yield", "give", "sleep", "delete"}

VARIABLES
  pc,
  g_switch_pending,
  isr,              (* index of the wake loop of hrt__tick_isr, or NoIsr    *)
  triggerPendSV     (* local of hrt__tick_isr                               *)

portVars == <<pc, g_switch_pending, isr, triggerPendSV>>
vars == <<kernelVars, portVars>>

NoIsr == -1

Init ==
  /\ hrt_init
  /\ pc = "main"
  /\ g_switch_pending = FALSE
  /\ isr = NoIsr
  /\ triggerPendSV = FALSE

(* Code outside the tick handler runs, at pc = at.                          *)
At(at) == isr = NoIsr /\ pc = at

Goto(to) == pc' = to /\ UNCHANGED <<isr, triggerPendSV>>

-----------------------------------------------------------------------------
(* The application: main before hrt_start, and the running task.            *)

(* The application has a slot of its own left for another task.             *)
MayCreate == \E t \in 0 .. (CfgMaxTasks - 1) : state[t] = "UNUSED"

CreateTask ==
  /\ At("main") \/ (At("run") /\ "create" \in Services)
  /\ MayCreate
  /\ \/ \E a \in Attrs : hrt_create_task(a.prio, a.slice)
     \/ NullAttr /\ hrt_create_task(1, g_default_slice)
  /\ UNCHANGED portVars

CreateTaskFails ==
  /\ At("main") \/ At("run")
  /\ hrt_create_task_fails
  /\ UNCHANGED portVars

SetPolicy ==
  /\ At("main") \/ At("run")
  /\ \E p \in Policies : hrt_set_policy(p)
  /\ UNCHANGED portVars

SetDefaultTimeslice ==
  /\ At("main") \/ At("run")
  /\ \E s \in Slices : hrt_set_default_timeslice(s)
  /\ UNCHANGED portVars

hrt_start ==
  /\ At("main")
  /\ g_switch_pending' = TRUE
  /\ Goto("loop")
  /\ UNCHANGED kernelVars

-----------------------------------------------------------------------------
(* The running task calls the kernel.                                       *)

(* hrt_yield of a READY task refreshes the quantum and requeues; neither is *)
(* protected from the tick handler.                                         *)
hrt_yield ==
  /\ At("woke") \/ (At("run") /\ "yield" \in Services)
  /\ IF state[g_current] = "READY"
     THEN /\ slice_left' =
               [slice_left EXCEPT ![g_current] = timeslice_cfg[g_current]]
          /\ Goto("push")
          /\ UNCHANGED g_switch_pending
     ELSE /\ g_switch_pending' = TRUE
          /\ Goto("hop")
          /\ UNCHANGED slice_left
  /\ UNCHANGED <<state, prio, timeslice_cfg, wake_tick, g_rq, g_tick,
                 g_current, cfgVars, g_error, to_sleep>>

(* Mistaken form of YieldPush: the task leaves without requeueing itself.   *)
MutYieldNoPush ==
  /\ At("push")
  /\ g_switch_pending' = TRUE
  /\ Goto("hop")
  /\ UNCHANGED kernelVars

(* rq_push in one step: what it does when the ticks are EXTERNAL or nobody  *)
(* sleeps at this priority (PushApart); module RqPushRace has the rest.     *)
YieldPush ==
  /\ At("push")
  /\ g_rq' = rq_push(g_rq, prio[g_current], g_current)
  /\ g_error' = rq_push_error(g_rq, prio[g_current])
  /\ g_switch_pending' = TRUE
  /\ Goto("hop")
  /\ UNCHANGED <<tcbVars, g_tick, g_current, cfgVars, to_sleep>>

(* hrt_sleep: the wake-up time is computed first, the state set second.     *)
hrt_sleep(ticks) ==
  /\ At("run") /\ "sleep" \in Services
  /\ wake_tick' = [wake_tick EXCEPT ![g_current] = (g_tick + ticks) % TickMod]
  /\ to_sleep' = [to_sleep EXCEPT ![g_current] = ticks]
  /\ Goto("arm")
  /\ UNCHANGED <<state, prio, timeslice_cfg, slice_left, g_rq, g_tick,
                 g_current, cfgVars, g_error, g_switch_pending>>

(* Mistaken form of LeaveAs: no switch is requested.                        *)
MutLeaveNoPend(s) ==
  /\ state' = [state EXCEPT ![g_current] = s]
  /\ Goto("hop")
  /\ UNCHANGED <<prio, timeslice_cfg, slice_left, wake_tick, g_rq, g_tick,
                 g_current, cfgVars, g_error, to_sleep, g_switch_pending>>

(* The running task leaves with state s, whoever is to put it back.         *)
LeaveAs(s) ==
  /\ state' = [state EXCEPT ![g_current] = s]
  /\ g_switch_pending' = TRUE
  /\ Goto("hop")
  /\ UNCHANGED <<prio, timeslice_cfg, slice_left, wake_tick, g_rq, g_tick,
                 g_current, cfgVars, g_error, to_sleep>>

SleepCommit == At("arm") /\ LeaveAs("SLEEP")

hrt_task_delete == At("run") /\ "delete" \in Services /\ LeaveAs("UNUSED")

(* What the slow paths of hrt_sem_take, hrt_mutex_lock, hrt_queue_send and  *)
(* hrt_queue_recv do to the kernel: BLOCKED inside a critical section, then *)
(* to the scheduler.                                                        *)
Block == At("run") /\ LeaveAs("BLOCKED")

(* What their counterparts do: hrt__make_ready of a waiter inside a         *)
(* critical section.  The ones for tasks call hrt_yield next; the ones for  *)
(* ISRs pend a switch and return, and the re-check under the critical       *)
(* section of a queue does not even pend.                                   *)
WakeWaiter(w) ==
  /\ At("run")
  /\ state[w] = "BLOCKED"
  /\ hrt__make_ready(w)
  /\ \/ Goto("run") /\ g_switch_pending' \in {g_switch_pending, TRUE}
     \/ "give" \in Services /\ Goto("woke") /\ UNCHANGED g_switch_pending
  /\ UNCHANGED <<prio, timeslice_cfg, wake_tick, g_tick, g_current, cfgVars,
                 to_sleep>>

(* hrt_port_yield_to_scheduler blocks SIGALRM and swaps to the loop, which  *)
(* calls hrt__on_scheduler_entry and unblocks.                              *)
EnterScheduler ==
  /\ At("hop")
  /\ hrt__on_scheduler_entry
  /\ Goto("loop")
  /\ UNCHANGED <<state, prio, timeslice_cfg, wake_tick, g_tick, g_current,
                 cfgVars, to_sleep, g_switch_pending>>

-----------------------------------------------------------------------------
(* The loop of hrt_port_enter_scheduler.                                    *)

IdleWait ==
  /\ At("loop")
  /\ ~ g_switch_pending
  /\ UNCHANGED vars

ClaimSwitch ==
  /\ At("loop")
  /\ g_switch_pending
  /\ g_switch_pending' = FALSE
  /\ Goto("pick")
  /\ UNCHANGED kernelVars

(* A popped HRT_IDLE_ID is taken for "nothing to run".                      *)
Dispatch ==
  LET next == hrt__pick_next_ready(g_rq)
  IN  /\ At("pick")
      /\ g_rq' = rq_pop(g_rq)
      /\ IF next = HRT_IDLE_ID
         THEN Goto("loop") /\ UNCHANGED g_current
         ELSE Goto("run") /\ g_current' = next
      /\ UNCHANGED <<tcbVars, g_tick, cfgVars, g_error, to_sleep,
                     g_switch_pending>>

-----------------------------------------------------------------------------
(* hrt__tick_isr: from _tick_sighandler, or from hrt_tick_from_isr called   *)
(* by main or by the running task.                                          *)

(* Bound: no more ticks come between the two statements of hrt_sleep than   *)
(* the sleep is long (2^31 ticks are too many there).                       *)
ArmBound == pc = "arm" => to_sleep[g_current] > 0

Tick ==
  /\ isr = NoIsr
  /\ TickSrc = "SYSTICK" \/ pc \in {"main", "run"}
  /\ ArmBound
  /\ hrt__inc_tick
  /\ to_sleep' = [t \in Task |-> IF to_sleep[t] = 0 THEN 0 ELSE to_sleep[t] - 1]
  /\ isr' = 0
  /\ triggerPendSV' = FALSE
  /\ UNCHANGED <<tcbVars, g_rq, g_current, cfgVars, g_error, pc,
                 g_switch_pending>>

(* One turn of the wake loop.                                               *)
TickWake ==
  /\ isr \in Task
  /\ IF state[isr] = "SLEEP" /\ Due(isr)
     THEN hrt__make_ready(isr) /\ triggerPendSV' = TRUE
     ELSE UNCHANGED <<state, slice_left, g_rq, g_error, triggerPendSV>>
  /\ isr' = isr + 1
  /\ UNCHANGED <<prio, timeslice_cfg, wake_tick, g_tick, g_current, cfgVars,
                 to_sleep, pc, g_switch_pending>>

(* Accounting of the running task; the signal handler always pends.         *)
TickEnd ==
  /\ isr = MaxTasks
  /\ tick_charge
  /\ g_error' = tick_error
  /\ g_switch_pending' =
       (g_switch_pending \/ TickSrc = "SYSTICK" \/ triggerPendSV \/ tick_expires)
  /\ isr' = NoIsr
  /\ UNCHANGED <<state, prio, timeslice_cfg, wake_tick, g_rq, g_tick,
                 g_current, cfgVars, to_sleep, pc, triggerPendSV>>

-----------------------------------------------------------------------------

Sleep == \E k \in SleepTicks : hrt_sleep(k)
Wake == \E w \in Task : WakeWaiter(w)

Next ==
  \/ CreateTask \/ CreateTaskFails \/ SetPolicy \/ SetDefaultTimeslice
  \/ hrt_start
  \/ hrt_yield \/ YieldPush \/ Sleep \/ SleepCommit \/ hrt_task_delete
  \/ Block \/ Wake \/ EnterScheduler
  \/ IdleWait \/ ClaimSwitch \/ Dispatch
  \/ Tick \/ TickWake \/ TickEnd

Spec == Init /\ [][Next]_vars

-----------------------------------------------------------------------------
(* Fairness.  The processor makes progress between two ticks (SF, because   *)
(* the handler suspends everything else); a task that has the processor     *)
(* gives it up sooner or later, which this port cannot enforce; and a       *)
(* periodic timer, where there is one, keeps ticking.                       *)

KernelStep ==
  \/ hrt_start \/ (At("woke") /\ hrt_yield) \/ YieldPush \/ SleepCommit
  \/ EnterScheduler \/ ClaimSwitch \/ Dispatch

GiveUp ==
  /\ pc = "run"
  /\ hrt_yield \/ Sleep \/ hrt_task_delete \/ Block

FairSpec ==
  /\ Spec
  /\ WF_vars(TickWake \/ TickEnd)
  /\ SF_vars(KernelStep)
  /\ SF_vars(GiveUp)
  /\ TickSrc = "SYSTICK" => WF_vars(Tick)

-----------------------------------------------------------------------------
(* Properties.                                                              *)

(* Type correctness: TCB fields, queues and port flags keep their ranges; a *)
(* quantum is never charged below zero (hrt__tick_isr).                     *)
TypeOK ==
  /\ KernelTypeOK
  /\ pc \in {"main", "loop", "pick", "run", "woke", "push", "arm", "hop"}
  /\ g_switch_pending \in BOOLEAN
  /\ isr \in (0 .. MaxTasks) \cup {NoIsr}
  /\ triggerPendSV \in BOOLEAN

(* The processor executes code of task t that has not given it up yet.      *)
Holds(t) == t = g_current /\ pc \in {"run", "woke", "push", "arm"}

Waiting == {t \in Task : state[t] = "READY" /\ ~ Holds(t)}

(* "Runnable (on ready queue)": apart from the task that has the processor, *)
(* a task is READY exactly when it is in the queue of its priority, and it  *)
(* is there once.  No sequence of create, yield, sleep, block, wake, delete *)
(* and ticks loses a runnable task or queues one twice.                     *)
OnReadyQueue ==
  /\ \A p \in Prio : \A i \in 1 .. Len(g_rq[p]) :
       /\ g_rq[p][i] \in Waiting
       /\ prio[g_rq[p][i]] = p
       /\ \A j \in 1 .. Len(g_rq[p]) : g_rq[p][i] = g_rq[p][j] => i = j
  /\ \A t \in Waiting :
       /\ prio[t] \in Prio
       /\ \E i \in 1 .. Len(g_rq[prio[t]]) : g_rq[prio[t]][i] = t

(* hrt_port_enter_scheduler never gives the processor to a task that sleeps,*)
(* is blocked or was deleted, although rq_pop does not look at the state.   *)
RunsOnlyReady == \A t \in Task : Holds(t) => state[t] = "READY"

(* A task that waits for the processor has its whole quantum ahead of it.   *)
QuantumFresh == \A t \in Waiting : slice_left[t] = timeslice_cfg[t]

OwnerKnown ==
  /\ pc = "main" => g_current = NoTask
  /\ pc \in {"run", "woke", "push", "arm", "hop"} => g_current \in Task

(* No tick ends the quantum of a task that is on its way out: in hrt_yield, *)
(* after the quantum was renewed, or between the bookkeeping of a call that *)
(* gives the processor up and the hop.  One that does makes                 *)
(* hrt__on_scheduler_entry queue a task that is queued already.             *)
QuantumCoversHop == isr = MaxTasks /\ pc \in {"push", "hop"} => ~ tick_expires

(* It takes the timer signal and a round-robin policy together.             *)
CalmTicks ==
  \/ TickSrc = "EXTERNAL"
  \/ CfgPolicy = "HRT_SCHED_PRIORITY" /\ Policies \subseteq {"HRT_SCHED_PRIORITY"}

(* The timer signal can also interrupt rq_push itself, in hrt_yield and in  *)
(* a hrt_create_task that a task calls.  If the handler pushes on the same  *)
(* ring an entry is lost (module RqPushRace), and the one step of YieldPush *)
(* or CreateTask is not what the code does.  It is if nobody sleeps at the  *)
(* priority of the task that is pushed.  main's pushes are safe: before     *)
(* hrt_start nobody sleeps.                                                 *)
PushApart ==
  pc = "push" => \A s \in Task : state[s] = "SLEEP" => prio[s] # prio[g_current]

(* What the application has to see to: that no quantum ends on the way out  *)
(* and that no tick pushes on the ring of a push it interrupts.  Ticks that *)
(* the application makes itself do neither.                                 *)
TimelySpec ==
  /\ Spec
  /\ CalmTicks \/ []QuantumCoversHop
  /\ TickSrc = "EXTERNAL" \/ ("create" \notin Services /\ []PushApart)

(* A task on its way out, and READY, has some of its quantum left.          *)
QuantumLeft ==
  pc \in {"push", "hop"} /\ state[g_current] = "READY" =>
    (timeslice_cfg[g_current] > 0 => slice_left[g_current] > 0)

(* hrt_tick_from_isr interrupts nothing but its caller.                     *)
TickInCaller == TickSrc = "EXTERNAL" /\ isr # NoIsr => pc \in {"main", "run"}

(* The inductive strengthening of OnReadyQueue and RunsOnlyReady: what pc   *)
(* says of g_current, the two facts above, that no task lives in the idle   *)
(* slot, and that the priority of every task exists.                        *)
Inv ==
  /\ TypeOK
  /\ OwnerKnown
  /\ OnReadyQueue
  /\ RunsOnlyReady
  /\ QuantumLeft
  /\ TickInCaller
  /\ state[HRT_IDLE_ID] = "UNUSED"
  /\ \A t \in Task : state[t] # "UNUSED" => prio[t] \in Prio

(* ... of QuantumFresh: the quantum at the push of hrt_yield, and the       *)
(* policy.                                                                  *)
FreshInv ==
  /\ QuantumFresh
  /\ pc = "push" => slice_left[g_current] = timeslice_cfg[g_current]
  /\ TickSrc = "EXTERNAL" \/ g_policy = "HRT_SCHED_PRIORITY"

(* ... and of NoLostSwitch, below: who goes to the loop has asked for a     *)
(* switch, and the loop finds the request gone only with the queues empty   *)
(* or before the end of a handler that makes another.                       *)
LoopInv ==
  /\ pc = "hop" => g_switch_pending
  /\ pc = "loop" /\ ~ g_switch_pending => isr # NoIsr \/ Waiting = {}

(* "HardRT always schedules the highest-priority READY task first": when a  *)
(* task is given the processor, no READY task has a higher priority.        *)
HighestFirst ==
  [][pc = "pick" /\ pc' = "run" =>
       \A t \in Task : state[t] = "READY" => prio[g_current'] <= prio[t]]_vars

(* A sleeper is never made READY before its ticks have passed, whatever the *)
(* value of g_tick at which the sleep started (the signed compare of        *)
(* hrt__tick_isr over a wrapping counter).                                  *)
NoEarlyWake ==
  [][\A t \in Task :
       state[t] = "SLEEP" /\ state'[t] # "SLEEP" => to_sleep[t] = 0]_vars

(* ... and never later: the tick at which they have passed wakes it.        *)
NoLateWake ==
  isr = NoIsr => \A t \in Task : state[t] = "SLEEP" => to_sleep[t] > 0

(* A tick between the two statements of hrt_sleep can be the one a sleep    *)
(* of one tick waits for; then the next one wakes it, and no later one.     *)
WokenAtNextTick ==
  isr = NoIsr =>
    \A t \in Task : state[t] = "SLEEP" => to_sleep[t] > 0 \/ wake_tick[t] = g_tick

(* The task went to sleep at its wake-up time, and the handler of the next  *)
(* tick is yet to look at it.                                               *)
Overdue(t) ==
  /\ state[t] = "SLEEP" /\ to_sleep[t] = 0
  /\ isr \in 0 .. t
  /\ g_tick = (wake_tick[t] + 1) % TickMod

(* The inductive strengthening of these three: wake_tick of a sleeper is as *)
(* far ahead of g_tick as it has ticks to sleep, less than half the range   *)
(* of the counter; once they have passed, the handler is yet to look at the *)
(* task, or the task fell asleep too late for it.                           *)
SleepInv ==
  /\ \A t \in Task :
       state[t] = "SLEEP" \/ (pc = "arm" /\ t = g_current) =>
         /\ wake_tick[t] = (g_tick + to_sleep[t]) % TickMod \/ Overdue(t)
         /\ 2 * to_sleep[t] < TickMod
  /\ \A t \in Task : state[t] = "SLEEP" /\ to_sleep[t] = 0 =>
       isr \in 0 .. t \/ (TickSrc = "SYSTICK" /\ isr = NoIsr)
  /\ TickSrc = "EXTERNAL" /\ pc = "arm" => to_sleep[g_current] > 0

(* The scheduler loop idles only when nothing is runnable: no request to    *)
(* switch is lost between clearing g_switch_pending and the pick.           *)
NoLostSwitch ==
  At("loop") /\ ~ g_switch_pending => \A t \in Task : state[t] # "READY"

(* The ready queues are large enough: rq_push never reports an overflow.    *)
NoRqOverflow == g_error # "ERR_RQ_OVERFLOW"

(* A READY task of the highest priority gets the processor, provided that   *)
(* the tasks that have it give it up: the queue of a priority is fair.      *)
TopPrioRuns ==
  \A t \in Task :
    (pc # "main" /\ state[t] = "READY" /\ prio[t] = 0) ~> (pc = "run" /\ g_current = t)

(* The kernel on this port implements the scheduler of module Sched.        *)
Status(t) ==
  IF Holds(t) THEN "running"
  ELSE IF state[t] = "UNUSED" THEN "unused"
  ELSE IF state[t] = "READY" THEN "ready" ELSE "waiting"

Abstract == INSTANCE Sched WITH status <- [t \in Task |-> Status(t)],
                                Priority <- Prio

ImplementsSched == Abstract!Spec
=============================================================================
