----------------------------- MODULE CortexPort -----------------------------
(***************************************************************************)
(* The core on the Cortex-M port (src/port/cortex_m/port_cortexm.c, with   *)
(* hrt__schedule of hardrt_core.c, which only this port calls).  Each task *)
(* has a stack and a place in its own code; PSP says whose stack the       *)
(* processor is on.  PendSV switches stacks, and is taken as soon as it is *)
(* pending, no handler is active and BASEPRI is 0.                         *)
(*                                                                         *)
(* Priorities of the exceptions: device interrupts over SysTick over       *)
(* PendSV over thread code.  BASEPRI masks all three; PendSV disables      *)
(* interrupts while it runs, so it is one step.                            *)
(*                                                                         *)
(* `at' is the place of a task in a kernel call:                           *)
(*   run    outside the kernel                                             *)
(*   arm    in hrt_sleep, before state = HRT_SLEEP                         *)
(*   pend   before hrt__pend_context_switch, no longer READY               *)
(*   hop    before hrt_port_yield_to_scheduler                             *)
(* and others of module CortexApps.  `cs' is its place in                  *)
(* hrt_port_crit_enter and hrt_port_crit_exit, "out" if in neither.        *)
(***************************************************************************)
EXTENDS Kernel

VARIABLES
  boot,                         (* "main", or "on" after hrt_start          *)
  at, cs,
  pendsv,                       (* PENDSVSET of SCB->ICSR                   *)
  basepri, g_basepri_prev, g_cs_nest,
  isr, triggerPendSV,           (* as in PosixPort                          *)
  psp, sp                       (* whose stack: PSP, and `sp' of the TCBs   *)

critVars == <<basepri, g_basepri_prev, g_cs_nest>>
isrVars == <<isr, triggerPendSV>>
stackVars == <<psp, sp>>
portVars == <<boot, at, cs, pendsv, critVars, isrVars, stackVars>>
vars == <<kernelVars, portVars>>

NoIsr == -1
NoStack == -1
Open == 0                     (* BASEPRI masks nothing                      *)

(* _prio_to_basepri(HARDRT_MAX_SYSCALL_IRQ_PRIO): 5, in the upper 4 bits.   *)
_prio_to_basepri(prio_) == (prio_ * 16) % 256
Masked == _prio_to_basepri(5)

(* hrt__init_idle_task: a stack, but no state, for HRT_IDLE_ID.             *)
PortInit ==
  /\ boot = "main"
  /\ at = [t \in Task |-> "run"]
  /\ cs = [t \in Task |-> "out"]
  /\ pendsv = FALSE
  /\ basepri = Open /\ g_basepri_prev = 0 /\ g_cs_nest = 0
  /\ isr = NoIsr /\ triggerPendSV = FALSE
  /\ psp = NoStack
  /\ sp = [t \in Task |-> IF t = HRT_IDLE_ID THEN t ELSE NoStack]

(* Thread code executes: no handler is active and none is about to be.      *)
ThreadMode == isr = NoIsr /\ ~ (pendsv /\ basepri = Open)

(* The processor is on the stack of t, which is at p outside the critical   *)
(* section code.                                                            *)
Thread(t, p) ==
  /\ boot = "on" /\ ThreadMode
  /\ psp = t
  /\ at[t] = p /\ cs[t] = "out"

Goto(t, p) == at' = [at EXCEPT ![t] = p]

-----------------------------------------------------------------------------
(* main.                                                                    *)

(* hrt_create_task, and hrt_port_prepare_task_stack for the slot it took.   *)
CreateTask(p, slice) ==
  LET id == CHOOSE t \in FreeSlots : \A u \in FreeSlots : t <= u
  IN  /\ boot = "main" /\ ThreadMode
      /\ hrt_create_task(p, slice)
      /\ sp' = [sp EXCEPT ![id] = id]
      /\ UNCHANGED <<boot, at, cs, pendsv, critVars, isrVars, psp>>

hrt_start ==
  /\ boot = "main" /\ ThreadMode
  /\ boot' = "on"
  /\ pendsv' = TRUE
  /\ UNCHANGED <<kernelVars, at, cs, critVars, isrVars, stackVars>>

-----------------------------------------------------------------------------
(* PendSV_Handler and hrt__schedule.  The task that is switched out is      *)
(* queued again if it is READY, with the quantum it has left.               *)

Requeued ==
  IF psp # NoStack /\ state[g_current] = "READY"
  THEN rq_push(g_rq, prio[g_current], g_current)
  ELSE g_rq

RequeueError ==
  IF psp # NoStack /\ state[g_current] = "READY"
  THEN rq_push_error(g_rq, prio[g_current])
  ELSE g_error

(* Mistaken form of Saved: PSP goes to the TCB of the task that comes in.   *)
MutSavedToNext ==
  IF psp # NoStack
  THEN [sp EXCEPT ![hrt__pick_next_ready(Requeued)] = psp]
  ELSE sp

Saved == IF psp # NoStack THEN [sp EXCEPT ![g_current] = psp] ELSE sp

(* A null sp of the chosen task leaves the processor on the old stack.      *)
hrt__schedule ==
  LET next == hrt__pick_next_ready(Requeued)
  IN  /\ g_rq' = rq_pop(Requeued)
      /\ g_error' = RequeueError
      /\ g_current' = next
      /\ sp' = Saved
      /\ psp' = IF Saved[next] = NoStack THEN psp ELSE Saved[next]
      /\ UNCHANGED <<tcbVars, g_tick, cfgVars, to_sleep>>

PendSV_Handler ==
  /\ pendsv /\ basepri = Open /\ isr = NoIsr
  /\ hrt__schedule
  /\ pendsv' = FALSE
  /\ UNCHANGED <<boot, at, cs, critVars, isrVars>>

-----------------------------------------------------------------------------
(* Kernel calls of the running task.                                        *)

hrt_sleep(t, ticks) ==
  /\ Thread(t, "run")
  /\ wake_tick' = [wake_tick EXCEPT ![g_current] = (g_tick + ticks) % TickMod]
  /\ to_sleep' = [to_sleep EXCEPT ![g_current] = ticks]
  /\ Goto(t, "arm")
  /\ UNCHANGED <<state, prio, timeslice_cfg, slice_left, g_rq, g_tick,
                 g_current, cfgVars, g_error, boot, cs, pendsv, critVars,
                 isrVars, stackVars>>

SleepCommit(t) ==
  /\ Thread(t, "arm")
  /\ state' = [state EXCEPT ![g_current] = "SLEEP"]
  /\ Goto(t, "pend")
  /\ UNCHANGED <<prio, timeslice_cfg, slice_left, wake_tick, g_rq, g_tick,
                 g_current, cfgVars, g_error, to_sleep, boot, cs, pendsv,
                 critVars, isrVars, stackVars>>

(* _pend_pendsv, then on to p.                                              *)
PendAndGo(t, p) ==
  /\ pendsv' = TRUE
  /\ Goto(t, p)
  /\ UNCHANGED <<kernelVars, boot, cs, critVars, isrVars, stackVars>>

PendSwitch(t) == Thread(t, "pend") /\ PendAndGo(t, "hop")

(* hrt_port_yield_to_scheduler; the kernel call returns to p.               *)
YieldToScheduler(t, p) == Thread(t, "hop") /\ PendAndGo(t, p)

-----------------------------------------------------------------------------
(* Critical sections, statement by statement: any exception can come        *)
(* between two of them that finds BASEPRI open.                             *)

(* The processor is on the stack of t, in the critical section code at c.   *)
Crit(t, c) == boot = "on" /\ ThreadMode /\ psp = t /\ cs[t] = c

Cs(t, c) == cs' = [cs EXCEPT ![t] = c]

CritSave(t) ==
  /\ Crit(t, "save")
  /\ IF g_cs_nest = 0
     THEN g_basepri_prev' = basepri /\ Cs(t, "raise")
     ELSE UNCHANGED g_basepri_prev /\ Cs(t, "count")
  /\ UNCHANGED <<kernelVars, boot, at, pendsv, basepri, g_cs_nest, isrVars,
                 stackVars>>

(* Mistaken form of CritRaise: BASEPRI is left open.                        *)
MutNoRaise(t) ==
  /\ Crit(t, "raise")
  /\ Cs(t, "count")
  /\ UNCHANGED <<kernelVars, boot, at, pendsv, critVars, isrVars, stackVars>>

CritRaise(t) ==
  /\ Crit(t, "raise")
  /\ basepri' = Masked
  /\ Cs(t, "count")
  /\ UNCHANGED <<kernelVars, boot, at, pendsv, g_basepri_prev, g_cs_nest,
                 isrVars, stackVars>>

CritCount(t) ==
  /\ Crit(t, "count")
  /\ g_cs_nest' = g_cs_nest + 1
  /\ Cs(t, "body")
  /\ UNCHANGED <<kernelVars, boot, at, pendsv, basepri, g_basepri_prev, isrVars,
                 stackVars>>

CritUncount(t) ==
  /\ Crit(t, "uncount")
  /\ IF g_cs_nest = 0
     THEN UNCHANGED g_cs_nest /\ Cs(t, "out")
     ELSE /\ g_cs_nest' = g_cs_nest - 1
          /\ Cs(t, IF g_cs_nest = 1 THEN "restore" ELSE "out")
  /\ UNCHANGED <<kernelVars, boot, at, pendsv, basepri, g_basepri_prev, isrVars,
                 stackVars>>

CritRestore(t) ==
  /\ Crit(t, "restore")
  /\ basepri' = g_basepri_prev
  /\ Cs(t, "out")
  /\ UNCHANGED <<kernelVars, boot, at, pendsv, g_basepri_prev, g_cs_nest,
                 isrVars, stackVars>>

CritStep(t) ==
  \/ CritSave(t) \/ CritRaise(t) \/ CritCount(t)
  \/ CritUncount(t) \/ CritRestore(t)

-----------------------------------------------------------------------------
(* SysTick_Handler (tick_src is HRT_TICK_SYSTICK) and hrt__tick_isr.        *)

SysTick_Handler ==
  /\ isr = NoIsr /\ basepri = Open
  /\ hrt__inc_tick
  /\ to_sleep' = [t \in Task |-> IF to_sleep[t] = 0 THEN 0 ELSE to_sleep[t] - 1]
  /\ isr' = 0
  /\ triggerPendSV' = FALSE
  /\ UNCHANGED <<tcbVars, g_rq, g_current, cfgVars, g_error, boot, at, cs,
                 pendsv, critVars, stackVars>>

TickWake ==
  /\ isr \in Task
  /\ IF state[isr] = "SLEEP" /\ Due(isr)
     THEN hrt__make_ready(isr) /\ triggerPendSV' = TRUE
     ELSE UNCHANGED <<state, slice_left, g_rq, g_error, triggerPendSV>>
  /\ isr' = isr + 1
  /\ UNCHANGED <<prio, timeslice_cfg, wake_tick, g_tick, g_current, cfgVars,
                 to_sleep, boot, at, cs, pendsv, critVars, stackVars>>

(* Mistaken form of TickEnd: a sleeper that woke requests no switch.         *)
MutWakeNoSwitch ==
  /\ isr = MaxTasks
  /\ tick_charge
  /\ g_error' = tick_error
  /\ pendsv' = (pendsv \/ tick_expires)
  /\ isr' = NoIsr
  /\ UNCHANGED <<state, prio, timeslice_cfg, wake_tick, g_rq, g_tick, g_current,
                 cfgVars, to_sleep, boot, at, cs, critVars, triggerPendSV,
                 stackVars>>

TickEnd ==
  /\ isr = MaxTasks
  /\ tick_charge
  /\ g_error' = tick_error
  /\ pendsv' = (pendsv \/ triggerPendSV \/ tick_expires)
  /\ isr' = NoIsr
  /\ UNCHANGED <<state, prio, timeslice_cfg, wake_tick, g_rq, g_tick, g_current,
                 cfgVars, to_sleep, boot, at, cs, critVars, triggerPendSV,
                 stackVars>>
=============================================================================
