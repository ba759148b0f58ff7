----------------------------- MODULE CortexApps -----------------------------
(***************************************************************************)
(* The programs under examples/ for the Cortex-M port, those whose names   *)
(* begin with hardrt_h755, on module CortexPort.  Each of their tasks      *)
(* repeats one kernel call:                                                *)
(*   sleep   hrt_sleep of `ms' (demo, blinky, blinky_cpp)                  *)
(*   take    hrt_sem_take of its own semaphore, which a timer interrupt    *)
(*           gives, then the measurement of dwt_timing                     *)
(*   spin    none, for programs that only compute                          *)
(*                                                                         *)
(* Further places of a task:                                               *)
(*   try, slow          in hrt_sem_try_take, in hrt_sem_take itself        *)
(*   retry              between the two                                    *)
(*   got                hrt_sem_take has nothing left to do but return 0   *)
(*   disarm, record, done, finish   in the measurement, before that step   *)
(***************************************************************************)
EXTENDS CortexPort, Time

CONSTANTS
  Apps,        (* the programs                                              *)
  TickHz,      (* hrt_config_t.tick_hz, 1000 in the sources                 *)
  Target,      (* TICK_TARGET_SAMPLES, EVT_TARGET_SAMPLES; 10000            *)
  TurnTicks    (* bound: ticks between two idle times of the processor      *)

ASSUME AppsAssumption ==
  /\ TickHz \in Nat \ {0}
  /\ Target \in Nat \ {0}
  /\ TurnTicks \in Nat

(* No program needs the idle slot for a task of its own.                    *)
ASSUME ProgramsAssumption ==
  \A a \in Apps :
    /\ a \in Seq([prio : Prio, slice : Nat, op : {"sleep", "take", "spin"}, ms : Nat])
    /\ Len(a) < MaxTasks

VARIABLES
  app,                         (* the program, fixed                        *)
  count, waiters,              (* of the semaphore of each task             *)
  g_irqs_enabled,
  armed, samples, done,        (* of each measuring task                    *)
  reached,                     (* timing_target_reached was called          *)
  turn,                        (* ticks since the processor last went idle  *)
  arms,                        (* history: events that armed a measurement  *)
  given                        (* history: a give woke this task, and its   *)
                               (* hrt_sem_take has not returned since       *)

semVars == <<count, waiters, given>>
measureVars == <<g_irqs_enabled, armed, samples, done, reached, arms>>
runVars == <<app, turn>>
appVars == <<runVars, semVars, measureVars>>
allVars == <<vars, appVars>>

-----------------------------------------------------------------------------
(* The programs.                                                            *)

task(p, slice, op, ms) == [prio |-> p, slice |-> slice, op |-> op, ms |-> ms]

h755_demo == << task(0, 5, "sleep", 500), task(1, 5, "sleep", 1000) >>
h755_blinky == << task(0, 5, "sleep", 250), task(1, 5, "sleep", 500) >>
h755_blinky_cpp == << task(0, 5, "sleep", 100), task(1, 5, "sleep", 250) >>
dwt_timing == << task(0, 0, "take", 0), task(1, 0, "take", 0) >>

Op(t) == IF t < Len(app) THEN app[t + 1].op ELSE "spin"
Measures(t) == Op(t) = "take"

AppInit ==
  /\ hrt_init
  /\ PortInit
  /\ app \in Apps
  /\ count = [t \in Task |-> 0]
  /\ waiters = [t \in Task |-> <<>>]
  /\ given = [t \in Task |-> FALSE]
  /\ g_irqs_enabled = FALSE
  /\ armed = [t \in Task |-> FALSE]
  /\ samples = [t \in Task |-> 0]
  /\ done = [t \in Task |-> FALSE]
  /\ reached = FALSE
  /\ turn = 0
  /\ arms = [t \in Task |-> 0]

Created == {t \in Task : state[t] # "UNUSED"}

(* main creates the tasks in order and starts the scheduler.                *)
main ==
  LET n == Cardinality(Created)
  IN  /\ IF n < Len(app)
         THEN CreateTask(app[n + 1].prio, app[n + 1].slice)
         ELSE hrt_start
      /\ UNCHANGED appVars

-----------------------------------------------------------------------------
(* A task that sleeps.                                                      *)

SleepTask(t) ==
  /\ Op(t) = "sleep"
  /\ hrt_sleep(t, hrt__ms_to_ticks(app[t + 1].ms, TickHz, TickMod))
  /\ UNCHANGED appVars

-----------------------------------------------------------------------------
(* hrt_sem_take of the task's own semaphore.                                *)

(* Enter a critical section, as part p of the call.                         *)
EnterCrit(t, p) ==
  /\ Cs(t, "save")
  /\ Goto(t, p)
  /\ UNCHANGED <<kernelVars, boot, pendsv, critVars, isrVars, stackVars>>

TakeCall(t) ==
  /\ Measures(t)
  /\ Thread(t, "run")
  /\ t = 0 => g_irqs_enabled
  /\ EnterCrit(t, "try")
  /\ UNCHANGED appVars

TakeRetry(t) == Thread(t, "retry") /\ EnterCrit(t, "slow") /\ UNCHANGED appVars

(* In a critical section: take the token and go on to "got".                *)
TakeToken(t) ==
  /\ count[t] > 0
  /\ count' = [count EXCEPT ![t] = @ - 1]
  /\ given' = [given EXCEPT ![t] = TRUE]
  /\ Goto(t, "got")
  /\ UNCHANGED <<kernelVars, waiters>>

_waitq_push(q, id) == IF Len(q) >= MaxTasks THEN q ELSE Append(q, id)

TryBody(t) ==
  /\ Crit(t, "body") /\ at[t] = "try"
  /\ \/ TakeToken(t)
     \/ count[t] = 0 /\ Goto(t, "retry") /\ UNCHANGED <<kernelVars, semVars>>
  /\ Cs(t, "uncount")
  /\ UNCHANGED <<runVars, measureVars, boot, pendsv, critVars, isrVars, stackVars>>

SlowBody(t) ==
  /\ Crit(t, "body") /\ at[t] = "slow"
  /\ \/ TakeToken(t)
     \/ /\ count[t] = 0
        /\ waiters' = [waiters EXCEPT ![t] = _waitq_push(@, g_current)]
        /\ state' = [state EXCEPT ![g_current] = "BLOCKED"]
        /\ Goto(t, "pend")
        /\ UNCHANGED <<count, given, prio, timeslice_cfg, slice_left, wake_tick,
                       g_rq, g_tick, g_current, cfgVars, g_error, to_sleep>>
  /\ Cs(t, "uncount")
  /\ UNCHANGED <<runVars, measureVars, boot, pendsv, critVars, isrVars, stackVars>>

Switch(t) == PendSwitch(t) /\ UNCHANGED appVars

(* hrt_port_yield_to_scheduler pends PendSV once more and returns.  What    *)
(* follows it is a step of Thread: it executes after that PendSV, when the  *)
(* task has the processor again.                                            *)
Resume(t) ==
  /\ YieldToScheduler(t, IF Measures(t) THEN "got" ELSE "run")
  /\ UNCHANGED appVars

-----------------------------------------------------------------------------
(* TaskTickLatency and TaskEventLatency after hrt_sem_take.                 *)

Step(t, p) ==
  /\ Goto(t, p)
  /\ UNCHANGED <<kernelVars, boot, cs, pendsv, critVars, isrVars, stackVars,
                 runVars, count, waiters>>

EnableIrqs ==
  /\ Measures(0) /\ Thread(0, "run") /\ ~ g_irqs_enabled
  /\ g_irqs_enabled' = TRUE
  /\ Step(0, "run")
  /\ UNCHANGED <<given, armed, samples, done, reached, arms>>

Look(t) ==
  /\ Thread(t, "got")
  /\ Step(t, IF armed[t] THEN "disarm" ELSE "run")
  /\ given' = [given EXCEPT ![t] = FALSE]
  /\ UNCHANGED measureVars

(* Mistaken form of Disarm: the measurement stays armed.                    *)
MutNoDisarm(t) ==
  /\ Thread(t, "disarm")
  /\ Step(t, "record")
  /\ UNCHANGED <<given, g_irqs_enabled, armed, samples, done, reached, arms>>

Disarm(t) ==
  /\ Thread(t, "disarm")
  /\ armed' = [armed EXCEPT ![t] = FALSE]
  /\ Step(t, "record")
  /\ UNCHANGED <<given, g_irqs_enabled, samples, done, reached, arms>>

(* Mistaken form of stats_record: the target has to be exceeded.             *)
MutRecordMore(t) ==
  /\ Thread(t, "record")
  /\ samples' = [samples EXCEPT ![t] = @ + 1]
  /\ Step(t, IF samples[t] + 1 > Target THEN "done" ELSE "run")
  /\ UNCHANGED <<given, g_irqs_enabled, armed, done, reached, arms>>

stats_record(t) ==
  /\ Thread(t, "record")
  /\ samples' = [samples EXCEPT ![t] = @ + 1]
  /\ Step(t, IF samples[t] + 1 >= Target THEN "done" ELSE "run")
  /\ UNCHANGED <<given, g_irqs_enabled, armed, done, reached, arms>>

SetDone(t) ==
  /\ Thread(t, "done")
  /\ done' = [done EXCEPT ![t] = TRUE]
  /\ Step(t, "finish")
  /\ UNCHANGED <<given, g_irqs_enabled, armed, samples, reached, arms>>

maybe_finish(t) ==
  /\ Thread(t, "finish")
  /\ reached' = (reached \/ (done[0] /\ done[1]))
  /\ Step(t, "run")
  /\ UNCHANGED <<given, g_irqs_enabled, armed, samples, done, arms>>

Measure(t) ==
  TakeCall(t) \/ Look(t) \/ Disarm(t) \/ stats_record(t) \/ SetDone(t)
              \/ maybe_finish(t)

TaskTickLatency == EnableIrqs \/ Measure(0)
TaskEventLatency == Measure(1)

-----------------------------------------------------------------------------
(* TIM2_IRQHandler (for task 0) and TIM3_IRQHandler (for task 1): above     *)
(* SysTick, masked by BASEPRI.  The critical section in it is not           *)
(* interrupted by anything that calls the kernel.                           *)

Listening(t) == g_irqs_enabled /\ samples[t] < Target

(* _give_common, from an ISR.                                               *)
GiveFromIsr(t) ==
  IF waiters[t] # <<>>
  THEN LET w == Head(waiters[t])
       IN  /\ waiters' = [waiters EXCEPT ![t] = Tail(@)]
           /\ given' = [given EXCEPT ![w] = TRUE]
           /\ hrt__make_ready(w)
           /\ pendsv' = TRUE
           /\ UNCHANGED <<count, prio, timeslice_cfg, wake_tick, g_tick,
                          g_current, cfgVars, to_sleep>>
  ELSE /\ count' = [count EXCEPT ![t] = 1]
       /\ UNCHANGED <<waiters, given, kernelVars, pendsv>>

Arm(t) ==
  /\ armed' = [armed EXCEPT ![t] = TRUE]
  /\ arms' = [arms EXCEPT ![t] = IF armed[t] THEN @ ELSE @ + 1]

Event(t) ==
  /\ Measures(t)
  /\ basepri = Open
  /\ Listening(t)
  /\ Arm(t)
  /\ GiveFromIsr(t)
  /\ UNCHANGED <<runVars, g_irqs_enabled, samples, done, reached, boot, at,
                 cs, critVars, isrVars, stackVars>>

TIM2_IRQHandler == Event(0)
TIM3_IRQHandler == Event(1)

-----------------------------------------------------------------------------

(* Bound: hrt_sleep gets from computing wake_tick to the request of its     *)
(* switch before the sleep is over.                                         *)
SleepBound ==
  psp # NoStack /\ at[psp] \in {"arm", "pend"} => to_sleep[psp] # 1

(* A tick that finds nobody asleep and no quantum to charge only counts (or *)
(* reports ERR_INVALID_ID, while main has not started the scheduler), and   *)
(* is left out.                                                             *)
Asleep(t) == state[t] = "SLEEP" \/ at[t] = "arm"

TickMatters ==
  (\E t \in Task : Asleep(t)) \/ (g_current \in Task /\ Charged(g_current))

(* TurnTicks bounds the ticks that find the processor busy, in programs     *)
(* with tasks that sleep.                                                   *)
Idle == psp = HRT_IDLE_ID /\ ~ pendsv

OutsideTurn == Idle \/ \A t \in Task : Op(t) # "sleep" /\ ~ Asleep(t)

SysTick ==
  /\ SleepBound /\ TickMatters
  /\ OutsideTurn \/ turn < TurnTicks
  /\ SysTick_Handler
  /\ turn' = IF OutsideTurn THEN turn ELSE turn + 1
  /\ UNCHANGED <<app, semVars, measureVars>>

HandlerGoesOn == (TickWake \/ TickEnd) /\ UNCHANGED appVars

PendSV ==
  /\ PendSV_Handler
  /\ turn' = IF psp' = HRT_IDLE_ID THEN 0 ELSE turn
  /\ UNCHANGED <<app, semVars, measureVars>>

TaskStep(t) ==
  \/ SleepTask(t) \/ (SleepCommit(t) /\ UNCHANGED appVars)
  \/ TakeRetry(t) \/ TryBody(t) \/ SlowBody(t)
  \/ (CritStep(t) /\ UNCHANGED appVars)
  \/ Switch(t) \/ Resume(t)
  \/ t = 0 /\ TaskTickLatency
  \/ t = 1 /\ TaskEventLatency

Next ==
  \/ main \/ (\E t \in Task : TaskStep(t))
  \/ TIM2_IRQHandler \/ TIM3_IRQHandler
  \/ SysTick \/ HandlerGoesOn \/ PendSV

Spec == AppInit /\ [][Next]_allVars

(* The processor executes what there is to execute, also between two ticks  *)
(* (SF: an interrupt suspends thread code); the timers keep interrupting,   *)
(* also when a critical section masked them for a while.                    *)
FairSpec ==
  /\ Spec
  /\ WF_allVars(main) /\ WF_allVars(HandlerGoesOn) /\ WF_allVars(PendSV)
  /\ \A t \in Task : SF_allVars(TaskStep(t))
  /\ SF_allVars(TIM2_IRQHandler) /\ SF_allVars(TIM3_IRQHandler)
  /\ SF_allVars(SysTick)

-----------------------------------------------------------------------------
(* Properties.                                                              *)

(* The task whose stack the processor is on is the one the kernel takes for *)
(* the running one, through every switch (hrt__schedule saves PSP before it *)
(* moves g_current).                                                        *)
StackOfCurrent == psp # NoStack => psp = g_current

(* Inside a critical section nothing can interrupt; outside, interrupts are *)
(* never left masked and the nesting count is back at zero, whatever        *)
(* exceptions and switches came between the statements of                   *)
(* hrt_port_crit_enter and hrt_port_crit_exit.                              *)
CritMasks ==
  /\ \A t \in Task : cs[t] \in {"body", "uncount"} => basepri = Masked /\ psp = t
  /\ (\A t \in Task : cs[t] \in {"out", "save", "raise"}) =>
       basepri = Open /\ g_cs_nest = 0

(* "HardRT always schedules the highest-priority READY task first", here    *)
(* with preemption: in a program that only sleeps, thread code that is not  *)
(* about to be interrupted is that of the READY task of the highest         *)
(* priority, of a task on its way to sleep, or idle when nobody is READY.   *)
Preempts ==
  boot = "on" /\ ThreadMode /\ ~ pendsv /\ (\A t \in Task : ~ Measures(t)) =>
    \A t \in Task : state[t] = "READY" =>
      /\ g_current # HRT_IDLE_ID
      /\ prio[g_current] <= prio[t]

(* Every event that armed a measurement is recorded once: it is still armed,*)
(* on its way to stats_record, or counted.  Events that come while one is   *)
(* armed, or between the test and the disarming, never count.               *)
SamplesExact ==
  \A t \in Task : Measures(t) =>
    arms[t] = samples[t] + (IF armed[t] THEN 1 ELSE 0)
              + (IF at[t] = "record" THEN 1 ELSE 0)

(* dwt_timing ends: both tasks reach their target and one of them sees that *)
(* both have, whatever events, ticks and switches come in between.          *)
MeasurementEnds == <>(reached \/ ~ Measures(0))

(* The tasks of the other programs come back from every sleep.              *)
SleepersReturn ==
  \A t \in 0 .. 1 : []<>(Op(t) # "sleep" \/ (psp = t /\ at[t] = "run"))

(* "When we resume, we must have been given the semaphore": when the code   *)
(* after hrt_port_yield_to_scheduler in hrt_sem_take really executes, and   *)
(* not only waits for the PendSV that call has pended, a give was for it.   *)
GivenWhenResumed ==
  \A t \in Task : ThreadMode /\ psp = t /\ at[t] = "got" => given[t]

(* "Two READY tasks with timeslice=1 ms. Handoffs occur exactly at every    *)
(* tick": each of them gets the processor again and again.                  *)
HandsOff == \A t \in 0 .. 1 : []<>(psp = t)
=============================================================================
