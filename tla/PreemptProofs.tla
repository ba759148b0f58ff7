---------------------------- MODULE PreemptProofs ----------------------------
(***************************************************************************)
(* A READY task never waits behind a running one of lower priority, in the *)
(* programs of CortexApps whose tasks only compute and sleep: for every    *)
(* number of tasks and priorities, if no tick wakes a task between the     *)
(* moment it armed its sleep and the switch that takes it off the          *)
(* processor, and that is so in every program whose sleeps are longer than *)
(* the ticks of a turn.                                                    *)
(***************************************************************************)
EXTENDS CortexProofs

-----------------------------------------------------------------------------
(* Preemption.  The ready queues of a program that only sleeps hold exactly *)
(* the READY tasks the processor is not on, as long as no tick ends a sleep *)
(* before PendSV has switched the sleeper out (WokenAfterSwitch): the tick  *)
(* would queue it, and PendSV queue it again, because it is READY.          *)

(* A tick ends the sleep of no task the processor is still on.              *)
WokenAfterSwitch ==
  isr \in Task /\ isr = psp => ~ (state[isr] = "SLEEP" /\ Due(isr))

(* A program that only sleeps (or computes).                                *)
OnlySleeps == \A t \in Task : ~ Measures(t)

(* READY tasks the processor is not on.                                     *)
Waiting == {t \in Task : state[t] = "READY" /\ t # psp}

(* main has not started the scheduler: no task runs, and no tick matters.   *)
Booting ==
  /\ boot = "main" /\ psp = NoStack /\ g_current = NoTask
  /\ isr = NoIsr /\ ~ pendsv
  /\ \A t \in Task : state[t] # "SLEEP" /\ at[t] = "run"

(* Where such a task is queued: in the order of creation, each in its slot, *)
(* in the queue of its priority while it waits for the processor.           *)
ReadyInv ==
  /\ app \in Apps
  /\ prio \in [Task -> Nat]
  /\ \E n \in 0 .. Len(app) : Created = 0 .. (n - 1)
  /\ \A t \in Created : prio[t] \in Prio
  /\ boot = "on" \/ Booting
  /\ psp \in Created \cup {HRT_IDLE_ID, NoStack}
  /\ at \in [Task -> {"run", "arm", "pend", "hop"}]
  /\ at[HRT_IDLE_ID] = "run"
  /\ \A t \in Task : cs[t] = "out"
  /\ Hold(g_rq, Waiting, prio)

(* The running task is of the highest priority among the READY tasks.       *)
TopRuns ==
  \A t \in Task : state[t] = "READY" =>
    g_current # HRT_IDLE_ID /\ prio[g_current] <= prio[t]

(* If it is not, a switch is pending, or the tick that woke a better one    *)
(* will request it.                                                         *)
SwitchComes ==
  boot = "on" => pendsv \/ (isr # NoIsr /\ triggerPendSV) \/ TopRuns

(* The inductive strengthening of Preempts.                                 *)
PreemptInv == StackInv /\ (OnlySleeps => ReadyInv /\ SwitchComes)

(* The slots taken, the idle slot and the queues of a program that sleeps.  *)
LEMMA SlotFacts ==
  ASSUME StackInv, ReadyInv
  PROVE  /\ HRT_IDLE_ID \notin Created
         /\ HRT_IDLE_ID \in Task /\ NoStack \notin Task
         /\ g_rq \in QueuesOf(Task)
         /\ Waiting \in SUBSET Task
         /\ psp # NoStack => psp = g_current /\ psp \in Task
<1>1. PICK n \in 0 .. Len(app) : Created = 0 .. (n - 1)
  BY DEF ReadyInv
<1>2. Len(app) \in Nat /\ Len(app) < MaxTasks
  BY ProgramFits DEF ReadyInv
<1>3. HRT_IDLE_ID \notin Created
  BY <1>1, <1>2, Sizes DEF HRT_IDLE_ID
<1>4. g_rq \in QueuesOf(Task)
  BY QueuesGrow DEF StackInv, Framed
<1>5. psp # NoStack => psp = g_current /\ psp \in Task
  BY DEF StackInv, Framed
<1> QED BY <1>3, <1>4, <1>5, NoStackIsNoTask DEF Waiting

(* hrt_init.                                                                *)
LEMMA ReadyInit == AppInit => PreemptInv
<1> SUFFICES ASSUME AppInit  PROVE PreemptInv
  OBVIOUS
<1>1. StackInv
  BY StackInit
<1>2. /\ app \in Apps /\ boot = "main" /\ psp = NoStack
      /\ prio = [t \in Task |-> 0] /\ state = [t \in Task |-> "UNUSED"]
      /\ at = [t \in Task |-> "run"] /\ cs = [t \in Task |-> "out"]
      /\ g_rq = [p \in Prio |-> <<>>]
      /\ g_current = NoTask /\ isr = NoIsr /\ pendsv = FALSE
  BY DEF AppInit, hrt_init, PortInit
<1>3. Created = {} /\ Waiting = {}
  BY <1>2 DEF Created, Waiting
<1>4. Len(app) \in Nat /\ 0 \in 0 .. Len(app) /\ {} = 0 .. (0 - 1)
  BY <1>2, ProgramFits
<1>5. Hold(g_rq, Waiting, prio)
  <2>1. \A p \in Prio : Len(g_rq[p]) = 0
    BY <1>2
  <2>2. \A p \in Prio : OfPrio(Waiting, prio, p) = {}
    BY <1>3 DEF OfPrio
  <2>3. \A p \in Prio : EachOnce(g_rq[p], OfPrio(Waiting, prio, p))
    BY <2>1, <2>2 DEF EachOnce
  <2> QED BY <1>3, <2>3 DEF Hold
<1>6. \E n \in 0 .. Len(app) : Created = 0 .. (n - 1)
  BY <1>3, <1>4
<1>7. ReadyInv
  BY <1>2, <1>3, <1>5, <1>6, NoStackIsNoTask DEF ReadyInv, Booting
<1>8. SwitchComes
  BY <1>2 DEF SwitchComes
<1> QED BY <1>1, <1>7, <1>8 DEF PreemptInv

(* A step that moves a task in its own code, or an interrupt that wakes     *)
(* nobody.                                                                  *)
LEMMA ReadySame ==
  ASSUME StackInv, ReadyInv,
         UNCHANGED <<app, state, prio, cs, psp, g_rq>>,
         boot' = "on",
         \/ at' = at
         \/ \E t \in Created, p \in {"run", "arm", "pend", "hop"} : Goto(t, p)
  PROVE  ReadyInv'
<1>1. HRT_IDLE_ID \notin Created /\ HRT_IDLE_ID \in Task
  BY SlotFacts
<1>2. Created' = Created /\ Waiting' = Waiting
  BY DEF Created, Waiting
<1>3. at' \in [Task -> {"run", "arm", "pend", "hop"}] /\ at'[HRT_IDLE_ID] = "run"
  BY <1>1 DEF ReadyInv, Goto
<1>4. Hold(g_rq, Waiting, prio)'
  <2>1. Hold(g_rq, Waiting, prio)
    BY DEF ReadyInv
  <2> QED BY <1>2, <2>1 DEF Hold
<1> QED BY <1>2, <1>3, <1>4 DEF ReadyInv

(* main creates the next task: it takes the next slot, which is not that of *)
(* the idle task, and is queued.                                            *)
LEMMA ReadyMain ==
  ASSUME StackInv, ReadyInv, main
  PROVE  ReadyInv' /\ SwitchComes'
<1>1. PICK n \in 0 .. Len(app) : Created = 0 .. (n - 1)
  BY DEF ReadyInv
<1>2. Len(app) \in Nat /\ Len(app) < MaxTasks /\ MaxTasks \in Nat
  BY ProgramFits, Sizes DEF ReadyInv
<1>3. Cardinality(Created) = n
  BY <1>1, <1>2, FS_Interval
<1>4. CASE n = Len(app)
  <2>1. hrt_start /\ UNCHANGED appVars
    BY <1>3, <1>4 DEF main
  <2>2. /\ boot' = "on" /\ pendsv'
        /\ UNCHANGED <<app, state, prio, cs, psp, g_rq, at>>
    BY <2>1 DEF hrt_start, appVars, runVars, kernelVars, tcbVars, stackVars
  <2> QED BY <2>2, ReadySame DEF SwitchComes
<1>5. CASE n < Len(app)
  <2> DEFINE rec == app[n + 1]
             id == CHOOSE t \in FreeSlots : \A u \in FreeSlots : t <= u
  <2>1. CreateTask(rec.prio, rec.slice) /\ UNCHANGED appVars
    BY <1>3, <1>5 DEF main
  <2>2. rec.prio \in Prio /\ rec.prio \in Nat
    <3>1. n + 1 \in 1 .. Len(app)
      BY <1>2, <1>5
    <3> DEFINE R == [prio : Prio, slice : Nat, op : {"sleep", "take", "spin"}, ms : Nat]
    <3>2. app \in Apps
      BY DEF ReadyInv
    <3>3. app \in Seq(R)
      BY <3>2, ProgramsAssumption, Zenon
    <3>4. \A r \in R : r.prio \in Prio
      OBVIOUS
    <3> HIDE DEF R
    <3>5. rec \in R
      BY <3>1, <3>3
    <3>6. rec.prio \in Prio
      BY <3>4, <3>5
    <3> QED BY <3>6, Sizes DEF Prio
  <2>3. id = n
    <3>1. FreeSlots = n .. (MaxTasks - 1)
      BY <1>1, <1>2 DEF FreeSlots, Created, Task
    <3>2. n \in FreeSlots /\ \A u \in FreeSlots : n <= u
      BY <3>1, <1>2, <1>5
    <3>3. \A t \in FreeSlots : (\A u \in FreeSlots : t <= u) => t = n
      BY <3>1, <3>2
    <3>4. id \in FreeSlots /\ \A u \in FreeSlots : id <= u
      BY <3>2, Zenon
    <3> HIDE DEF id
    <3> QED BY <3>3, <3>4
  <2> HIDE DEF rec
  <2>4. /\ boot = "main" /\ boot' = "main"
         /\ state' = [state EXCEPT ![id] = "READY"]
         /\ prio' = [prio EXCEPT ![id] = rec.prio]
         /\ g_rq' = rq_push(g_rq, rec.prio, id)
         /\ UNCHANGED <<app, at, cs, psp, g_current, isr, pendsv>>
    BY <2>1 DEF CreateTask, hrt_create_task, appVars, runVars, isrVars
  <2> HIDE DEF id
  <2>5. /\ boot = "main" /\ boot' = "main"
        /\ state' = [state EXCEPT ![n] = "READY"]
        /\ prio' = [prio EXCEPT ![n] = rec.prio]
        /\ g_rq' = rq_push(g_rq, rec.prio, n)
        /\ UNCHANGED <<app, at, cs, psp, g_current, isr, pendsv>>
    BY <2>3, <2>4
  <2>6. n \in Task /\ n \notin Created /\ n # psp /\ n + 1 \in 0 .. Len(app)
    BY <1>1, <1>2, <1>5, <2>5, NoStackIsNoTask DEF Task, ReadyInv, Booting
  <2>7. Created' = Created \cup {n} /\ Waiting' = Waiting \cup {n}
    BY <2>5, <2>6 DEF Created, Waiting, StackInv
  <2>8. Created' = 0 .. ((n + 1) - 1)
    BY <1>1, <2>7
  <2>9. prio' \in [Task -> Nat] /\ prio'[n] = rec.prio
        /\ \A t \in Task : t # n => prio'[t] = prio[t]
    BY <2>2, <2>5, <2>6 DEF ReadyInv
  <2>10. \A t \in Created' : prio'[t] \in Prio
    <3>1. Created \subseteq Task /\ \A t \in Created : prio[t] \in Prio
      BY DEF ReadyInv, Created
    <3> QED BY <2>2, <2>6, <2>7, <2>9, <3>1
  <2>11. Hold(g_rq, Waiting, prio)'
    <3>1. n \notin Waiting /\ Waiting \in SUBSET Task /\ g_rq \in QueuesOf(Task)
      BY <2>6, SlotFacts DEF Waiting, Created
    <3>2. Hold(g_rq, Waiting, prio')
      <4>1. Hold(g_rq, Waiting, prio)
        BY DEF ReadyInv
      <4>2. \A p \in Prio : OfPrio(Waiting, prio', p) = OfPrio(Waiting, prio, p)
        BY <2>9, <3>1 DEF OfPrio
      <4>3. \A t \in Waiting : prio'[t] \in Prio
        BY <4>1, <2>9, <3>1 DEF Hold
      <4>4. ASSUME NEW p \in Prio  PROVE EachOnce(g_rq[p], OfPrio(Waiting, prio', p))
        <5>1. EachOnce(g_rq[p], OfPrio(Waiting, prio, p))
          BY <4>1 DEF Hold
        <5> QED BY <4>2, <5>1, Zenon
      <4> QED BY <4>3, <4>4 DEF Hold
    <3>3. prio'[n] \in Prio
      BY <2>2, <2>9
    <3>4. Hold(rq_push(g_rq, prio'[n], n), Waiting \cup {n}, prio')
      BY <3>1, <3>2, <3>3, <2>6, PushHolds
    <3>5. g_rq' = rq_push(g_rq, prio'[n], n)
      BY <2>5, <2>9
    <3>6. Hold(g_rq', Waiting', prio')
      BY <2>7, <3>4, <3>5, Zenon
    <3> QED BY <3>6 DEF Hold
  <2>12. \E m \in 0 .. Len(app) : Created' = 0 .. (m - 1)
    BY <2>6, <2>8
  <2>13. psp' \in Created' \cup {HRT_IDLE_ID, NoStack}
    BY <2>5, <2>7 DEF ReadyInv
  <2>14. Booting'
    BY <2>5, <2>6 DEF ReadyInv, Booting, StackInv
  <2>15. ReadyInv'
    BY <2>5, <2>9, <2>10, <2>11, <2>12, <2>13, <2>14 DEF ReadyInv
  <2> QED BY <2>5, <2>15 DEF SwitchComes
<1> QED BY <1>2, <1>4, <1>5

(* A tick wakes a sleeper the processor is not on: it is queued, and the    *)
(* handler will request a switch.                                           *)
LEMMA ReadyWake ==
  ASSUME StackInv, ReadyInv, SwitchComes, WokenAfterSwitch, TickWake, UNCHANGED app
  PROVE  ReadyInv' /\ SwitchComes'
<1>1. /\ isr \in Task /\ isr' # NoIsr
      /\ UNCHANGED <<app, prio, g_current, boot, at, cs, pendsv, psp>>
  BY Sizes DEF TickWake, stackVars, Task, NoIsr
<1>2. boot' = "on"
  BY <1>1, NoStackIsNoTask DEF ReadyInv, Booting, NoStack, NoIsr
<1>3. CASE ~ (state[isr] = "SLEEP" /\ Due(isr))
  <2>1. UNCHANGED <<state, g_rq, triggerPendSV>>
    BY <1>3 DEF TickWake
  <2>2. ReadyInv'
    BY <1>1, <1>2, <2>1, ReadySame
  <2>3. isr # NoIsr
    BY <1>1, Sizes DEF Task, NoIsr
  <2> QED BY <1>1, <2>1, <2>2, <2>3 DEF SwitchComes, TopRuns
<1>4. CASE state[isr] = "SLEEP" /\ Due(isr)
  <2>1. /\ isr # psp /\ triggerPendSV'
        /\ state' = [state EXCEPT ![isr] = "READY"]
        /\ g_rq' = rq_push(g_rq, prio[isr], isr)
    BY <1>1, <1>4 DEF TickWake, WokenAfterSwitch, hrt__make_ready
  <2>2. isr \in Created /\ isr \notin Waiting
    BY <1>1, <1>4 DEF Created, Waiting
  <2>3. Created' = Created /\ Waiting' = Waiting \cup {isr}
    BY <1>1, <1>4, <2>1 DEF Created, Waiting, StackInv
  <2>4. g_rq \in QueuesOf(Task) /\ Waiting \in SUBSET Task
    BY SlotFacts
  <2>5. Hold(g_rq, Waiting, prio) /\ prio[isr] \in Prio
    BY <2>2 DEF ReadyInv
  <2>6. Hold(rq_push(g_rq, prio[isr], isr), Waiting \cup {isr}, prio)
    BY <1>1, <2>2, <2>4, <2>5, PushHolds
  <2>7. Hold(g_rq', Waiting', prio')
    BY <1>1, <2>1, <2>3, <2>6, Zenon
  <2>8. Hold(g_rq, Waiting, prio)'
    BY <2>7 DEF Hold
  <2>9. ReadyInv'
    BY <1>1, <1>2, <2>3, <2>8 DEF ReadyInv
  <2> QED BY <1>1, <2>1, <2>9 DEF SwitchComes
<1> QED BY <1>3, <1>4

(* hrt__schedule queues the running task again if it is READY, and switches *)
(* to one of the highest priority.                                          *)
LEMMA ReadySchedule ==
  ASSUME StackInv, ReadyInv, PendSV
  PROVE  /\ ReadyInv' /\ SwitchComes' /\ TopRuns'
         /\ psp' = g_current' /\ (state[psp'] = "READY" \/ psp' = HRT_IDLE_ID)
<1> DEFINE Ready == {t \in Task : state[t] = "READY"}
           next == hrt__pick_next_ready(Requeued)
<1>1. /\ hrt__schedule
      /\ UNCHANGED <<app, waiters, boot, at, cs>>
  BY DEF PendSV, PendSV_Handler, semVars
<1>2. StackInv' /\ psp' = next
  BY <1>1, StackSchedule
<1>3. /\ g_rq' = rq_pop(Requeued) /\ g_current' = next
      /\ UNCHANGED <<state, prio>>
  BY <1>1 DEF hrt__schedule, tcbVars
<1>4. /\ g_rq \in QueuesOf(Task) /\ Waiting \in SUBSET Task
      /\ psp # NoStack => psp = g_current /\ psp \in Task
      /\ HRT_IDLE_ID \notin Created /\ NoStack \notin Task
  BY SlotFacts
<1>5. Hold(g_rq, Waiting, prio) /\ \A t \in Created : prio[t] \in Prio
  BY DEF ReadyInv
<1>6. Requeued \in QueuesOf(Task) /\ Hold(Requeued, Ready, prio)
  <2>1. CASE psp # NoStack /\ state[g_current] = "READY"
    <3>1. /\ g_current \in Task \ Waiting /\ g_current \in Created
          /\ Ready = Waiting \cup {g_current}
      BY <2>1, <1>4 DEF Waiting, Created
    <3>2. prio[g_current] \in Prio
      BY <1>5, <3>1
    <3>3. Requeued = rq_push(g_rq, prio[g_current], g_current)
      BY <2>1 DEF Requeued
    <3>4. Hold(rq_push(g_rq, prio[g_current], g_current), Waiting \cup {g_current}, prio)
      BY <1>4, <1>5, <3>1, <3>2, PushHolds
    <3>5. rq_push(g_rq, prio[g_current], g_current) \in QueuesOf(Task)
      BY <1>4, <3>1, PushKeeps
    <3> HIDE DEF Ready
    <3> QED BY <3>1, <3>3, <3>4, <3>5, Zenon
  <2>2. CASE ~ (psp # NoStack /\ state[g_current] = "READY")
    <3>1. Ready = Waiting
      BY <2>2, <1>4 DEF Waiting
    <3>2. Requeued = g_rq
      BY <2>2 DEF Requeued
    <3> HIDE DEF Ready
    <3> QED BY <1>4, <1>5, <3>1, <3>2, Zenon
  <2> QED BY <2>1, <2>2
<1>7. /\ Ready = {} => next = HRT_IDLE_ID /\ rq_pop(Requeued) = Requeued
      /\ Ready # {} => /\ next \in Ready
                       /\ \A u \in Ready : prio[next] <= prio[u]
                       /\ Hold(rq_pop(Requeued), Ready \ {next}, prio)
  <2>1. Ready \in SUBSET Task
    OBVIOUS
  <2> HIDE DEF Ready
  <2> QED BY <1>6, <2>1, PickHolds, Zenon
<1>8. Hold(rq_pop(Requeued), Ready \ {next}, prio)
  <2>1. CASE Ready = {}
    <3>1. Ready \ {next} = Ready /\ rq_pop(Requeued) = Requeued
      BY <2>1, <1>7
    <3> HIDE DEF Ready, next
    <3> QED BY <1>6, <3>1, Zenon
  <2> QED BY <2>1, <1>7
<1>9. Waiting' = Ready \ {next} /\ Created' = Created /\ Ready \subseteq Created
  BY <1>2, <1>3 DEF Waiting, Created
<1>10. TopRuns'
  <2> SUFFICES ASSUME NEW t \in Ready
               PROVE  g_current' # HRT_IDLE_ID /\ prio'[g_current'] <= prio'[t]
    BY <1>3 DEF TopRuns
  <2> HIDE DEF Ready, next
  <2>1. next \in Created /\ prio[next] <= prio[t]
    BY <1>7, <1>9
  <2> QED BY <1>3, <1>4, <2>1
<1>11. psp' \in Created' \cup {HRT_IDLE_ID, NoStack}
  BY <1>2, <1>7, <1>9
<1> HIDE DEF Ready, next
<1>12. Hold(g_rq', Waiting', prio')
  BY <1>3, <1>8, <1>9, Zenon
<1>13. Hold(g_rq, Waiting, prio)'
  BY <1>12 DEF Hold
<1>14. boot' = "on"
  BY <1>1 DEF PendSV, PendSV_Handler, ReadyInv, Booting
<1>15. ReadyInv'
  BY <1>1, <1>3, <1>9, <1>11, <1>13, <1>14 DEF ReadyInv
<1>16. state[psp'] = "READY" \/ psp' = HRT_IDLE_ID
  BY <1>2, <1>7 DEF Ready
<1> QED BY <1>2, <1>3, <1>10, <1>15, <1>16 DEF SwitchComes

(* A task of a program that only sleeps calls nothing but hrt_sleep.        *)
LEMMA SleepSteps ==
  ASSUME OnlySleeps, ReadyInv, NEW t \in Task, TaskStep(t)
  PROVE  \/ SleepTask(t) \/ (SleepCommit(t) /\ UNCHANGED appVars)
         \/ Switch(t) \/ Resume(t)
<1>1. at[t] \in {"run", "arm", "pend", "hop"} /\ cs[t] = "out" /\ ~ Measures(t)
  BY DEF ReadyInv, OnlySleeps
<1>2. ~ (TakeRetry(t) \/ TryBody(t) \/ SlowBody(t) \/ CritStep(t))
  BY <1>1 DEF TakeRetry, TryBody, SlowBody, CritStep, CritSave, CritRaise, CritCount,
              CritUncount, CritRestore, Crit, Thread
<1>3. ~ ((t = 0 /\ TaskTickLatency) \/ (t = 1 /\ TaskEventLatency))
  BY <1>1 DEF TaskTickLatency, TaskEventLatency, Measure, EnableIrqs, TakeCall, Look,
              Disarm, stats_record, SetDone, maybe_finish, Thread
<1> QED BY <1>2, <1>3 DEF TaskStep

(* It stops being READY, or requests a switch.                              *)
LEMMA ReadyTask ==
  ASSUME StackInv, OnlySleeps, ReadyInv, SwitchComes, NEW t \in Task, TaskStep(t)
  PROVE  ReadyInv' /\ SwitchComes'
<1>1. at[t] \in {"run", "arm", "pend", "hop"} /\ cs[t] = "out" /\ ~ Measures(t)
  BY DEF ReadyInv, OnlySleeps
<1>2. HRT_IDLE_ID \notin Created /\ at[HRT_IDLE_ID] = "run" /\ NoStack \notin Task
  BY SlotFacts DEF ReadyInv
<1>3. psp = t /\ t # HRT_IDLE_ID => t \in Created
  BY <1>2 DEF ReadyInv
<1>4. psp = t => g_current = t
  BY <1>2, SlotFacts
<1>5. CASE SleepTask(t)
  <2>1. /\ Thread(t, "run") /\ Goto(t, "arm") /\ Op(t) = "sleep"
        /\ UNCHANGED <<app, state, prio, cs, psp, g_rq, boot, g_current, pendsv,
                       isr, triggerPendSV>>
    BY <1>5 DEF SleepTask, hrt_sleep, appVars, runVars, isrVars, stackVars
  <2>2. t < Len(app)
    BY <2>1 DEF Op
  <2>3. t # HRT_IDLE_ID
    <3>1. Len(app) \in Nat /\ Len(app) < MaxTasks
      BY ProgramFits DEF ReadyInv
    <3> QED BY <2>2, <3>1, Sizes DEF HRT_IDLE_ID, Task
  <2>4. ReadyInv'
    BY <1>3, <2>1, <2>3, ReadySame DEF Thread
  <2> QED BY <2>1, <2>4 DEF SwitchComes, TopRuns
<1>6. CASE SleepCommit(t) /\ UNCHANGED appVars
  <2>1. /\ Thread(t, "arm") /\ Goto(t, "pend")
        /\ state' = [state EXCEPT ![g_current] = "SLEEP"]
        /\ UNCHANGED <<app, prio, cs, psp, g_rq, boot, g_current, pendsv, isr,
                       triggerPendSV>>
    BY <1>6 DEF SleepCommit, appVars, runVars, isrVars, stackVars
  <2>2. psp = t /\ boot = "on" /\ t \in Created /\ t # HRT_IDLE_ID
    BY <1>2, <1>3, <2>1 DEF Thread
  <2>3. state' = [state EXCEPT ![t] = "SLEEP"]
    BY <1>4, <2>1, <2>2
  <2>4. Created' = Created /\ Waiting' = Waiting
    BY <2>1, <2>2, <2>3 DEF Created, Waiting, StackInv
  <2>5. Hold(g_rq, Waiting, prio)'
    <3>1. Hold(g_rq, Waiting, prio)
      BY DEF ReadyInv
    <3> QED BY <2>1, <2>4, <3>1 DEF Hold
  <2>6. at' \in [Task -> {"run", "arm", "pend", "hop"}] /\ at'[HRT_IDLE_ID] = "run"
    BY <2>1, <2>2, NoStackIsNoTask DEF ReadyInv, Goto
  <2>7. ReadyInv'
    BY <2>1, <2>2, <2>4, <2>5, <2>6 DEF ReadyInv
  <2>8. \A u \in Task : state'[u] = "READY" => state[u] = "READY"
    BY <2>3 DEF StackInv
  <2> QED BY <2>1, <2>7, <2>8 DEF SwitchComes, TopRuns
<1>7. CASE Switch(t) \/ Resume(t)
  <2>1. PICK p \in {"run", "hop"} : Goto(t, p)
    BY <1>1, <1>7 DEF Switch, Resume, PendSwitch, YieldToScheduler, PendAndGo
  <2>2. /\ psp = t /\ boot = "on" /\ at[t] # "run" /\ pendsv'
        /\ UNCHANGED <<app, state, prio, cs, psp, g_rq, boot>>
    BY <1>7 DEF Switch, Resume, PendSwitch, YieldToScheduler, PendAndGo, Thread,
                kernelVars, tcbVars, appVars, runVars, stackVars
  <2>3. t \in Created
    BY <1>2, <1>3, <2>2
  <2>4. ReadyInv'
    BY <2>1, <2>2, <2>3, ReadySame
  <2> QED BY <2>2, <2>4 DEF SwitchComes
<1> QED BY <1>5, <1>6, <1>7, SleepSteps

(* No step changes the program.                                             *)
LEMMA AppFixed == [Next]_allVars => app' = app
<1> SUFFICES ASSUME [Next]_allVars  PROVE app' = app
  OBVIOUS
<1> USE DEF appVars, runVars
<1>1. ASSUME NEW t \in Task, TaskStep(t)  PROVE app' = app
  <2>1. CASE (t = 0 /\ TaskTickLatency) \/ (t = 1 /\ TaskEventLatency)
    BY <2>1 DEF TaskTickLatency, TaskEventLatency, Measure, EnableIrqs, TakeCall, Look,
                Disarm, stats_record, SetDone, maybe_finish, Step
  <2>2. CASE ~ ((t = 0 /\ TaskTickLatency) \/ (t = 1 /\ TaskEventLatency))
    BY <1>1, <2>2 DEF TaskStep, SleepTask, TakeRetry, TryBody, SlowBody, Switch, Resume
  <2> QED BY <2>1, <2>2
<1>2. CASE main \/ TIM2_IRQHandler \/ TIM3_IRQHandler
  BY <1>2 DEF main, TIM2_IRQHandler, TIM3_IRQHandler, Event
<1>3. CASE SysTick \/ HandlerGoesOn \/ PendSV
  BY <1>3 DEF SysTick, HandlerGoesOn, PendSV
<1>4. CASE UNCHANGED allVars
  BY <1>4 DEF allVars
<1> QED BY <1>1, <1>2, <1>3, <1>4 DEF Next

(* Every step keeps the invariant, if no tick wakes a task too early for    *)
(* its switch.                                                              *)
LEMMA PreemptNext ==
  PreemptInv /\ WokenAfterSwitch /\ [Next]_allVars => PreemptInv'
<1> SUFFICES ASSUME PreemptInv, WokenAfterSwitch, [Next]_allVars  PROVE PreemptInv'
  OBVIOUS
<1>1. StackInv /\ StackInv'
  BY StackNext DEF PreemptInv
<1>2. app' = app
  BY AppFixed
<1> SUFFICES ASSUME OnlySleeps  PROVE ReadyInv' /\ SwitchComes'
  <2>1. OnlySleeps' = OnlySleeps
    BY <1>2 DEF OnlySleeps, Measures, Op
  <2> QED BY <1>1, <2>1 DEF PreemptInv
<1>3. ReadyInv /\ SwitchComes
  BY DEF PreemptInv
<1>4. CASE main
  BY <1>1, <1>3, <1>4, ReadyMain
<1>5. ASSUME NEW t \in Task, TaskStep(t)  PROVE ReadyInv' /\ SwitchComes'
  BY <1>1, <1>3, <1>5, ReadyTask
<1>6. ~ (TIM2_IRQHandler \/ TIM3_IRQHandler)
  <2>1. 0 \in Task /\ 1 \in Task
    BY Sizes DEF Task
  <2> QED BY <2>1 DEF TIM2_IRQHandler, TIM3_IRQHandler, Event, OnlySleeps
<1>7. CASE SysTick
  <2>1. /\ isr = NoIsr /\ TickMatters
        /\ UNCHANGED <<state, prio, cs, psp, g_rq, g_current, boot, at, pendsv>>
    BY <1>7 DEF SysTick, SysTick_Handler, tcbVars, stackVars
  <2>2. ~ Booting
    BY <2>1, NoStackIsNoTask DEF Booting, TickMatters, Asleep, NoTask, NoStack
  <2>3. ReadyInv'
    BY <1>1, <1>2, <1>3, <2>1, <2>2, ReadySame DEF ReadyInv
  <2> QED BY <1>3, <2>1, <2>3 DEF SwitchComes, TopRuns
<1>8. CASE HandlerGoesOn
  <2>1. CASE TickWake
    BY <1>1, <1>2, <1>3, <2>1, ReadyWake
  <2>2. CASE TickEnd
    <3>1. /\ isr = MaxTasks
          /\ UNCHANGED <<state, prio, cs, psp, g_rq, g_current, boot, at>>
      BY <2>2 DEF TickEnd, stackVars
    <3>2. pendsv \/ triggerPendSV => pendsv'
      BY <2>2, Zenon DEF TickEnd
    <3>3. ~ Booting
      <4>1. MaxTasks # NoIsr
        BY Sizes DEF NoIsr
      <4> QED BY <3>1, <4>1, Zenon DEF Booting
    <3>4. ReadyInv'
      BY <1>1, <1>2, <1>3, <3>1, <3>3, ReadySame DEF ReadyInv
    <3> QED BY <1>3, <3>1, <3>4, <3>2 DEF SwitchComes, TopRuns
  <2> QED BY <1>8, <2>1, <2>2 DEF HandlerGoesOn
<1>9. CASE PendSV
  BY <1>1, <1>3, <1>9, ReadySchedule
<1>10. CASE UNCHANGED allVars
  <2>1. UNCHANGED <<state, prio, cs, psp, g_rq, g_current, boot, at, pendsv, isr,
                    triggerPendSV>>
    BY <1>10 DEF allVars, vars, kernelVars, tcbVars, portVars, isrVars, stackVars
  <2>2. Created' = Created /\ Waiting' = Waiting /\ Booting' = Booting
    BY <2>1 DEF Created, Waiting, Booting
  <2>3. Hold(g_rq, Waiting, prio)'
    <3>1. Hold(g_rq, Waiting, prio)
      BY <1>3 DEF ReadyInv
    <3> QED BY <2>1, <2>2, <3>1 DEF Hold
  <2> QED BY <1>2, <1>3, <2>1, <2>2, <2>3 DEF ReadyInv, SwitchComes, TopRuns
<1> QED BY <1>4, <1>5, <1>6, <1>7, <1>8, <1>9, <1>10 DEF Next

(* "HardRT always schedules the highest-priority READY task first": PendSV  *)
(* picks it, and whoever readies a better task requests PendSV, whatever    *)
(* ticks come in between, if each task that goes to sleep is switched out   *)
(* before the tick that ends its sleep.                                     *)
THEOREM HighestRuns == Spec /\ []WokenAfterSwitch => []Preempts
<1>1. PreemptInv => Preempts
  <2> SUFFICES ASSUME PreemptInv, boot = "on", ThreadMode, ~ pendsv, OnlySleeps
               PROVE  TopRuns
    BY DEF Preempts, OnlySleeps, TopRuns
  <2> QED BY DEF PreemptInv, SwitchComes, ThreadMode
<1> QED BY <1>1, ReadyInit, PreemptNext, PTL DEF Spec

-----------------------------------------------------------------------------
(* The programs whose sleeps are longer than the processor stays busy.      *)

(* Every sleep lasts more ticks than come between two idle times, and less  *)
(* than half the range of the tick counter.                                 *)
LongSleeps ==
  \A a \in Apps : \A i \in 1 .. Len(a) : a[i].op = "sleep" =>
    LET k == hrt__ms_to_ticks(a[i].ms, TickHz, TickMod)
    IN  k \in Nat /\ k > TurnTicks /\ 2 * k < TickMod

(* t has computed its wake_tick and has not been switched out since it went *)
(* to sleep.                                                                *)
GoingToSleep(t) == at[t] = "arm" \/ (state[t] = "SLEEP" /\ psp = t)

(* Such a task has more ticks to sleep than can come before the processor   *)
(* is idle, and while it is not switched out the processor is not idle.     *)
TurnInv ==
  /\ turn \in 0 .. TurnTicks
  /\ to_sleep \in [Task -> Nat]
  /\ wake_tick \in [Task -> 0 .. (TickMod - 1)]
  /\ g_tick \in 0 .. (TickMod - 1)
  /\ \A t \in Task : state[t] # "BLOCKED"
  /\ \A t \in Task : at[t] # "run" => t \in Created
  /\ \A t \in Created : at[t] \in {"run", "arm"} => state[t] = "READY"
  /\ \A t \in Task : psp = t /\ at[t] = "hop" /\ state[t] = "SLEEP" => pendsv
  /\ \A t \in Task : GoingToSleep(t) =>
       /\ to_sleep[t] + turn > TurnTicks
       /\ wake_tick[t] = (g_tick + to_sleep[t]) % TickMod
       /\ 2 * to_sleep[t] < TickMod

PaceInv == CritInv /\ PreemptInv /\ (OnlySleeps => TurnInv)

(* hrt_init.                                                                *)
LEMMA TurnInit == AppInit => TurnInv
<1> SUFFICES ASSUME AppInit  PROVE TurnInv
  OBVIOUS
<1>1. /\ turn = 0 /\ g_tick = 0 /\ psp = NoStack
      /\ to_sleep = [t \in Task |-> 0] /\ wake_tick = [t \in Task |-> 0]
      /\ state = [t \in Task |-> "UNUSED"] /\ at = [t \in Task |-> "run"]
  BY DEF AppInit, hrt_init, PortInit
<1>2. Created = {} /\ \A t \in Task : ~ GoingToSleep(t)
  BY <1>1 DEF Created, GoingToSleep
<1>3. 0 \in 0 .. TurnTicks /\ 0 \in 0 .. (TickMod - 1)
  BY Sizes
<1> QED BY <1>1, <1>2, <1>3 DEF TurnInv

(* The signed compare of hrt__tick_isr: the task the processor is on is not *)
(* due, because its wake_tick is ahead.                                     *)
LEMMA TurnNotDue == TurnInv => WokenAfterSwitch
<1> SUFFICES ASSUME TurnInv, isr \in Task, isr = psp, state[isr] = "SLEEP"
             PROVE  ~ Due(isr)
  BY DEF WokenAfterSwitch
<1> DEFINE k == to_sleep[isr]
<1>1. /\ k + turn > TurnTicks /\ wake_tick[isr] = (g_tick + k) % TickMod
      /\ 2 * k < TickMod
  BY DEF TurnInv, GoingToSleep
<1>2. /\ k \in Nat /\ turn \in 0 .. TurnTicks /\ TurnTicks \in Nat
      /\ TickMod \in Nat \ {0} /\ g_tick \in 0 .. (TickMod - 1)
  BY Sizes DEF TurnInv
<1> HIDE DEF k
<1>3. k > 0 /\ k < TickMod
  BY <1>1, <1>2
<1>4. (wake_tick[isr] - g_tick) % TickMod = k
  BY <1>1, <1>2, <1>3, TickAhead, Zenon
<1>5. Due(isr) <=> k = 0 \/ 2 * k >= TickMod
  BY <1>4, Zenon DEF Due
<1> QED BY <1>1, <1>2, <1>3, <1>5

(* A step that touches neither the clock nor the tasks.                     *)
LEMMA TurnSame ==
  ASSUME TurnInv, pendsv => pendsv',
         UNCHANGED <<turn, to_sleep, wake_tick, g_tick, state, at, psp>>
  PROVE  TurnInv'
<1>1. Created' = Created /\ \A t \in Task : GoingToSleep(t)' <=> GoingToSleep(t)
  BY DEF Created, GoingToSleep
<1> QED BY <1>1 DEF TurnInv

(* A task in hrt_sleep.                                                     *)
LEMMA TurnTask ==
  ASSUME LongSleeps, CritInv, StackInv, OnlySleeps, ReadyInv, TurnInv,
         NEW t \in Task, TaskStep(t)
  PROVE  TurnInv'
<1>1. /\ at \in [Task -> {"run", "arm", "pend", "hop"}]
      /\ \A u \in Task : cs[u] = "out" /\ ~ Measures(u)
  BY DEF ReadyInv, OnlySleeps
<1>2. basepri = Open
  BY <1>1 DEF CritInv, Inside
<1>3. /\ HRT_IDLE_ID \notin Created /\ NoStack \notin Task
      /\ psp = t => g_current = t
  BY SlotFacts
<1>4. psp = t /\ t # HRT_IDLE_ID => t \in Created
  BY <1>3 DEF ReadyInv
<1>5. /\ turn \in 0 .. TurnTicks /\ to_sleep \in [Task -> Nat]
      /\ wake_tick \in [Task -> 0 .. (TickMod - 1)] /\ g_tick \in 0 .. (TickMod - 1)
      /\ TurnTicks \in Nat /\ TickMod \in Nat \ {0}
  BY Sizes DEF TurnInv
<1>6. CASE SleepTask(t)
  <2> DEFINE k == hrt__ms_to_ticks(app[t + 1].ms, TickHz, TickMod)
  <2>1. /\ Thread(t, "run") /\ Goto(t, "arm") /\ Op(t) = "sleep"
        /\ wake_tick' = [wake_tick EXCEPT ![g_current] = (g_tick + k) % TickMod]
        /\ to_sleep' = [to_sleep EXCEPT ![g_current] = k]
        /\ UNCHANGED <<turn, state, psp, g_tick, pendsv>>
    BY <1>6 DEF SleepTask, hrt_sleep, appVars, runVars, stackVars
  <2>2. t + 1 \in 1 .. Len(app) /\ app[t + 1].op = "sleep" /\ t # HRT_IDLE_ID
    <3>1. Len(app) \in Nat /\ Len(app) < MaxTasks
      BY ProgramFits DEF ReadyInv
    <3>2. t < Len(app) /\ app[t + 1].op = "sleep"
      <4>1. Op(t) = "sleep"
        BY <2>1, Zenon
      <4> QED BY <4>1 DEF Op
    <3> QED BY <3>1, <3>2, Sizes DEF HRT_IDLE_ID, Task
  <2>3. k \in Nat /\ k > TurnTicks /\ 2 * k < TickMod
    <3>1. app \in Apps
      BY DEF ReadyInv
    <3> QED BY <2>2, <3>1, Zenon DEF LongSleeps
  <2> HIDE DEF k
  <2>4. psp = t /\ g_current = t /\ t \in Created /\ at[t] = "run" /\ state[t] = "READY"
    BY <1>3, <1>4, <2>1, <2>2 DEF Thread, TurnInv
  <2>5. /\ at' = [at EXCEPT ![t] = "arm"]
        /\ wake_tick' = [wake_tick EXCEPT ![t] = (g_tick + k) % TickMod]
        /\ to_sleep' = [to_sleep EXCEPT ![t] = k]
    BY <2>1, <2>4 DEF Goto
  <2>6. (g_tick + k) % TickMod \in 0 .. (TickMod - 1)
    BY <1>5, <2>3
  <2>7. Created' = Created
    BY <2>1 DEF Created
  <2>8. \A u \in Task : u # t => (GoingToSleep(u)' <=> GoingToSleep(u))
    BY <1>1, <2>1, <2>5 DEF GoingToSleep
  <2>9. ASSUME NEW u \in Task, GoingToSleep(u)'
        PROVE  /\ to_sleep'[u] + turn' > TurnTicks
               /\ wake_tick'[u] = (g_tick' + to_sleep'[u]) % TickMod
               /\ 2 * to_sleep'[u] < TickMod
    <3>1. CASE u = t
      BY <1>5, <2>1, <2>3, <2>5, <3>1
    <3>2. CASE u # t
      <4>1. /\ to_sleep[u] + turn > TurnTicks
            /\ wake_tick[u] = (g_tick + to_sleep[u]) % TickMod
            /\ 2 * to_sleep[u] < TickMod
        BY <2>8, <2>9, <3>2 DEF TurnInv
      <4> QED BY <1>5, <2>1, <2>5, <3>2, <4>1
    <3> QED BY <3>1, <3>2
  <2>10. to_sleep' \in [Task -> Nat] /\ wake_tick' \in [Task -> 0 .. (TickMod - 1)]
    BY <1>5, <2>3, <2>5, <2>6
  <2>11. /\ \A u \in Task : at'[u] # "run" => u \in Created
         /\ \A u \in Created : at'[u] \in {"run", "arm"} => state[u] = "READY"
         /\ \A u \in Task : psp = u /\ at'[u] = "hop" /\ state[u] = "SLEEP" => pendsv
    <3>1. \A u \in Task : at'[u] = IF u = t THEN "arm" ELSE at[u]
      BY <1>1, <2>5
    <3>2. Created \subseteq Task
      BY DEF Created
    <3>3. /\ \A u \in Task : at[u] # "run" => u \in Created
          /\ \A u \in Created : at[u] \in {"run", "arm"} => state[u] = "READY"
          /\ \A u \in Task : psp = u /\ at[u] = "hop" /\ state[u] = "SLEEP" => pendsv
      BY DEF TurnInv
    <3> QED BY <2>4, <3>1, <3>2, <3>3
  <2> QED BY <2>1, <2>7, <2>9, <2>10, <2>11 DEF TurnInv
<1>7. CASE SleepCommit(t) /\ UNCHANGED appVars
  <2>1. /\ Thread(t, "arm") /\ Goto(t, "pend")
        /\ state' = [state EXCEPT ![g_current] = "SLEEP"]
        /\ UNCHANGED <<turn, to_sleep, wake_tick, g_tick, psp, pendsv>>
    BY <1>7 DEF SleepCommit, appVars, runVars, stackVars
  <2>2. /\ psp = t /\ at[t] = "arm" /\ t \in Created
        /\ at' = [at EXCEPT ![t] = "pend"] /\ state' = [state EXCEPT ![t] = "SLEEP"]
    BY <1>3, <2>1 DEF Thread, Goto, TurnInv
  <2>3. Created' = Created
    BY <2>2 DEF Created, StackInv
  <2>4. \A u \in Task : GoingToSleep(u)' => GoingToSleep(u)
    BY <1>1, <2>1, <2>2 DEF GoingToSleep, StackInv
  <2>5. /\ \A u \in Task : state'[u] # "BLOCKED"
        /\ \A u \in Task : at'[u] # "run" => u \in Created
        /\ \A u \in Created : at'[u] \in {"run", "arm"} => state'[u] = "READY"
        /\ \A u \in Task : psp = u /\ at'[u] = "hop" /\ state'[u] = "SLEEP" => pendsv
    BY <1>1, <2>2 DEF TurnInv, StackInv, Created
  <2> QED BY <2>1, <2>3, <2>4, <2>5 DEF TurnInv
<1>8. CASE Switch(t) \/ Resume(t)
  <2>1. /\ pendsv'
        /\ UNCHANGED <<turn, to_sleep, wake_tick, g_tick, state, psp>>
    BY <1>8 DEF Switch, Resume, PendSwitch, YieldToScheduler, PendAndGo,
                kernelVars, tcbVars, appVars, runVars, stackVars
  <2>2. psp = t /\ ThreadMode
    BY <1>8 DEF Switch, Resume, PendSwitch, YieldToScheduler, Thread
  <2>3. PICK p \in {"run", "hop"} :
          /\ at' = [at EXCEPT ![t] = p]
          /\ at[t] = IF p = "run" THEN "hop" ELSE "pend"
    BY <1>1, <1>8 DEF Switch, Resume, PendSwitch, YieldToScheduler, PendAndGo, Thread, Goto
  <2>4. \A u \in Task : at'[u] = IF u = t THEN p ELSE at[u]
    BY <1>1, <2>3
  <2>5. t \in Created
    BY <2>3 DEF TurnInv
  <2>6. p = "run" => state[t] = "READY"
    <3>1. ~ pendsv
      BY <1>2, <2>2 DEF ThreadMode
    <3>2. p = "run" => state[t] # "SLEEP" /\ state[t] # "BLOCKED"
      BY <2>2, <2>3, <3>1 DEF TurnInv
    <3> QED BY <2>5, <3>2 DEF Created, StackInv, State
  <2>7. Created' = Created
    BY <2>1 DEF Created
  <2>8. \A u \in Task : GoingToSleep(u)' => GoingToSleep(u)
    BY <2>1, <2>4 DEF GoingToSleep
  <2>9. /\ \A u \in Task : at'[u] # "run" => u \in Created
        /\ \A u \in Created : at'[u] \in {"run", "arm"} => state[u] = "READY"
    <3>1. Created \subseteq Task
      BY DEF Created
    <3>2. /\ \A u \in Task : at[u] # "run" => u \in Created
          /\ \A u \in Created : at[u] \in {"run", "arm"} => state[u] = "READY"
      BY DEF TurnInv
    <3> QED BY <2>4, <2>5, <2>6, <3>1, <3>2
  <2> QED BY <2>1, <2>7, <2>8, <2>9 DEF TurnInv
<1> QED BY <1>6, <1>7, <1>8, SleepSteps

(* hrt_create_task: the new task is READY and outside the kernel.           *)
LEMMA TurnMain ==
  ASSUME StackInv, ReadyInv, TurnInv, main
  PROVE  TurnInv'
<1>1. CASE hrt_start /\ UNCHANGED appVars
  <2>1. /\ pendsv' = TRUE
        /\ UNCHANGED <<turn, to_sleep, wake_tick, g_tick, state, at, psp>>
    BY <1>1 DEF hrt_start, appVars, runVars, kernelVars, tcbVars, stackVars
  <2> QED BY <2>1, TurnSame
<1>2. ASSUME NEW p, NEW slice, CreateTask(p, slice), UNCHANGED appVars
      PROVE  TurnInv'
  <2> DEFINE id == CHOOSE t \in FreeSlots : \A u \in FreeSlots : t <= u
  <2>1. id \in Task
    <3>1. FreeSlots \in SUBSET Nat /\ FreeSlots # {}
      BY <1>2, Sizes DEF FreeSlots, Task, CreateTask, hrt_create_task
    <3>2. \E m \in FreeSlots : \A n \in FreeSlots : m <= n
      BY <3>1, LeastExists
    <3> QED BY <3>2 DEF FreeSlots
  <2>2. /\ boot = "main"
        /\ state' = [state EXCEPT ![id] = "READY"]
        /\ wake_tick' = [wake_tick EXCEPT ![id] = 0]
        /\ to_sleep' = [to_sleep EXCEPT ![id] = 0]
        /\ UNCHANGED <<turn, g_tick, at, psp, pendsv>>
    BY <1>2 DEF CreateTask, hrt_create_task, appVars, runVars
  <2> HIDE DEF id
  <2>3. psp = NoStack /\ NoStack \notin Task /\ \A t \in Task : at[t] = "run"
    BY <2>2, NoStackIsNoTask DEF ReadyInv, Booting
  <2>4. \A t \in Task : ~ GoingToSleep(t)'
    BY <2>2, <2>3 DEF GoingToSleep
  <2>5. 0 \in 0 .. (TickMod - 1)
    BY Sizes
  <2>6. to_sleep' \in [Task -> Nat] /\ wake_tick' \in [Task -> 0 .. (TickMod - 1)]
    <3>1. to_sleep \in [Task -> Nat] /\ wake_tick \in [Task -> 0 .. (TickMod - 1)]
      BY DEF TurnInv
    <3>2. to_sleep' \in [Task -> Nat]
      BY <2>2, <2>1, <3>1
    <3>3. wake_tick' \in [Task -> 0 .. (TickMod - 1)]
      BY <2>2, <2>5, <2>1, <3>1
    <3> QED BY <3>2, <3>3
  <2>7. /\ \A t \in Task : state'[t] # "BLOCKED"
        /\ \A t \in Created' : state'[t] = "READY"
    <3>1. \A t \in Task : state'[t] = state[t] \/ state'[t] = "READY"
      BY <2>2 DEF StackInv
    <3>2. \A t \in Task : state[t] # "BLOCKED" /\ (state[t] # "UNUSED" => state[t] = "READY")
      BY <2>3 DEF TurnInv, Created
    <3> QED BY <3>1, <3>2 DEF Created
  <2> QED BY <2>2, <2>3, <2>4, <2>6, <2>7 DEF TurnInv
<1> QED BY <1>1, <1>2 DEF main

(* A tick brings every sleeper one tick closer, and while a task is on its  *)
(* way to sleep the processor is not idle: the tick is one of its turn.     *)
LEMMA TurnTick ==
  ASSUME StackInv, ReadyInv, SwitchComes, TurnInv, SysTick
  PROVE  TurnInv'
<1>1. /\ isr = NoIsr /\ (OutsideTurn \/ turn < TurnTicks)
      /\ turn' = IF OutsideTurn THEN turn ELSE turn + 1
      /\ g_tick' = (g_tick + 1) % TickMod
      /\ to_sleep' = [t \in Task |-> IF to_sleep[t] = 0 THEN 0 ELSE to_sleep[t] - 1]
      /\ UNCHANGED <<wake_tick, state, at, psp, pendsv, g_current>>
  BY DEF SysTick, SysTick_Handler, hrt__inc_tick, tcbVars, stackVars
<1>2. /\ turn \in 0 .. TurnTicks /\ to_sleep \in [Task -> Nat]
      /\ wake_tick \in [Task -> 0 .. (TickMod - 1)] /\ g_tick \in 0 .. (TickMod - 1)
      /\ TurnTicks \in Nat /\ TickMod \in Nat \ {0}
  BY Sizes DEF TurnInv
<1>3. Created' = Created /\ \A t \in Task : GoingToSleep(t)' <=> GoingToSleep(t)
  BY <1>1 DEF Created, GoingToSleep
<1>4. ASSUME NEW t \in Task, GoingToSleep(t), OutsideTurn  PROVE FALSE
  <2>0. Idle
    BY <1>4 DEF OutsideTurn, Asleep, GoingToSleep
  <2>1. /\ HRT_IDLE_ID \notin Created /\ HRT_IDLE_ID \in Task /\ NoStack \notin Task
        /\ psp # NoStack => psp = g_current
    BY SlotFacts
  <2>2. psp = HRT_IDLE_ID /\ ~ pendsv /\ g_current = HRT_IDLE_ID
    BY <2>0, <2>1 DEF Idle
  <2>3. boot = "on"
    BY <2>1, <2>2 DEF ReadyInv, Booting
  <2>4. TopRuns
    BY <1>1, <2>2, <2>3 DEF SwitchComes
  <2>5. state[t] # "READY"
    BY <2>2, <2>4 DEF TopRuns
  <2>6. at[t] = "arm"
    BY <1>4, <2>1, <2>2 DEF GoingToSleep, Created
  <2> QED BY <2>5, <2>6 DEF TurnInv
<1>5. ASSUME NEW t \in Task, GoingToSleep(t)
      PROVE  /\ to_sleep'[t] + turn' > TurnTicks
             /\ wake_tick'[t] = (g_tick' + to_sleep'[t]) % TickMod
             /\ 2 * to_sleep'[t] < TickMod
  <2> DEFINE k == to_sleep[t]
  <2>1. /\ k + turn > TurnTicks /\ wake_tick[t] = (g_tick + k) % TickMod
        /\ 2 * k < TickMod /\ k \in Nat
    BY <1>2, <1>5 DEF TurnInv
  <2>2. k > 0 /\ k \in Nat \ {0} /\ k < TickMod
    BY <1>2, <2>1
  <2>3. to_sleep'[t] = k - 1 /\ turn' = turn + 1
    BY <1>1, <1>2, <1>4, <1>5, <2>2
  <2> HIDE DEF k
  <2>4. (g_tick + k) % TickMod = (((g_tick + 1) % TickMod) + (k - 1)) % TickMod
    BY <1>2, <2>2, TickPassed, Zenon
  <2>5. wake_tick'[t] = (g_tick' + to_sleep'[t]) % TickMod
    BY <1>1, <2>1, <2>3, <2>4, Zenon
  <2> QED BY <1>2, <2>1, <2>2, <2>3, <2>5
<1>6. turn' \in 0 .. TurnTicks
  BY <1>1, <1>2
<1>7. to_sleep' \in [Task -> Nat]
  BY <1>1, <1>2
<1>8. g_tick' \in 0 .. (TickMod - 1)
  BY <1>1, <1>2
<1> QED BY <1>1, <1>3, <1>5, <1>6, <1>7, <1>8 DEF TurnInv

(* A tick wakes another task.                                               *)
LEMMA TurnWake ==
  ASSUME StackInv, TurnInv, TickWake, UNCHANGED appVars
  PROVE  TurnInv'
<1>1. /\ isr \in Task
      /\ UNCHANGED <<turn, to_sleep, wake_tick, g_tick, at, psp, pendsv>>
  BY DEF TickWake, appVars, runVars, stackVars
<1>2. state' = state \/ (state[isr] = "SLEEP" /\ state' = [state EXCEPT ![isr] = "READY"])
  BY DEF TickWake, hrt__make_ready
<1>3. Created' = Created /\ \A t \in Task : GoingToSleep(t)' => GoingToSleep(t)
  BY <1>1, <1>2 DEF Created, GoingToSleep, StackInv
<1>4. \A t \in Task : state'[t] = state[t] \/ state'[t] = "READY"
  BY <1>1, <1>2 DEF StackInv
<1>5. Created \subseteq Task
  BY DEF Created
<1> QED BY <1>1, <1>3, <1>4, <1>5 DEF TurnInv

(* PendSV switches to a READY task, or to the idle task when there is none; *)
(* a task that has still to go to sleep is READY.                           *)
LEMMA TurnSchedule ==
  ASSUME StackInv, ReadyInv, TurnInv, PendSV
  PROVE  TurnInv'
<1>1. /\ turn' = IF psp' = HRT_IDLE_ID THEN 0 ELSE turn
      /\ UNCHANGED <<to_sleep, wake_tick, g_tick, state, at>>
  BY DEF PendSV, PendSV_Handler, hrt__schedule, tcbVars
<1>2. TopRuns' /\ psp' = g_current' /\ (state[psp'] = "READY" \/ psp' = HRT_IDLE_ID)
  BY ReadySchedule
<1>3. HRT_IDLE_ID \notin Created /\ HRT_IDLE_ID \in Task
  BY SlotFacts
<1>4. state[psp'] # "SLEEP"
  BY <1>2, <1>3 DEF Created
<1>5. Created' = Created /\ \A t \in Task : GoingToSleep(t)' => at[t] = "arm"
  BY <1>1, <1>4 DEF Created, GoingToSleep
<1>6. ASSUME NEW t \in Task, at[t] = "arm"  PROVE psp' # HRT_IDLE_ID /\ GoingToSleep(t)
  <2>1. state[t] = "READY"
    BY <1>6 DEF TurnInv
  <2> QED BY <1>1, <1>2, <1>6, <2>1 DEF TopRuns, GoingToSleep
<1>7. turn' \in 0 .. TurnTicks
  <2>1. turn \in 0 .. TurnTicks
    BY DEF TurnInv
  <2>2. 0 \in 0 .. TurnTicks
    BY Sizes
  <2> QED BY <1>1, <2>1, <2>2, Zenon
<1>8. \A t \in Task : GoingToSleep(t)' =>
        /\ to_sleep'[t] + turn' > TurnTicks
        /\ wake_tick'[t] = (g_tick' + to_sleep'[t]) % TickMod
        /\ 2 * to_sleep'[t] < TickMod
  BY <1>1, <1>5, <1>6 DEF TurnInv
<1>9. \A t \in Task : ~ (psp' = t /\ state'[t] = "SLEEP")
  BY <1>1, <1>4
<1> QED BY <1>1, <1>5, <1>7, <1>8, <1>9 DEF TurnInv

(* Every step of such a program keeps the invariant.                        *)
LEMMA PaceNext ==
  ASSUME LongSleeps, PaceInv, [Next]_allVars
  PROVE  PaceInv'
<1>1. CritInv' /\ app' = app
  BY CritSteps, CritNext, AppFixed DEF PaceInv
<1>2. OnlySleeps' = OnlySleeps
  BY <1>1 DEF OnlySleeps, Measures, Op
<1>3. CASE ~ OnlySleeps
  <2>1. StackInv'
    BY StackNext DEF PaceInv, PreemptInv
  <2> QED BY <1>1, <1>2, <1>3, <2>1 DEF PaceInv, PreemptInv
<1>4. CASE OnlySleeps
  <2>1. CritInv /\ StackInv /\ ReadyInv /\ SwitchComes /\ TurnInv
    BY <1>4 DEF PaceInv, PreemptInv
  <2>2. PreemptInv'
    BY <2>1, PreemptNext, TurnNotDue DEF PaceInv
  <2> SUFFICES TurnInv'
    BY <1>1, <2>2 DEF PaceInv
  <2>3. CASE main
    BY <2>1, <2>3, TurnMain
  <2>4. ASSUME NEW t \in Task, TaskStep(t)  PROVE TurnInv'
    BY <1>4, <2>1, <2>4, TurnTask
  <2>5. ~ (TIM2_IRQHandler \/ TIM3_IRQHandler)
    <3>1. 0 \in Task /\ 1 \in Task
      BY Sizes DEF Task
    <3> QED BY <1>4, <3>1 DEF TIM2_IRQHandler, TIM3_IRQHandler, Event, OnlySleeps
  <2>6. CASE SysTick
    BY <2>1, <2>6, TurnTick
  <2>7. CASE HandlerGoesOn
    <3>1. CASE TickEnd
      <4>1. UNCHANGED <<turn, to_sleep, wake_tick, g_tick, state, at, psp>>
        BY <2>7, <3>1 DEF HandlerGoesOn, TickEnd, appVars, runVars, stackVars
      <4>2. pendsv => pendsv'
        BY <3>1, Zenon DEF TickEnd
      <4> QED BY <2>1, <4>1, <4>2, TurnSame
    <3>2. CASE TickWake
      BY <2>1, <2>7, <3>2, TurnWake DEF HandlerGoesOn
    <3> QED BY <2>7, <3>1, <3>2 DEF HandlerGoesOn
  <2>8. CASE PendSV
    BY <2>1, <2>8, TurnSchedule
  <2>9. CASE UNCHANGED allVars
    <3>1. UNCHANGED <<turn, to_sleep, wake_tick, g_tick, state, at, psp, pendsv>>
      BY <2>9 DEF allVars, vars, kernelVars, tcbVars, portVars, stackVars, appVars, runVars
    <3> QED BY <2>1, <3>1, TurnSame
  <2> QED BY <2>3, <2>4, <2>5, <2>6, <2>7, <2>8, <2>9 DEF Next
<1> QED BY <1>3, <1>4

(* The same without a premise on behaviours, for programs like h755_demo    *)
(* and h755_blinky, whose sleeps are longer than they keep the processor    *)
(* busy: no tick wakes a task before PendSV has switched it out.            *)
THEOREM SleepersPreempt == ASSUME LongSleeps PROVE Spec => []Preempts
<1>1. AppInit => PaceInv
  BY CritInit, ReadyInit, TurnInit DEF PaceInv
<1>2. PaceInv /\ [Next]_allVars => PaceInv'
  BY PaceNext
<1>3. PaceInv => Preempts
  <2> SUFFICES ASSUME PaceInv, boot = "on", ThreadMode, ~ pendsv, OnlySleeps
               PROVE  TopRuns
    BY DEF Preempts, OnlySleeps, TopRuns
  <2> QED BY DEF PaceInv, PreemptInv, SwitchComes, ThreadMode
<1> QED BY <1>1, <1>2, <1>3, PTL DEF Spec
=============================================================================
