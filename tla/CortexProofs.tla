---------------------------- MODULE CortexProofs ----------------------------
(***************************************************************************)
(* Theorems about the Cortex-M port, for every number of tasks and         *)
(* priorities and every program of CortexApps: critical sections mask what *)
(* they should, the processor is on the stack of the running task, and the *)
(* measurements of dwt_timing count every event that armed one.  Lemmas on *)
(* the ready queues for module PreemptProofs.                              *)
(***************************************************************************)
EXTENDS CortexApps, QueueProofs

-----------------------------------------------------------------------------
(* Critical sections.                                                       *)

Inside == {"count", "body", "uncount", "restore"}

(* The inductive strengthening of CritMasks: from raising BASEPRI to        *)
(* restoring it the task keeps the processor, the nesting count is one in   *)
(* the body, and g_basepri_prev never remembers a raised BASEPRI.           *)
CritInv ==
  /\ cs \in [Task -> {"out", "save", "raise"} \cup Inside]
  /\ g_basepri_prev = Open
  /\ \A t \in Task : cs[t] \in Inside =>
       /\ basepri = Masked /\ psp = t
       /\ g_cs_nest = IF cs[t] \in {"body", "uncount"} THEN 1 ELSE 0
  /\ (\A t \in Task : cs[t] \notin Inside) => basepri = Open /\ g_cs_nest = 0

(* Raised and open are different values of BASEPRI.                         *)
LEMMA MaskedIsNotOpen == Masked # Open
BY DEF Masked, Open, _prio_to_basepri

(* hrt__init_idle_task and the statics of the port.                         *)
LEMMA CritInit == AppInit => CritInv
BY DEF AppInit, PortInit, CritInv, Inside, Open

(* What the steps do outside the critical section code: nothing to it,      *)
(* enter it, leave its body, or switch tasks while BASEPRI is open.         *)
CritFrame ==
  \/ UNCHANGED <<cs, psp, critVars>>
  \/ \E t \in Task : /\ psp = t /\ cs[t] = "out"
                     /\ Cs(t, "save") /\ UNCHANGED <<psp, critVars>>
  \/ \E t \in Task : Crit(t, "body") /\ Cs(t, "uncount") /\ UNCHANGED <<psp, critVars>>
  \/ basepri = Open /\ UNCHANGED <<cs, critVars>>
  \/ \E t \in Task : CritStep(t)

(* Every step of a program is one of these.                                 *)
LEMMA CritSteps == [Next]_allVars => CritFrame
<1> SUFFICES ASSUME [Next]_allVars  PROVE CritFrame
  OBVIOUS
<1>1. CASE main
  BY <1>1 DEF main, CreateTask, hrt_start, stackVars, CritFrame
<1>2. ASSUME NEW t \in Task, TaskStep(t)  PROVE CritFrame
  <2>1. CASE SleepTask(t)
    BY <2>1 DEF SleepTask, hrt_sleep, stackVars, CritFrame
  <2>2. CASE SleepCommit(t) /\ UNCHANGED appVars
    BY <2>2 DEF SleepCommit, stackVars, CritFrame
  <2>3. CASE TakeRetry(t) \/ TakeCall(t)
    <3>1. psp = t /\ cs[t] = "out" /\ Cs(t, "save") /\ UNCHANGED <<psp, critVars>>
      BY <2>3 DEF TakeRetry, TakeCall, Thread, EnterCrit, stackVars
    <3> QED BY <3>1 DEF CritFrame
  <2>4. CASE TryBody(t) \/ SlowBody(t)
    <3>1. Crit(t, "body") /\ Cs(t, "uncount") /\ UNCHANGED <<psp, critVars>>
      BY <2>4 DEF TryBody, SlowBody, stackVars
    <3> QED BY <3>1 DEF CritFrame
  <2>5. CASE CritStep(t) /\ UNCHANGED appVars
    BY <2>5 DEF CritFrame
  <2>6. CASE Switch(t) \/ Resume(t)
    BY <2>6 DEF Switch, Resume, PendSwitch, YieldToScheduler, PendAndGo, stackVars,
                CritFrame
  <2>7. ASSUME NEW u, Look(u) \/ Disarm(u) \/ stats_record(u) \/ SetDone(u)
                      \/ maybe_finish(u) \/ EnableIrqs
        PROVE  CritFrame
    BY <2>7 DEF Look, Disarm, stats_record, SetDone, maybe_finish, EnableIrqs, Step,
                stackVars, CritFrame
  <2>8. CASE (t = 0 /\ TaskTickLatency) \/ (t = 1 /\ TaskEventLatency)
    BY <2>3, <2>7, <2>8 DEF TaskTickLatency, TaskEventLatency, Measure
  <2> QED BY <1>2, <2>1, <2>2, <2>3, <2>4, <2>5, <2>6, <2>8 DEF TaskStep
<1>3. CASE TIM2_IRQHandler \/ TIM3_IRQHandler
  BY <1>3 DEF TIM2_IRQHandler, TIM3_IRQHandler, Event, stackVars, CritFrame
<1>4. CASE SysTick
  BY <1>4 DEF SysTick, SysTick_Handler, stackVars, CritFrame
<1>5. CASE HandlerGoesOn
  BY <1>5 DEF HandlerGoesOn, TickWake, TickEnd, stackVars, CritFrame
<1>6. CASE PendSV
  BY <1>6 DEF PendSV, PendSV_Handler, CritFrame
<1>7. CASE UNCHANGED allVars
  BY <1>7 DEF allVars, vars, portVars, stackVars, CritFrame
<1> QED BY <1>1, <1>2, <1>3, <1>4, <1>5, <1>6, <1>7 DEF Next

(* Each of them keeps the invariant.                                        *)
LEMMA CritNext == CritInv /\ CritFrame => CritInv'
<1> SUFFICES ASSUME CritInv, CritFrame  PROVE CritInv'
  OBVIOUS
<1> USE DEF CritInv, critVars
<1>1. CASE UNCHANGED <<cs, psp, critVars>>
  BY <1>1
<1>2. ASSUME NEW t \in Task, psp = t, cs[t] = "out", Cs(t, "save"),
             UNCHANGED <<psp, critVars>>
      PROVE  CritInv'
  BY <1>2 DEF Cs, Inside
<1>3. ASSUME NEW t \in Task, Crit(t, "body"), Cs(t, "uncount"),
             UNCHANGED <<psp, critVars>>
      PROVE  CritInv'
  BY <1>3 DEF Cs, Crit, Inside
<1>4. CASE basepri = Open /\ UNCHANGED <<cs, critVars>>
  BY <1>4, MaskedIsNotOpen
<1>5. ASSUME NEW t \in Task, CritStep(t)  PROVE CritInv'
  <2>0. psp = t /\ UNCHANGED psp
    BY <1>5 DEF CritStep, CritSave, CritRaise, CritCount, CritUncount, CritRestore,
                Crit, stackVars
  <2>1. \A u \in Task : u # t => cs[u] \notin Inside
    BY <2>0
  <2>2. CASE CritSave(t)
    BY <2>0, <2>1, <2>2 DEF CritSave, Crit, Cs, Inside
  <2>3. CASE CritRaise(t)
    BY <2>0, <2>1, <2>3 DEF CritRaise, Crit, Cs, Inside
  <2>4. CASE CritCount(t)
    BY <2>0, <2>1, <2>4 DEF CritCount, Crit, Cs, Inside
  <2>5. CASE CritUncount(t)
    BY <2>0, <2>1, <2>5 DEF CritUncount, Crit, Cs, Inside
  <2>6. CASE CritRestore(t)
    BY <2>0, <2>1, <2>6 DEF CritRestore, Crit, Cs, Inside
  <2> QED BY <1>5, <2>2, <2>3, <2>4, <2>5, <2>6 DEF CritStep
<1> QED BY <1>1, <1>2, <1>3, <1>4, <1>5 DEF CritFrame

(* Critical sections are never interrupted and never leave interrupts       *)
(* masked: hrt_port_crit_enter and hrt_port_crit_exit with exceptions and   *)
(* switches between their statements.                                       *)
THEOREM CriticalSectionsMask == Spec => []CritMasks
<1>1. CritInv => CritMasks
  BY DEF CritInv, CritMasks, Inside
<1>2. CritInv /\ [Next]_allVars => CritInv'
  BY CritSteps, CritNext
<1> QED BY <1>1, <1>2, CritInit, PTL DEF Spec

-----------------------------------------------------------------------------
(* Stacks.                                                                  *)

(* The tasks whose saved stack pointer is that of a stack of their own.     *)
Framed == {t \in Task : sp[t] = t}

QueuesOf(S) == [Prio -> Seq(S)]

(* rq_push adds nothing to the queues but the task it is given.             *)
LEMMA PushKeeps ==
  ASSUME NEW S, NEW rq \in QueuesOf(S), NEW p, NEW id \in S
  PROVE  rq_push(rq, p, id) \in QueuesOf(S)
<1>1. CASE p \in Prio
  <2>1. rq[p] \in Seq(S)
    BY <1>1 DEF QueuesOf
  <2>2. Append(rq[p], id) \in Seq(S)
    BY <2>1
  <2> QED BY <2>2 DEF QueuesOf, rq_push
<1>2. CASE p \notin Prio
  BY <1>2 DEF rq_push
<1> QED BY <1>1, <1>2

(* hrt__pick_next_ready answers an entry of the queues or HRT_IDLE_ID.      *)
LEMMA PickKeeps ==
  ASSUME NEW S, NEW rq \in QueuesOf(S)
  PROVE  /\ rq_pop(rq) \in QueuesOf(S)
         /\ hrt__pick_next_ready(rq) \in S \cup {HRT_IDLE_ID}
<1>1. CASE NonEmpty(rq) = {}
  BY <1>1 DEF rq_pop, hrt__pick_next_ready
<1>2. CASE NonEmpty(rq) # {}
  <2>1. NonEmpty(rq) \in SUBSET Nat
    BY KernelAssumption DEF NonEmpty, Prio
  <2>2. \E m \in NonEmpty(rq) : \A o \in NonEmpty(rq) : m <= o
    BY <1>2, <2>1, LeastExists
  <2>3. TopPrio(rq) \in NonEmpty(rq)
    BY <2>2 DEF TopPrio
  <2>4. /\ TopPrio(rq) \in Prio
        /\ rq[TopPrio(rq)] \in Seq(S)
        /\ rq[TopPrio(rq)] # <<>>
    BY <2>3 DEF NonEmpty, QueuesOf
  <2>5. Head(rq[TopPrio(rq)]) \in S /\ Tail(rq[TopPrio(rq)]) \in Seq(S)
    BY <2>4
  <2> QED BY <1>2, <2>4, <2>5 DEF QueuesOf, rq_pop, hrt__pick_next_ready
<1> QED BY <1>1, <1>2

(* Queues of tasks of S are queues of tasks of a larger set.                *)
LEMMA QueuesGrow ==
  ASSUME NEW S, NEW T, S \subseteq T, NEW rq \in QueuesOf(S)
  PROVE  rq \in QueuesOf(T)
<1>1. ASSUME NEW s \in Seq(S)  PROVE s \in Seq(T)
  <2>1. s \in [1 .. Len(s) -> T] /\ Len(s) \in Nat
    OBVIOUS
  <2> QED BY <2>1
<1> QED BY <1>1 DEF QueuesOf

(* The inductive strengthening of StackOfCurrent: whatever hrt__schedule    *)
(* can switch to has a stack of its own: what is queued, what waits for a   *)
(* semaphore, what a tick can make ready, and the idle task.                *)
StackInv ==
  /\ state \in [Task -> State]
  /\ sp \in [Task -> Task \cup {NoStack}]
  /\ psp = NoStack \/ (psp = g_current /\ g_current \in Framed)
  /\ HRT_IDLE_ID \in Framed
  /\ \A t \in Task : state[t] # "UNUSED" => t \in Framed
  /\ g_rq \in QueuesOf(Framed)
  /\ waiters \in [Task -> Seq(Framed)]

(* NoStack is not a task id.                                                *)
LEMMA NoStackIsNoTask == NoStack \notin Task /\ HRT_IDLE_ID \in Task
BY KernelAssumption DEF NoStack, Task, HRT_IDLE_ID

(* hrt_init, and hrt__init_idle_task.                                       *)
LEMMA StackInit == AppInit => StackInv
BY NoStackIsNoTask
   DEF AppInit, hrt_init, PortInit, StackInv, Framed, QueuesOf, State

(* A step that touches no stack, no state and no queue.                     *)
LEMMA StackUnchanged ==
  ASSUME StackInv, UNCHANGED <<state, sp, psp, g_current, g_rq, waiters>>
  PROVE  StackInv'
BY DEF StackInv, Framed, QueuesOf

(* hrt__make_ready of a task that has a stack.                              *)
LEMMA StackMakeReady ==
  ASSUME StackInv, NEW id \in Framed, hrt__make_ready(id),
         UNCHANGED <<sp, psp, g_current>>,
         waiters' \in [Task -> Seq(Framed)]
  PROVE  StackInv'
<1>1. Framed' = Framed
  BY DEF Framed
<1>2. id \in Task
  BY DEF Framed
<1>3. g_rq' \in QueuesOf(Framed) /\ state' = [state EXCEPT ![id] = "READY"]
  BY PushKeeps DEF StackInv, hrt__make_ready
<1> QED BY <1>1, <1>2, <1>3 DEF StackInv, State, QueuesOf

(* hrt_create_task prepares the stack of the task it queues.                *)
LEMMA StackCreate ==
  ASSUME StackInv, NEW p, NEW slice, CreateTask(p, slice), UNCHANGED waiters
  PROVE  StackInv'
<1> DEFINE id == CHOOSE t \in FreeSlots : \A u \in FreeSlots : t <= u
<1>1. id \in Task
  <2>1. FreeSlots \in SUBSET Nat /\ FreeSlots # {}
    BY KernelAssumption DEF FreeSlots, Task, CreateTask, hrt_create_task
  <2>2. \E m \in FreeSlots : \A n \in FreeSlots : m <= n
    BY <2>1, LeastExists
  <2> QED BY <2>2 DEF FreeSlots
<1>2. /\ state' = [state EXCEPT ![id] = "READY"]
      /\ g_rq' = rq_push(g_rq, p, id)
      /\ sp' = [sp EXCEPT ![id] = id]
      /\ UNCHANGED <<psp, g_current>>
  BY DEF CreateTask, hrt_create_task
<1> HIDE DEF id
<1>3. Framed' = Framed \cup {id}
  BY <1>1, <1>2 DEF Framed, StackInv
<1>4. g_rq' \in QueuesOf(Framed')
  BY <1>2, <1>3, QueuesGrow, PushKeeps DEF StackInv
<1>5. waiters' \in [Task -> Seq(Framed')]
  <2>1. ASSUME NEW s \in Seq(Framed)  PROVE s \in Seq(Framed')
    <3>1. s \in [1 .. Len(s) -> Framed'] /\ Len(s) \in Nat
      BY <1>3
    <3> QED BY <3>1
  <2> QED BY <2>1 DEF StackInv
<1> QED BY <1>1, <1>2, <1>3, <1>4, <1>5 DEF StackInv, State, QueuesOf

(* hrt__schedule: the running task is saved in its own TCB, and the next    *)
(* one has a stack.                                                         *)
LEMMA StackSchedule ==
  ASSUME StackInv, hrt__schedule, UNCHANGED waiters
  PROVE  StackInv' /\ psp' = hrt__pick_next_ready(Requeued)
<1>1. Saved = sp
  BY DEF Saved, StackInv, Framed
<1>2. Requeued \in QueuesOf(Framed)
  BY PushKeeps DEF Requeued, StackInv
<1> DEFINE next == hrt__pick_next_ready(Requeued)
<1>3. next \in Framed /\ rq_pop(Requeued) \in QueuesOf(Framed)
  BY <1>2, PickKeeps DEF StackInv
<1>4. /\ g_rq' = rq_pop(Requeued) /\ g_current' = next
      /\ sp' = sp /\ state' = state
      /\ psp' = IF sp[next] = NoStack THEN psp ELSE sp[next]
  BY <1>1 DEF hrt__schedule, tcbVars
<1> HIDE DEF next
<1>5. Framed' = Framed /\ psp' = next
  BY <1>3, <1>4, NoStackIsNoTask DEF Framed
<1>6. StackInv'
  BY <1>3, <1>4, <1>5 DEF StackInv, QueuesOf
<1> QED BY <1>5, <1>6 DEF next

(* The running task goes to sleep or waits for a semaphore.                 *)
LEMMA StackStops ==
  ASSUME StackInv, NEW t \in Task, psp = t, NEW s \in State,
         state' = [state EXCEPT ![g_current] = s],
         UNCHANGED <<sp, psp, g_current, g_rq>>,
         waiters' = waiters \/ waiters' = [waiters EXCEPT ![t] = _waitq_push(@, g_current)]
  PROVE  StackInv'
<1>1. g_current = t /\ t \in Framed /\ Framed' = Framed
  BY NoStackIsNoTask DEF StackInv, Framed
<1>2. waiters' \in [Task -> Seq(Framed)]
  <2>1. waiters[t] \in Seq(Framed)
    BY DEF StackInv
  <2>2. _waitq_push(waiters[t], t) \in Seq(Framed)
    BY <1>1, <2>1 DEF _waitq_push
  <2> QED BY <1>1, <2>2 DEF StackInv
<1> QED BY <1>1, <1>2 DEF StackInv, QueuesOf

(* An event wakes the first waiter, if there is one.                        *)
LEMMA StackEvent ==
  ASSUME StackInv, NEW t \in Task, Event(t)
  PROVE  StackInv'
<1>1. waiters[t] \in Seq(Framed) /\ UNCHANGED <<sp, psp>> /\ GiveFromIsr(t)
  BY DEF StackInv, Event, stackVars
<1>2. CASE waiters[t] = <<>>
  BY <1>1, <1>2, StackUnchanged DEF GiveFromIsr, kernelVars, tcbVars
<1>3. CASE waiters[t] # <<>>
  <2> DEFINE w == Head(waiters[t])
  <2>1. w \in Framed /\ Tail(waiters[t]) \in Seq(Framed)
    BY <1>1, <1>3
  <2>2. /\ hrt__make_ready(w) /\ UNCHANGED g_current
        /\ waiters' = [waiters EXCEPT ![t] = Tail(@)]
    BY <1>1, <1>3 DEF GiveFromIsr
  <2> HIDE DEF w
  <2>3. waiters' \in [Task -> Seq(Framed)]
    BY <2>1, <2>2 DEF StackInv
  <2> QED BY <1>1, <2>1, <2>2, <2>3, StackMakeReady
<1> QED BY <1>2, <1>3

(* Every step keeps the invariant.                                          *)
LEMMA StackNext == StackInv /\ [Next]_allVars => StackInv'
<1> SUFFICES ASSUME StackInv, [Next]_allVars  PROVE StackInv'
  OBVIOUS
<1> USE DEF kernelVars, tcbVars, stackVars, appVars, semVars
<1>1. CASE main
  <2>1. CASE hrt_start /\ UNCHANGED appVars
    BY <2>1, StackUnchanged DEF hrt_start
  <2>2. ASSUME NEW p, NEW slice, CreateTask(p, slice), UNCHANGED appVars
        PROVE  StackInv'
    BY <2>2, StackCreate
  <2> QED BY <1>1, <2>1, <2>2 DEF main
<1>2. ASSUME NEW t \in Task, TaskStep(t)  PROVE StackInv'
  <2>1. CASE SleepTask(t)
    BY <2>1, StackUnchanged DEF SleepTask, hrt_sleep
  <2>2. CASE SleepCommit(t) /\ UNCHANGED appVars
    <3>1. /\ psp = t /\ state' = [state EXCEPT ![g_current] = "SLEEP"]
          /\ UNCHANGED <<sp, psp, g_current, g_rq>> /\ waiters' = waiters
      BY <2>2 DEF SleepCommit, Thread
    <3> QED BY <3>1, StackStops, "SLEEP" \in State DEF State
  <2>3. CASE TakeRetry(t) \/ TakeCall(t)
    BY <2>3, StackUnchanged DEF TakeRetry, TakeCall, EnterCrit
  <2>4. CASE TryBody(t)
    BY <2>4, StackUnchanged DEF TryBody, TakeToken
  <2>5. CASE SlowBody(t)
    <3>1. CASE TakeToken(t)
      BY <2>5, <3>1, StackUnchanged DEF SlowBody, TakeToken
    <3>2. CASE ~ TakeToken(t)
      <4>1. /\ psp = t /\ state' = [state EXCEPT ![g_current] = "BLOCKED"]
            /\ UNCHANGED <<sp, psp, g_current, g_rq>>
            /\ waiters' = [waiters EXCEPT ![t] = _waitq_push(@, g_current)]
        BY <2>5, <3>2 DEF SlowBody, Crit
      <4> QED BY <4>1, StackStops, "BLOCKED" \in State DEF State
    <3> QED BY <3>1, <3>2
  <2>6. CASE CritStep(t) /\ UNCHANGED appVars
    BY <2>6, StackUnchanged
       DEF CritStep, CritSave, CritRaise, CritCount, CritUncount, CritRestore
  <2>7. CASE Switch(t) \/ Resume(t)
    BY <2>7, StackUnchanged DEF Switch, Resume, PendSwitch, YieldToScheduler, PendAndGo
  <2>8. ASSUME NEW u, Look(u) \/ Disarm(u) \/ stats_record(u) \/ SetDone(u)
                      \/ maybe_finish(u) \/ EnableIrqs
        PROVE  StackInv'
    BY <2>8, StackUnchanged
       DEF Look, Disarm, stats_record, SetDone, maybe_finish, EnableIrqs, Step
  <2>9. CASE (t = 0 /\ TaskTickLatency) \/ (t = 1 /\ TaskEventLatency)
    BY <2>3, <2>8, <2>9 DEF TaskTickLatency, TaskEventLatency, Measure
  <2> QED BY <1>2, <2>1, <2>2, <2>3, <2>4, <2>5, <2>6, <2>7, <2>9 DEF TaskStep
<1>3. CASE TIM2_IRQHandler \/ TIM3_IRQHandler
  <2>1. 0 \in Task /\ 1 \in Task
    BY KernelAssumption DEF Task
  <2> QED BY <1>3, <2>1, StackEvent DEF TIM2_IRQHandler, TIM3_IRQHandler
<1>4. CASE SysTick
  BY <1>4, StackUnchanged DEF SysTick, SysTick_Handler, hrt__inc_tick
<1>5. CASE HandlerGoesOn
  <2>1. CASE TickEnd
    BY <1>5, <2>1, StackUnchanged DEF HandlerGoesOn, TickEnd
  <2>2. CASE TickWake /\ state[isr] = "SLEEP" /\ Due(isr)
    <3>1. isr \in Framed
      BY <2>2 DEF TickWake, StackInv
    <3>2. hrt__make_ready(isr) /\ UNCHANGED <<sp, psp, g_current, waiters>>
      BY <1>5, <2>2 DEF TickWake, HandlerGoesOn
    <3> QED BY <3>1, <3>2, StackMakeReady DEF StackInv
  <2>3. CASE TickWake /\ ~ (state[isr] = "SLEEP" /\ Due(isr))
    BY <1>5, <2>3, StackUnchanged DEF TickWake, HandlerGoesOn
  <2> QED BY <1>5, <2>1, <2>2, <2>3 DEF HandlerGoesOn
<1>6. CASE PendSV
  BY <1>6, StackSchedule DEF PendSV, PendSV_Handler
<1>7. CASE UNCHANGED allVars
  BY <1>7, StackUnchanged DEF allVars, vars, portVars
<1> QED BY <1>1, <1>2, <1>3, <1>4, <1>5, <1>6, <1>7 DEF Next

(* Through every switch of hrt__schedule, the processor is on the stack of  *)
(* the task the kernel takes for the running one.                           *)
THEOREM RunsOnItsOwnStack == Spec => []StackOfCurrent
<1>1. StackInv => StackOfCurrent
  BY DEF StackInv, StackOfCurrent
<1> QED BY <1>1, StackInit, StackNext, PTL DEF Spec

-----------------------------------------------------------------------------
(* Measurements.                                                            *)

Place == {"run", "arm", "pend", "hop", "try", "slow", "retry", "got", "disarm",
          "record", "done", "finish"}

(* The inductive strengthening of SamplesExact: a task that is about to     *)
(* disarm its measurement still finds it armed, since only it disarms.      *)
SampleInv ==
  /\ at \in [Task -> Place]
  /\ armed \in [Task -> BOOLEAN]
  /\ samples \in [Task -> Nat] /\ arms \in [Task -> Nat]
  /\ \A t \in Task :
       /\ at[t] = "disarm" => armed[t]
       /\ arms[t] = samples[t] + (IF armed[t] THEN 1 ELSE 0)
                     + (IF at[t] = "record" THEN 1 ELSE 0)

(* Before the first event.                                                  *)
LEMMA SampleInit == AppInit => SampleInv
BY DEF AppInit, PortInit, SampleInv, Place

(* A step of a task that is no part of its measurement.                     *)
LEMMA SampleOther ==
  ASSUME SampleInv, NEW t \in Task, at[t] # "record",
         NEW p \in Place \ {"disarm", "record"}, Goto(t, p),
         UNCHANGED <<armed, samples, arms>>
  PROVE  SampleInv'
BY DEF SampleInv, Goto

(* A step of no task.                                                       *)
LEMMA SampleUnchanged ==
  ASSUME SampleInv, UNCHANGED <<at, armed, samples, arms>>
  PROVE  SampleInv'
BY DEF SampleInv

(* Every step keeps the invariant.                                          *)
LEMMA SampleNext == SampleInv /\ [Next]_allVars => SampleInv'
<1> SUFFICES ASSUME SampleInv, [Next]_allVars  PROVE SampleInv'
  OBVIOUS
<1> USE DEF appVars, measureVars, Thread
<1>1. CASE main
  BY <1>1, SampleUnchanged DEF main, CreateTask, hrt_start
<1>2. ASSUME NEW t \in Task, TaskStep(t)  PROVE SampleInv'
  <2>1. CASE SleepTask(t)
    BY <2>1, SampleOther DEF SleepTask, hrt_sleep, Place
  <2>2. CASE SleepCommit(t) /\ UNCHANGED appVars
    BY <2>2, SampleOther DEF SleepCommit, Place
  <2>3. CASE TakeRetry(t) \/ TakeCall(t)
    BY <2>3, SampleOther DEF TakeRetry, TakeCall, EnterCrit, Place
  <2>4. CASE TryBody(t)
    BY <2>4, SampleOther DEF TryBody, TakeToken, Place
  <2>5. CASE SlowBody(t)
    BY <2>5, SampleOther DEF SlowBody, TakeToken, Place
  <2>6. CASE CritStep(t) /\ UNCHANGED appVars
    BY <2>6, SampleUnchanged
       DEF CritStep, CritSave, CritRaise, CritCount, CritUncount, CritRestore
  <2>7. CASE Switch(t) \/ Resume(t)
    BY <2>7, SampleOther
       DEF Switch, Resume, PendSwitch, YieldToScheduler, PendAndGo, Place
  <2>8. CASE (t = 0 /\ EnableIrqs) \/ SetDone(t) \/ maybe_finish(t)
    BY <2>8, SampleOther DEF EnableIrqs, SetDone, maybe_finish, Step, Place
  <2>9. CASE Look(t)
    BY <2>9 DEF Look, Step, Goto, SampleInv, Place
  <2>10. CASE Disarm(t)
    BY <2>10 DEF Disarm, Step, Goto, SampleInv, Place
  <2>11. CASE stats_record(t)
    <3>1. /\ at[t] = "record"
          /\ samples' = [samples EXCEPT ![t] = @ + 1]
          /\ UNCHANGED <<armed, arms>>
      BY <2>11 DEF stats_record
    <3>2. PICK p \in {"done", "run"} : at' = [at EXCEPT ![t] = p]
      BY <2>11 DEF stats_record, Step, Goto
    <3> QED BY <3>1, <3>2 DEF SampleInv, Place
  <2>12. CASE (t = 0 /\ TaskTickLatency) \/ (t = 1 /\ TaskEventLatency)
    BY <2>3, <2>8, <2>9, <2>10, <2>11, <2>12
       DEF TaskTickLatency, TaskEventLatency, Measure
  <2> QED BY <1>2, <2>1, <2>2, <2>3, <2>4, <2>5, <2>6, <2>7, <2>12 DEF TaskStep
<1>3. ASSUME NEW t \in Task, Event(t)  PROVE SampleInv'
  BY <1>3 DEF Event, Arm, SampleInv
<1>4. CASE TIM2_IRQHandler \/ TIM3_IRQHandler
  <2>1. 0 \in Task /\ 1 \in Task
    BY KernelAssumption DEF Task
  <2> QED BY <1>3, <1>4, <2>1 DEF TIM2_IRQHandler, TIM3_IRQHandler
<1>5. CASE SysTick \/ HandlerGoesOn \/ PendSV
  BY <1>5, SampleUnchanged DEF SysTick, SysTick_Handler, HandlerGoesOn, TickWake,
     TickEnd, PendSV, PendSV_Handler
<1>6. CASE UNCHANGED allVars
  BY <1>6, SampleUnchanged DEF allVars, vars, portVars
<1> QED BY <1>1, <1>2, <1>4, <1>5, <1>6 DEF Next

(* The handlers of dwt_timing arm a measurement at any point of the task    *)
(* that takes it, and each is recorded once.                                *)
THEOREM EverySampleCounted == Spec => []SamplesExact
<1>1. SampleInv => SamplesExact
  BY DEF SampleInv, SamplesExact
<1> QED BY <1>1, SampleInit, SampleNext, PTL DEF Spec

-----------------------------------------------------------------------------
(* The ready queues as a set of waiting tasks.                              *)

(* The sizes of the arrays and the counters.                                *)
LEMMA Sizes ==
  /\ MaxTasks \in Nat /\ MaxTasks > 1
  /\ MaxPrio \in Nat /\ MaxPrio > 0
  /\ TickMod \in Nat \ {0} /\ TurnTicks \in Nat
<1>1. MaxTasks \in Nat \ {0, 1} /\ MaxPrio \in Nat \ {0} /\ TickMod \in Nat \ {0}
  BY KernelAssumption, Zenon
<1>2. TurnTicks \in Nat
  BY AppsAssumption, Zenon
<1> QED BY <1>1, <1>2

(* The tasks of a program leave the idle slot free.                         *)
LEMMA ProgramFits ==
  ASSUME app \in Apps
  PROVE  Len(app) \in Nat /\ Len(app) < MaxTasks
<1> DEFINE R == [prio : Prio, slice : Nat, op : {"sleep", "take", "spin"}, ms : Nat]
<1>1. app \in Seq(R) /\ Len(app) < MaxTasks
  BY ProgramsAssumption, Zenon
<1> HIDE DEF R
<1> QED BY <1>1

OfPrio(W, pr, p) == {t \in W : pr[t] = p}

(* The queues rq hold the tasks of W, each once, by their priority in pr.   *)
Hold(rq, W, pr) ==
  /\ \A p \in Prio : EachOnce(rq[p], OfPrio(W, pr, p))
  /\ \A t \in W : pr[t] \in Prio

(* rq_push of a task the queues do not hold is never dropped, and they hold *)
(* it afterwards.                                                           *)
LEMMA PushHolds ==
  ASSUME NEW rq \in QueuesOf(Task), NEW W \in SUBSET Task, NEW pr, Hold(rq, W, pr),
         NEW id \in Task \ W, pr[id] \in Prio
  PROVE  Hold(rq_push(rq, pr[id], id), W \cup {id}, pr)
<1> DEFINE p == pr[id]
           s == rq[p]
           r == rq_push(rq, p, id)
<1>1. p \in Prio /\ s \in Seq(Task) /\ EachOnce(s, OfPrio(W, pr, p))
  BY DEF QueuesOf, Hold
<1>2. id \notin OfPrio(W, pr, p)
  BY DEF OfPrio
<1>3. Len(s) < MaxTasks /\ Len(s) \in Nat
  <2>1. MaxTasks \in Nat
    BY Sizes
  <2> HIDE DEF s, p
  <2> QED BY <1>1, <1>2, <2>1, HasRoom DEF Task
<1>4. EachOnce(Append(s, id), OfPrio(W, pr, p) \cup {id})
  <2> HIDE DEF s, p
  <2> QED BY <1>1, <1>2, AppendWaits
<1>5. r = [rq EXCEPT ![p] = Append(s, id)]
  BY <1>1, <1>3, Sizes DEF rq_push
<1>6. OfPrio(W \cup {id}, pr, p) = OfPrio(W, pr, p) \cup {id}
  BY DEF OfPrio
<1>7. \A o \in Prio : o # p => OfPrio(W \cup {id}, pr, o) = OfPrio(W, pr, o)
  BY DEF OfPrio
<1>8. r[p] = Append(s, id) /\ \A o \in Prio : o # p => r[o] = rq[o]
  BY <1>1, <1>5 DEF QueuesOf
<1> HIDE DEF r, s, p
<1>9. ASSUME NEW o \in Prio  PROVE EachOnce(r[o], OfPrio(W \cup {id}, pr, o))
  <2>1. CASE o = p
    <3>1. r[o] = Append(s, id) /\ OfPrio(W \cup {id}, pr, o) = OfPrio(W, pr, p) \cup {id}
      BY <1>6, <1>8, <2>1, Zenon
    <3> QED BY <1>4, <3>1, Zenon
  <2>2. CASE o # p
    <3>1. r[o] = rq[o] /\ OfPrio(W \cup {id}, pr, o) = OfPrio(W, pr, o)
      BY <1>7, <1>8, <2>2, Zenon
    <3>2. EachOnce(rq[o], OfPrio(W, pr, o))
      BY DEF Hold
    <3> QED BY <3>1, <3>2, Zenon
  <2> QED BY <2>1, <2>2
<1>10. \A t \in W \cup {id} : pr[t] \in Prio
  BY DEF Hold
<1> QED BY <1>9, <1>10 DEF Hold, r, p

(* hrt__pick_next_ready finds a task exactly when the queues hold one; it   *)
(* is one of the highest priority among them, and then they hold the rest.  *)
LEMMA PickHolds ==
  ASSUME NEW rq \in QueuesOf(Task), NEW W \in SUBSET Task, NEW pr, Hold(rq, W, pr)
  PROVE  /\ W = {} => hrt__pick_next_ready(rq) = HRT_IDLE_ID /\ rq_pop(rq) = rq
         /\ W # {} =>
              /\ hrt__pick_next_ready(rq) \in W
              /\ \A u \in W : pr[hrt__pick_next_ready(rq)] <= pr[u]
              /\ Hold(rq_pop(rq), W \ {hrt__pick_next_ready(rq)}, pr)
<1> DEFINE r == rq_pop(rq)
           n == hrt__pick_next_ready(rq)
           p == TopPrio(rq)
           s == rq[p]
<1>1. \A o \in NonEmpty(rq) : Head(rq[o]) \in OfPrio(W, pr, o)
  <2> SUFFICES ASSUME NEW o \in Prio, rq[o] # <<>>
               PROVE  Head(rq[o]) \in OfPrio(W, pr, o)
    BY DEF NonEmpty
  <2>1. rq[o] \in Seq(Task) /\ EachOnce(rq[o], OfPrio(W, pr, o))
    BY DEF QueuesOf, Hold
  <2>2. Head(rq[o]) \in OfPrio(W, pr, o)
    BY <2>1, TailWaits, Zenon
  <2> QED BY <2>2
<1>2. \A u \in W : pr[u] \in NonEmpty(rq)
  <2> SUFFICES ASSUME NEW u \in W  PROVE pr[u] \in Prio /\ rq[pr[u]] # <<>>
    BY DEF NonEmpty
  <2>1. pr[u] \in Prio /\ EachOnce(rq[pr[u]], OfPrio(W, pr, pr[u]))
    BY DEF Hold
  <2>2. u \in OfPrio(W, pr, pr[u])
    BY DEF OfPrio
  <2>3. \E i \in 1 .. Len(rq[pr[u]]) : rq[pr[u]][i] = u
    BY <2>1, <2>2 DEF EachOnce
  <2> QED BY <2>1, <2>3
<1>3. ASSUME W = {}  PROVE n = HRT_IDLE_ID /\ r = rq
  <2>1. NonEmpty(rq) = {}
    BY <1>1, <1>3 DEF OfPrio
  <2> QED BY <2>1 DEF hrt__pick_next_ready, rq_pop
<1>4. ASSUME W # {}
      PROVE  /\ n \in W
             /\ \A u \in W : pr[n] <= pr[u]
             /\ Hold(r, W \ {n}, pr)
  <2>1. NonEmpty(rq) # {} /\ NonEmpty(rq) \in SUBSET Nat
    BY <1>2, <1>4, Sizes DEF NonEmpty, Prio
  <2>2. \E m \in NonEmpty(rq) : \A o \in NonEmpty(rq) : m <= o
    BY <2>1, LeastExists
  <2>3. p \in NonEmpty(rq) /\ \A o \in NonEmpty(rq) : p <= o
    BY <2>2 DEF TopPrio
  <2>4. /\ p \in Prio /\ s # <<>> /\ s \in Seq(Task)
        /\ EachOnce(s, OfPrio(W, pr, p))
    BY <2>3 DEF NonEmpty, QueuesOf, Hold
  <2>5. n = Head(s) /\ r = [rq EXCEPT ![p] = Tail(s)]
    BY <2>1 DEF hrt__pick_next_ready, rq_pop
  <2>6. n \in OfPrio(W, pr, p)
    BY <1>1, <2>3, <2>5
  <2>7. n \in W /\ pr[n] = p
    BY <2>6 DEF OfPrio
  <2>8. \A u \in W : pr[n] <= pr[u]
    BY <1>2, <2>3, <2>7
  <2>9. EachOnce(Tail(s), OfPrio(W, pr, p) \ {n})
    <3> HIDE DEF s, p, n
    <3> QED BY <2>4, <2>5, TailWaits
  <2>10. /\ OfPrio(W \ {n}, pr, p) = OfPrio(W, pr, p) \ {n}
         /\ \A o \in Prio : o # p => OfPrio(W \ {n}, pr, o) = OfPrio(W, pr, o)
    <3> HIDE DEF p, n
    <3> QED BY <2>7 DEF OfPrio
  <2>11. r[p] = Tail(s) /\ \A o \in Prio : o # p => r[o] = rq[o]
    BY <2>4, <2>5 DEF QueuesOf
  <2> HIDE DEF r, n, p, s
  <2>12. ASSUME NEW o \in Prio  PROVE EachOnce(r[o], OfPrio(W \ {n}, pr, o))
    <3>1. CASE o = p
      <4>1. r[o] = Tail(s) /\ OfPrio(W \ {n}, pr, o) = OfPrio(W, pr, p) \ {n}
        BY <2>10, <2>11, <3>1, Zenon
      <4> QED BY <2>9, <4>1, Zenon
    <3>2. CASE o # p
      <4>1. r[o] = rq[o] /\ OfPrio(W \ {n}, pr, o) = OfPrio(W, pr, o)
        BY <2>10, <2>11, <3>2, Zenon
      <4>2. EachOnce(rq[o], OfPrio(W, pr, o))
        BY DEF Hold
      <4> QED BY <4>1, <4>2, Zenon
    <3> QED BY <3>1, <3>2
  <2>13. Hold(r, W \ {n}, pr)
    BY <2>12 DEF Hold
  <2> QED BY <2>7, <2>8, <2>13
<1> QED BY <1>3, <1>4
=============================================================================
