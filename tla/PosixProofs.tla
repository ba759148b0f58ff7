---------------------------- MODULE PosixProofs ----------------------------
(***************************************************************************)
(* Theorems about the kernel on the POSIX port, for every number of tasks, *)
(* priorities and ticks: its invariants, the length of sleeps, and that it *)
(* implements Sched.                                                       *)
(***************************************************************************)
EXTENDS PosixPort, QueueProofs

(* The operators of Kernel: the slot hrt_create_task finds, and what        *)
(* rq_push, hrt__pick_next_ready and rq_pop do to ready queues that hold a  *)
(* given set of tasks, each once.                                           *)

(* hrt_create_task finds the least free slot.                               *)
LEMMA FirstFree ==
  ASSUME KernelTypeOK, FreeSlots # {},
         NEW id, id = (CHOOSE t \in FreeSlots : \A u \in FreeSlots : t <= u)
  PROVE  /\ id \in Task
         /\ state[id] = "UNUSED"
         /\ \A u \in Task : state[u] = "UNUSED" => id <= u
<1>1. FreeSlots \in SUBSET Nat
  BY KernelAssumption DEF FreeSlots, Task
<1>2. \E m \in FreeSlots : \A n \in FreeSlots : m <= n
  BY <1>1, LeastExists
<1>3. id \in FreeSlots /\ \A u \in FreeSlots : id <= u
  BY <1>2
<1> QED BY <1>3 DEF FreeSlots

-----------------------------------------------------------------------------

Queues == [Prio -> Seq(Task)]

(* rq_push and rq_pop keep the queues sequences of task ids, whatever the   *)
(* priority and the task.                                                   *)
LEMMA PushType ==
  ASSUME NEW rq \in Queues, NEW p, NEW id \in Task, g_error \in Error
  PROVE  rq_push(rq, p, id) \in Queues /\ rq_push_error(rq, p) \in Error
<1>1. CASE p \in Prio
  <2>1. rq[p] \in Seq(Task)
    BY <1>1 DEF Queues
  <2>2. Append(rq[p], id) \in Seq(Task)
    BY <2>1
  <2> QED BY <2>2 DEF Queues, rq_push, rq_push_error, Error
<1>2. CASE p \notin Prio
  BY <1>2 DEF rq_push, rq_push_error, Error
<1> QED BY <1>1, <1>2

(* hrt__pick_next_ready answers a task id, and rq_pop leaves queues of ids. *)
LEMMA PickType ==
  ASSUME NEW rq \in Queues
  PROVE  rq_pop(rq) \in Queues /\ hrt__pick_next_ready(rq) \in Task
<1>1. CASE NonEmpty(rq) = {}
  BY <1>1, KernelAssumption DEF rq_pop, hrt__pick_next_ready, HRT_IDLE_ID, Task
<1>2. CASE NonEmpty(rq) # {}
  <2>1. NonEmpty(rq) \in SUBSET Nat
    BY KernelAssumption DEF NonEmpty, Prio
  <2>2. \E m \in NonEmpty(rq) : \A o \in NonEmpty(rq) : m <= o
    BY <1>2, <2>1, LeastExists
  <2>3. TopPrio(rq) \in NonEmpty(rq)
    BY <2>2 DEF TopPrio
  <2>4. /\ TopPrio(rq) \in Prio
        /\ rq[TopPrio(rq)] \in Seq(Task)
        /\ rq[TopPrio(rq)] # <<>>
    BY <2>3 DEF NonEmpty, Queues
  <2>5. Head(rq[TopPrio(rq)]) \in Task /\ Tail(rq[TopPrio(rq)]) \in Seq(Task)
    BY <2>4
  <2> QED BY <1>2, <2>4, <2>5 DEF Queues, rq_pop, hrt__pick_next_ready
<1> QED BY <1>1, <1>2

(* The queues rq hold the tasks of W, each once, in the queue of its        *)
(* priority in pr.                                                          *)
Hold(rq, W, pr) ==
  /\ \A p \in Prio : \A i \in 1 .. Len(rq[p]) :
       /\ rq[p][i] \in W
       /\ pr[rq[p][i]] = p
       /\ \A j \in 1 .. Len(rq[p]) : rq[p][i] = rq[p][j] => i = j
  /\ \A t \in W :
       /\ pr[t] \in Prio
       /\ \E i \in 1 .. Len(rq[pr[t]]) : rq[pr[t]][i] = t

(* A queue of distinct tasks that lacks one of them has room for it.        *)
LEMMA RoomForOneMore ==
  ASSUME NEW s \in Seq(Task), NEW id \in Task,
         \A i \in 1 .. Len(s) : s[i] # id,
         \A i, j \in 1 .. Len(s) : s[i] = s[j] => i = j
  PROVE  Len(s) < MaxTasks
<1>1. MaxTasks \in Nat \ {0}
  BY KernelAssumption
<1>2. Len(s) \in Nat
  OBVIOUS
<1>3. IsFiniteSet(Task) /\ Cardinality(Task) = MaxTasks
  BY <1>1, FS_Interval DEF Task
<1>4. IsFiniteSet(Task \ {id}) /\ Cardinality(Task \ {id}) = MaxTasks - 1
  BY <1>3, FS_RemoveElement
<1>5. s \in Injection(1 .. Len(s), Task \ {id})
  <2>1. s \in [1 .. Len(s) -> Task]
    OBVIOUS
  <2>2. s \in [1 .. Len(s) -> Task \ {id}]
    BY <2>1
  <2> QED BY <2>2 DEF Injection, IsInjective
<1>6. Cardinality(1 .. Len(s)) <= MaxTasks - 1
  BY <1>4, <1>5, FS_Injection
<1>7. Cardinality(1 .. Len(s)) = IF 1 > Len(s) THEN 0 ELSE Len(s) - 1 + 1
  BY <1>2, 1 \in Int, Len(s) \in Int, FS_Interval
<1> QED BY <1>1, <1>2, <1>6, <1>7

(* rq_push of a task the queues do not hold is never dropped, and they hold *)
(* it afterwards.                                                           *)
LEMMA PushHolds ==
  ASSUME NEW rq \in Queues, NEW W \in SUBSET Task, NEW pr, Hold(rq, W, pr),
         NEW id \in Task \ W, pr[id] \in Prio
  PROVE  /\ rq_push(rq, pr[id], id) \in Queues
         /\ Hold(rq_push(rq, pr[id], id), W \cup {id}, pr)
         /\ rq_push_error(rq, pr[id]) = g_error
<1> DEFINE p == pr[id]
           s == rq[p]
           r == rq_push(rq, p, id)
<1>1. p \in Prio /\ s \in Seq(Task) /\ Len(s) \in Nat
  BY DEF Queues
<1>2. Len(s) < MaxTasks
  <2>1. \A i \in 1 .. Len(s) : s[i] # id
    BY <1>1 DEF Hold
  <2>2. \A i, j \in 1 .. Len(s) : s[i] = s[j] => i = j
    BY <1>1 DEF Hold
  <2> HIDE DEF s
  <2> QED BY <1>1, <2>1, <2>2, RoomForOneMore
<1>3. r = [rq EXCEPT ![p] = Append(s, id)] /\ rq_push_error(rq, p) = g_error
  BY <1>1, <1>2, KernelAssumption DEF rq_push, rq_push_error
<1>4. r \in Queues
  BY <1>1, <1>3 DEF Queues
<1>5. /\ \A o \in Prio : o # p => r[o] = rq[o]
      /\ Len(r[p]) = Len(s) + 1
      /\ r[p][Len(s) + 1] = id
      /\ \A i \in 1 .. Len(s) : r[p][i] = s[i]
  BY <1>1, <1>3 DEF Queues
<1>6. \A o \in Prio : \A i \in 1 .. Len(rq[o]) :
        /\ i \in 1 .. Len(r[o])
        /\ r[o][i] = rq[o][i]
  BY <1>1, <1>5
<1>7. ASSUME NEW o \in Prio, NEW i \in 1 .. Len(r[o])
      PROVE  i \in 1 .. Len(rq[o]) \/ (o = p /\ i = Len(s) + 1)
  BY <1>1, <1>5
<1> HIDE DEF r, s, p
<1>8. ASSUME NEW o \in Prio, NEW i \in 1 .. Len(r[o])
      PROVE  /\ r[o][i] \in W \cup {id}
             /\ pr[r[o][i]] = o
             /\ \A j \in 1 .. Len(r[o]) : r[o][i] = r[o][j] => i = j
  <2>1. p = pr[id]
    BY DEF p
  <2>2. \A k \in 1 .. Len(rq[o]) : /\ rq[o][k] \in W /\ pr[rq[o][k]] = o
                                   /\ \A j \in 1 .. Len(rq[o]) : rq[o][k] = rq[o][j] => k = j
    BY DEF Hold
  <2> QED BY <1>5, <1>6, <1>7, <2>1, <2>2
<1>9. ASSUME NEW t \in W \cup {id}
      PROVE  pr[t] \in Prio /\ \E i \in 1 .. Len(r[pr[t]]) : r[pr[t]][i] = t
  <2>1. CASE t \in W
    <3>1. pr[t] \in Prio /\ \E i \in 1 .. Len(rq[pr[t]]) : rq[pr[t]][i] = t
      BY <2>1 DEF Hold
    <3> QED BY <3>1, <1>6
  <2>2. CASE t = id
    <3>1. p = pr[t] /\ Len(s) + 1 \in 1 .. Len(r[p])
      BY <2>2, <1>1, <1>5 DEF p
    <3> QED BY <2>2, <3>1, <1>1, <1>5
  <2> QED BY <2>1, <2>2
<1>10. Hold(r, W \cup {id}, pr)
  BY <1>8, <1>9 DEF Hold
<1> QED BY <1>3, <1>4, <1>10 DEF r, p

(* hrt__pick_next_ready finds a task exactly when the queues hold one; it   *)
(* is one of the highest priority among them, and then they hold the rest.  *)
LEMMA PickHolds ==
  ASSUME NEW rq \in Queues, NEW W \in SUBSET Task, NEW pr, Hold(rq, W, pr)
  PROVE  /\ rq_pop(rq) \in Queues
         /\ W = {} => hrt__pick_next_ready(rq) = HRT_IDLE_ID /\ rq_pop(rq) = rq
         /\ W # {} =>
              /\ hrt__pick_next_ready(rq) \in W
              /\ \A u \in W : pr[hrt__pick_next_ready(rq)] <= pr[u]
              /\ Hold(rq_pop(rq), W \ {hrt__pick_next_ready(rq)}, pr)
<1> DEFINE r == rq_pop(rq)
           n == hrt__pick_next_ready(rq)
           p == TopPrio(rq)
<1>1. ASSUME W = {}  PROVE  n = HRT_IDLE_ID /\ r = rq
  <2>1. \A o \in Prio : Len(rq[o]) = 0
    <3> SUFFICES ASSUME NEW o \in Prio, Len(rq[o]) # 0  PROVE FALSE
      OBVIOUS
    <3>1. 1 \in 1 .. Len(rq[o])
      BY DEF Queues
    <3> QED BY <3>1, <1>1 DEF Hold
  <2>2. \A o \in Prio : rq[o] = <<>>
    BY <2>1 DEF Queues
  <2>3. NonEmpty(rq) = {}
    BY <2>2 DEF NonEmpty
  <2> QED BY <2>3 DEF hrt__pick_next_ready, rq_pop
<1>2. ASSUME NonEmpty(rq) # {}
      PROVE  /\ p \in Prio /\ rq[p] # <<>> /\ \A o \in NonEmpty(rq) : p <= o
             /\ n = Head(rq[p]) /\ r = [rq EXCEPT ![p] = Tail(@)]
  <2>1. NonEmpty(rq) \in SUBSET Nat
    BY KernelAssumption DEF NonEmpty, Prio
  <2>2. \E m \in NonEmpty(rq) : \A o \in NonEmpty(rq) : m <= o
    BY <1>2, <2>1, LeastExists
  <2>3. p \in NonEmpty(rq) /\ \A o \in NonEmpty(rq) : p <= o
    BY <2>2 DEF TopPrio
  <2> QED BY <2>3, <1>2 DEF NonEmpty, hrt__pick_next_ready, rq_pop
<1>3. r \in Queues
  BY <1>2 DEF Queues, rq_pop
<1>4. ASSUME W # {}
      PROVE  /\ n \in W
             /\ \A u \in W : pr[n] <= pr[u]
             /\ Hold(r, W \ {n}, pr)
  <2>1. \A u \in W : pr[u] \in NonEmpty(rq)
    <3> SUFFICES ASSUME NEW u \in W  PROVE pr[u] \in Prio /\ rq[pr[u]] # <<>>
      BY DEF NonEmpty
    <3>1. pr[u] \in Prio /\ \E i \in 1 .. Len(rq[pr[u]]) : rq[pr[u]][i] = u
      BY DEF Hold
    <3> QED BY <3>1
  <2> DEFINE s == rq[p]
  <2>2. /\ p \in Prio /\ s # <<>> /\ \A o \in NonEmpty(rq) : p <= o
        /\ n = Head(s) /\ r = [rq EXCEPT ![p] = Tail(s)]
    BY <1>2, <1>4, <2>1
  <2>3. s \in Seq(Task) /\ Len(s) \in Nat /\ Len(s) > 0 /\ n = s[1]
    BY <2>2 DEF Queues
  <2>4. 1 \in 1 .. Len(s)
    BY <2>3
  <2>5. n \in W /\ pr[n] = p /\ \A j \in 1 .. Len(s) : n = s[j] => j = 1
    BY <2>2, <2>3, <2>4 DEF Hold
  <2>6. \A u \in W : pr[n] <= pr[u]
    BY <2>1, <2>2, <2>5
  <2>7. /\ \A o \in Prio : o # p => r[o] = rq[o]
        /\ Len(r[p]) = Len(s) - 1
        /\ \A i \in 1 .. (Len(s) - 1) : r[p][i] = s[i + 1]
    BY <2>2, <2>3 DEF Queues
  <2> HIDE DEF r, n, p
  <2>8. ASSUME NEW o \in Prio, NEW i \in 1 .. Len(r[o])
        PROVE  /\ r[o][i] \in W \ {n}
               /\ pr[r[o][i]] = o
               /\ \A j \in 1 .. Len(r[o]) : r[o][i] = r[o][j] => i = j
    <3>1. CASE o = p
      <4>1. \A k \in 1 .. Len(r[o]) : k + 1 \in 1 .. Len(s) /\ r[o][k] = s[k + 1] /\ k + 1 # 1
        BY <3>1, <2>3, <2>7
      <4>2. /\ s[i + 1] \in W /\ pr[s[i + 1]] = p
            /\ \A j \in 1 .. Len(s) : s[i + 1] = s[j] => i + 1 = j
        BY <4>1, <2>2 DEF Hold
      <4>3. ASSUME NEW j \in 1 .. Len(r[o]), r[o][i] = r[o][j]  PROVE i = j
        <5>1. i + 1 = j + 1
          BY <4>1, <4>2, <4>3
        <5> QED BY <5>1
      <4>4. s[i + 1] # n
        BY <4>1, <2>5
      <4> QED BY <3>1, <4>1, <4>2, <4>3, <4>4
    <3>2. CASE o # p
      <4>1. r[o] = rq[o]
        BY <3>2, <2>7
      <4> QED BY <3>2, <4>1, <2>5 DEF Hold
    <3> QED BY <3>1, <3>2
  <2>9. ASSUME NEW t \in W \ {n}
        PROVE  pr[t] \in Prio /\ \E i \in 1 .. Len(r[pr[t]]) : r[pr[t]][i] = t
    <3>1. PICK k \in 1 .. Len(rq[pr[t]]) : rq[pr[t]][k] = t
      BY DEF Hold
    <3>2. pr[t] \in Prio
      BY DEF Hold
    <3>3. CASE pr[t] = p
      <4>1. k # 1
        BY <3>1, <3>3, <2>3
      <4>2. k - 1 \in 1 .. Len(r[p]) /\ r[p][k - 1] = t
        BY <3>1, <3>3, <4>1, <2>3, <2>7
      <4> QED BY <3>2, <3>3, <4>2
    <3>4. CASE pr[t] # p
      BY <3>1, <3>2, <3>4, <2>7
    <3> QED BY <3>3, <3>4
  <2>10. Hold(r, W \ {n}, pr)
    BY <2>8, <2>9 DEF Hold
  <2> QED BY <2>5, <2>6, <2>10
<1> QED BY <1>1, <1>3, <1>4

-----------------------------------------------------------------------------
(* The port.                                                                *)

TypeInv == TypeOK /\ OwnerKnown

(* hrt_init establishes the types.                                          *)
LEMMA TypeInit == Init => TypeInv
<1> USE KernelAssumption
<1> SUFFICES ASSUME Init  PROVE TypeInv
  OBVIOUS
<1>1. KernelTypeOK
  BY DEF Init, hrt_init, KernelTypeOK, State, Error, NoTask
<1> QED BY <1>1, Zenon DEF Init, hrt_init, TypeInv, TypeOK, OwnerKnown, NoIsr

(* Every step of the kernel and of the port keeps the types.                *)
LEMMA TypeNext == TypeInv /\ [Next]_vars => TypeInv'
<1> SUFFICES ASSUME TypeInv, [Next]_vars  PROVE TypeInv'
  OBVIOUS
<1> USE DEF TypeInv, TypeOK, KernelTypeOK, OwnerKnown
<1>0. g_rq \in Queues /\ MaxTasks \in Nat \ {0, 1} /\ TickMod \in Nat \ {0}
  BY KernelAssumption DEF Queues
<1>1. ASSUME NEW p \in Nat, NEW slice \in Nat, hrt_create_task(p, slice)
      PROVE  KernelTypeOK' /\ g_current' = g_current
  <2> DEFINE id == CHOOSE t \in FreeSlots : \A u \in FreeSlots : t <= u
  <2>1. id \in Task
    BY <1>1, FirstFree DEF hrt_create_task
  <2> HIDE DEF id
  <2>2. rq_push(g_rq, p, id) \in Queues /\ rq_push_error(g_rq, p) \in Error
    BY <1>0, <2>1, PushType, Zenon
  <2>3. /\ state' = [state EXCEPT ![id] = "READY"]
        /\ prio' = [prio EXCEPT ![id] = p]
        /\ timeslice_cfg' = [timeslice_cfg EXCEPT ![id] = slice]
        /\ slice_left' = [slice_left EXCEPT ![id] = slice]
        /\ wake_tick' = [wake_tick EXCEPT ![id] = 0]
        /\ to_sleep' = [to_sleep EXCEPT ![id] = 0]
        /\ g_rq' = rq_push(g_rq, p, id)
        /\ g_error' = rq_push_error(g_rq, p)
        /\ UNCHANGED <<g_tick, g_current, cfgVars>>
    BY <1>1 DEF hrt_create_task, id
  <2> QED BY <1>0, <2>1, <2>2, <2>3 DEF State, Queues, cfgVars
<1>2. CASE CreateTask
  <2>1. PICK p \in Nat, slice \in Nat : hrt_create_task(p, slice)
    BY <1>2, KernelAssumption DEF CreateTask
  <2> QED BY <1>1, <1>2, <2>1, Zenon DEF CreateTask, portVars
<1>3. CASE CreateTaskFails
  BY <1>3 DEF CreateTaskFails, hrt_create_task_fails, portVars, tcbVars, cfgVars, Error
<1>4. CASE SetPolicy
  BY <1>4, KernelAssumption DEF SetPolicy, hrt_set_policy, portVars, tcbVars
<1>5. CASE SetDefaultTimeslice
  BY <1>5, KernelAssumption
  DEF SetDefaultTimeslice, hrt_set_default_timeslice, portVars, tcbVars
<1>6. CASE hrt_start
  BY <1>6 DEF hrt_start, Goto, kernelVars, tcbVars, cfgVars
<1>7. CASE hrt_yield
  BY <1>7, Zenon DEF hrt_yield, Goto, At, cfgVars
<1>8. CASE YieldPush
  <2>1. rq_push(g_rq, prio[g_current], g_current) \in Queues
        /\ rq_push_error(g_rq, prio[g_current]) \in Error
    BY <1>0, <1>8, PushType DEF YieldPush, At
  <2> QED BY <1>8, <2>1 DEF YieldPush, At, Goto, tcbVars, cfgVars, Queues
<1>9. CASE Sleep
  <2>1. PICK k \in SleepTicks : hrt_sleep(k)
    BY <1>9 DEF Sleep
  <2>2. k \in Nat /\ (g_tick + k) % TickMod \in 0 .. (TickMod - 1)
    BY <1>0, KernelAssumption
  <2> QED BY <2>1, <2>2 DEF hrt_sleep, At, Goto, cfgVars
<1>10. ASSUME NEW s \in State, At("run") \/ At("arm"), LeaveAs(s)
       PROVE  TypeInv'
  BY <1>10 DEF LeaveAs, At, Goto, cfgVars
<1>11. CASE SleepCommit \/ hrt_task_delete \/ Block
  BY <1>10, <1>11, Zenon DEF SleepCommit, hrt_task_delete, Block, State
<1>12. ASSUME NEW w \in Task, hrt__make_ready(w)
       PROVE  /\ state' \in [Task -> State]
              /\ slice_left' \in [Task -> Nat]
              /\ g_rq' \in [Prio -> Seq(Task)]
              /\ g_error' \in Error
  <2>1. rq_push(g_rq, prio[w], w) \in Queues
        /\ rq_push_error(g_rq, prio[w]) \in Error
    BY <1>0, PushType, Zenon
  <2> QED BY <1>12, <2>1 DEF hrt__make_ready, State, Queues
<1>13. CASE Wake
  <2>1. PICK w \in Task : WakeWaiter(w)
    BY <1>13 DEF Wake
  <2> QED BY <2>1, <1>12, Zenon DEF WakeWaiter, At, Goto, cfgVars
<1>14. CASE EnterScheduler
  <2>1. rq_push(g_rq, prio[g_current], g_current) \in Queues
        /\ rq_push_error(g_rq, prio[g_current]) \in Error
    BY <1>0, <1>14, PushType, Zenon DEF EnterScheduler, At
  <2> QED BY <1>14, <2>1, Zenon
          DEF EnterScheduler, hrt__on_scheduler_entry, At, Goto, cfgVars, Queues
<1>15. CASE IdleWait \/ UNCHANGED vars
  BY <1>15 DEF IdleWait, vars, kernelVars, portVars, tcbVars, cfgVars
<1>16. CASE ClaimSwitch
  BY <1>16, Zenon DEF ClaimSwitch, Goto, kernelVars, tcbVars, cfgVars
<1>17. CASE Dispatch
  <2>1. rq_pop(g_rq) \in Queues /\ hrt__pick_next_ready(g_rq) \in Task
    BY <1>0, PickType
  <2> QED BY <1>17, <2>1, Zenon DEF Dispatch, Goto, At, tcbVars, cfgVars, Queues
<1>18. CASE Tick
  <2>1. (g_tick + 1) % TickMod \in 0 .. (TickMod - 1)
    BY <1>0
  <2>2. to_sleep' \in [Task -> Nat]
    BY <1>18 DEF Tick
  <2>3. g_tick' \in 0 .. (TickMod - 1)
    BY <1>18, <2>1 DEF Tick, hrt__inc_tick
  <2>4. isr' = 0 /\ triggerPendSV' = FALSE /\ 0 \in 0 .. MaxTasks
    BY <1>0, <1>18 DEF Tick
  <2>5. UNCHANGED <<tcbVars, g_rq, g_current, cfgVars, g_error, pc, g_switch_pending>>
    BY <1>18 DEF Tick
  <2> QED BY <2>2, <2>3, <2>4, <2>5, Zenon DEF tcbVars, cfgVars
<1>19. CASE TickWake
  <2>1. isr + 1 \in 0 .. MaxTasks
    BY <1>0, <1>19 DEF TickWake, Task
  <2> QED BY <1>12, <1>19, <2>1, Zenon DEF TickWake, cfgVars
<1>20. CASE TickEnd
  <2>1. slice_left' \in [Task -> Nat]
    BY <1>20 DEF TickEnd, tick_charge, Charged
  <2>2. g_error' \in Error
    BY <1>20 DEF TickEnd, tick_error, Error
  <2>3. g_switch_pending' \in BOOLEAN
    BY <1>20 DEF TickEnd
  <2> QED BY <1>20, <2>1, <2>2, <2>3 DEF TickEnd, cfgVars
<1> QED
  BY Zenon, <1>2, <1>3, <1>4, <1>5, <1>6, <1>7, <1>8, <1>9, <1>11, <1>13, <1>14,
     <1>15, <1>16, <1>17, <1>18, <1>19, <1>20 DEF Next

(* Type correctness: in every behaviour of the kernel on this port the TCB  *)
(* fields, the queues and the port's flags keep their ranges; the quantum   *)
(* that hrt__tick_isr charges never goes below zero.                        *)
THEOREM TypeCorrect == Spec => []TypeOK
<1>1. TypeInv => TypeOK
  BY DEF TypeInv
<1> QED BY <1>1, TypeInit, TypeNext, PTL DEF Spec

-----------------------------------------------------------------------------
(* The configurations the remaining theorems are about: the application     *)
(* leaves the idle slot alone, and tasks are created with priorities that   *)
(* exist.                                                                   *)
Configured ==
  /\ CfgMaxTasks < MaxTasks
  /\ \A a \in Attrs : a.prio \in Prio
  /\ NullAttr => MaxPrio > 1

(* hrt_init establishes the invariant: no task, empty queues.               *)
LEMMA InvInit == Init => Inv
<1> SUFFICES ASSUME Init  PROVE Inv
  OBVIOUS
<1>1. TypeInv
  BY TypeInit
<1>2. HRT_IDLE_ID \in Task
  BY KernelAssumption DEF HRT_IDLE_ID, Task
<1>3. Waiting = {} /\ \A p \in Prio : Len(g_rq[p]) = 0
  BY DEF Init, hrt_init, Waiting
<1>4. OnReadyQueue
  BY <1>3 DEF OnReadyQueue
<1>5. RunsOnlyReady /\ QuantumLeft /\ TickInCaller
  BY DEF RunsOnlyReady, QuantumLeft, TickInCaller, Holds, Init
<1> QED BY <1>1, <1>2, <1>4, <1>5 DEF Inv, TypeInv, Init, hrt_init

(* The idle slot is never the one hrt_create_task finds.                    *)
LEMMA CreateLeavesIdle ==
  ASSUME Configured, Inv, MayCreate,
         NEW id, id = (CHOOSE t \in FreeSlots : \A u \in FreeSlots : t <= u)
  PROVE  id \in Task /\ state[id] = "UNUSED" /\ id # HRT_IDLE_ID
<1>1. PICK u \in 0 .. (CfgMaxTasks - 1) : state[u] = "UNUSED"
  BY DEF MayCreate
<1>2. u \in Task /\ u < HRT_IDLE_ID /\ u \in Nat /\ HRT_IDLE_ID \in Nat
  BY KernelAssumption DEF Configured, Task, HRT_IDLE_ID
<1>3. FreeSlots # {}
  BY <1>1, <1>2 DEF FreeSlots
<1>4. id \in Task /\ state[id] = "UNUSED" /\ id <= u
  BY <1>1, <1>2, <1>3, FirstFree DEF Inv, TypeOK
<1>5. \A n \in Task : n <= u => n # HRT_IDLE_ID
  BY <1>2, KernelAssumption DEF Task
<1> QED BY <1>4, <1>5, Zenon

(* The queues stay correct when neither they, nor the priorities, nor the   *)
(* set of waiting tasks change.                                             *)
LEMMA QueueUnchanged ==
  ASSUME OnReadyQueue, Waiting' = Waiting, g_rq' = g_rq, prio' = prio
  PROVE  OnReadyQueue'
BY DEF OnReadyQueue

(* A step that changes neither states, nor priorities, nor queues.          *)
LEMMA InvUnchanged ==
  ASSUME Inv, TypeInv', UNCHANGED <<state, prio, g_rq>>,
         Waiting' = Waiting, RunsOnlyReady', QuantumLeft', TickInCaller'
  PROVE  Inv'
<1>1. OnReadyQueue'
  <2>1. OnReadyQueue
    BY DEF Inv
  <2> QED BY <2>1, QueueUnchanged
<1> QED BY <1>1 DEF Inv, TypeInv

(* A task that was not waiting for the processor starts to: it is pushed.   *)
LEMMA InvPush ==
  ASSUME Inv, TypeInv', NEW id \in Task \ Waiting, prio'[id] \in Prio,
         \A t \in Waiting : prio'[t] = prio[t],
         Waiting' = Waiting \cup {id},
         g_rq' = rq_push(g_rq, prio'[id], id)
  PROVE  OnReadyQueue' /\ rq_push_error(g_rq, prio'[id]) = g_error
<1>1. Hold(g_rq, Waiting, prio')
  <2>1. OnReadyQueue
    BY DEF Inv
  <2>2. /\ \A p \in Prio : \A i \in 1 .. Len(g_rq[p]) :
             /\ g_rq[p][i] \in Waiting
             /\ \A j \in 1 .. Len(g_rq[p]) : g_rq[p][i] = g_rq[p][j] => i = j
        /\ \A t \in Waiting : prio'[t] = prio[t]
    BY <2>1, ZenonT(30) DEF OnReadyQueue
  <2>3. \A p \in Prio : \A i \in 1 .. Len(g_rq[p]) : prio'[g_rq[p][i]] = p
    <3>1. \A p \in Prio : \A i \in 1 .. Len(g_rq[p]) : prio[g_rq[p][i]] = p
      BY <2>1, ZenonT(30) DEF OnReadyQueue
    <3> QED BY <2>2, <3>1
  <2>4. ASSUME NEW t \in Waiting
        PROVE  /\ prio'[t] \in Prio
               /\ \E i \in 1 .. Len(g_rq[prio'[t]]) : g_rq[prio'[t]][i] = t
    <3>1. prio'[t] = prio[t]
      BY <2>2
    <3>2. /\ prio[t] \in Prio
          /\ \E i \in 1 .. Len(g_rq[prio[t]]) : g_rq[prio[t]][i] = t
      BY <2>1, ZenonT(30) DEF OnReadyQueue
    <3> QED BY <3>1, <3>2, Zenon
  <2> QED BY <2>2, <2>3, <2>4, Zenon DEF Hold
<1>2. Waiting \in SUBSET Task /\ g_rq \in Queues
  BY DEF Waiting, Inv, TypeOK, KernelTypeOK, Queues
<1>3. /\ Hold(g_rq', Waiting', prio')
      /\ rq_push_error(g_rq, prio'[id]) = g_error
  BY <1>1, <1>2, PushHolds
<1>4. OnReadyQueue'
  BY <1>3 DEF Hold, OnReadyQueue
<1> QED BY <1>3, <1>4

(* Every step of the kernel and of the port keeps the invariant, one case   *)
(* per action.                                                              *)
LEMMA InvNext ==
  ASSUME Configured, Inv, QuantumCoversHop, [Next]_vars
  PROVE  Inv'
<1>1. TypeInv /\ TypeInv'
  BY TypeNext DEF Inv, TypeInv
<1>2. /\ HRT_IDLE_ID \in Task
      /\ \A t \in Task : t # NoTask
      /\ \A t \in Task : t # NoIsr
      /\ MaxTasks # NoIsr
  BY KernelAssumption DEF HRT_IDLE_ID, Task, NoTask, NoIsr
<1>3. CASE CreateTask
  <2>1. PICK p \in Prio, slice \in Nat : hrt_create_task(p, slice)
    <3>1. NullAttr => 1 \in Prio
      BY KernelAssumption DEF Configured, Prio
    <3>2. \A a \in Attrs : a.prio \in Prio /\ a.slice \in Nat
      BY KernelAssumption DEF Configured
    <3> QED BY <1>1, <1>3, <3>1, <3>2, Zenon DEF CreateTask, TypeInv, TypeOK, KernelTypeOK
  <2> DEFINE id == CHOOSE t \in FreeSlots : \A u \in FreeSlots : t <= u
  <2>2. id \in Task /\ state[id] = "UNUSED" /\ id # HRT_IDLE_ID
    BY <1>3, CreateLeavesIdle DEF CreateTask
  <2> HIDE DEF id
  <2>3. /\ state' = [state EXCEPT ![id] = "READY"]
        /\ prio' = [prio EXCEPT ![id] = p]
        /\ g_rq' = rq_push(g_rq, p, id)
        /\ UNCHANGED <<g_current, pc, isr>>
        /\ pc \in {"main", "run"}
    BY <1>3, <2>1 DEF hrt_create_task, id, CreateTask, portVars, At
  <2>4. /\ state'[id] = "READY" /\ prio'[id] = p
        /\ \A t \in Task : t # id => state'[t] = state[t] /\ prio'[t] = prio[t]
    BY <1>1, <2>2, <2>3 DEF TypeInv, TypeOK, KernelTypeOK
  <2>5. id \notin Waiting /\ ~ Holds(id)
    BY <2>2 DEF Waiting, Inv, RunsOnlyReady
  <2>6. Waiting' = Waiting \cup {id}
    BY <2>2, <2>3, <2>4, <2>5 DEF Waiting, Holds
  <2>7. OnReadyQueue'
    <3>1. \A t \in Waiting : t \in Task /\ t # id
      BY <2>5 DEF Waiting
    <3> QED BY <1>1, <2>2, <2>3, <2>4, <2>5, <2>6, <3>1, InvPush
  <2>8. RunsOnlyReady' /\ QuantumLeft' /\ TickInCaller'
    BY <2>3, <2>4, <2>5 DEF RunsOnlyReady, QuantumLeft, TickInCaller, Holds, Inv
  <2> QED BY <1>1, <1>2, <2>2, <2>3, <2>4, <2>7, <2>8 DEF Inv, TypeInv
<1>4. CASE CreateTaskFails \/ SetPolicy \/ SetDefaultTimeslice \/ UNCHANGED vars \/ IdleWait
  <2>1. UNCHANGED <<tcbVars, g_rq, g_current, portVars>>
    BY <1>4 DEF CreateTaskFails, SetPolicy, SetDefaultTimeslice, IdleWait, vars,
                hrt_create_task_fails, hrt_set_policy, hrt_set_default_timeslice, kernelVars
  <2>2. Waiting' = Waiting /\ RunsOnlyReady' /\ QuantumLeft' /\ TickInCaller'
    BY <2>1 DEF tcbVars, portVars, Waiting, RunsOnlyReady, QuantumLeft, TickInCaller,
                Holds, Inv
  <2> QED BY <1>1, <2>1, <2>2, InvUnchanged DEF tcbVars
<1>5. CASE hrt_start \/ ClaimSwitch
  <2>1. /\ UNCHANGED <<tcbVars, g_rq, g_current, isr>>
        /\ pc \in {"main", "loop"} /\ pc' \in {"loop", "pick"} /\ isr = NoIsr
    BY <1>5 DEF hrt_start, ClaimSwitch, At, Goto, kernelVars
  <2>2. Waiting' = Waiting /\ RunsOnlyReady' /\ QuantumLeft' /\ TickInCaller'
    BY <2>1 DEF tcbVars, Waiting, RunsOnlyReady, QuantumLeft, TickInCaller, Holds
  <2> QED BY <1>1, <2>1, <2>2, InvUnchanged DEF tcbVars
<1>6. CASE hrt_yield
  <2>1. state[g_current] = "READY" /\ g_current \in Task
    BY <1>1, <1>6 DEF hrt_yield, At, Inv, RunsOnlyReady, Holds, TypeInv, OwnerKnown
  <2>2. /\ slice_left' = [slice_left EXCEPT ![g_current] = timeslice_cfg[g_current]]
        /\ UNCHANGED <<state, prio, timeslice_cfg, g_rq, g_current, isr>>
        /\ pc' = "push" /\ pc \in {"run", "woke"} /\ isr = NoIsr
    BY <1>6, <2>1 DEF hrt_yield, At, Goto
  <2>3. Waiting' = Waiting /\ RunsOnlyReady' /\ TickInCaller'
    BY <2>1, <2>2 DEF Waiting, RunsOnlyReady, TickInCaller, Holds
  <2>4. slice_left'[g_current'] = timeslice_cfg'[g_current']
    BY <1>1, <2>1, <2>2 DEF TypeInv, TypeOK, KernelTypeOK
  <2>5. QuantumLeft'
    BY <2>4 DEF QuantumLeft
  <2> QED BY <1>1, <2>2, <2>3, <2>5, InvUnchanged
<1>7. CASE YieldPush
  <2>1. /\ g_rq' = rq_push(g_rq, prio[g_current], g_current)
        /\ UNCHANGED <<state, prio, timeslice_cfg, slice_left, g_current, isr>>
        /\ pc' = "hop" /\ pc = "push" /\ isr = NoIsr
    BY <1>7 DEF YieldPush, At, Goto, tcbVars
  <2>2. g_current \in Task /\ state[g_current] = "READY"
    BY <1>1, <2>1 DEF TypeInv, OwnerKnown, Inv, RunsOnlyReady, Holds
  <2>3. Waiting' = Waiting \cup {g_current} /\ g_current \notin Waiting
    BY <2>1, <2>2 DEF Waiting, Holds
  <2>4. prio[g_current] \in Prio
    BY <2>2 DEF Inv
  <2>5. OnReadyQueue'
    BY <1>1, <2>1, <2>2, <2>3, <2>4, InvPush
  <2>6. RunsOnlyReady' /\ QuantumLeft' /\ TickInCaller'
    BY <2>1 DEF RunsOnlyReady, QuantumLeft, TickInCaller, Holds, Inv
  <2> QED BY <1>1, <2>1, <2>5, <2>6 DEF Inv, TypeInv
<1>8. ASSUME NEW s \in {"SLEEP", "UNUSED", "BLOCKED"},
             At("run") \/ At("arm"), LeaveAs(s)
      PROVE  Inv'
  <2>1. /\ state' = [state EXCEPT ![g_current] = s]
        /\ UNCHANGED <<prio, timeslice_cfg, slice_left, g_rq, g_current, isr>>
        /\ pc' = "hop" /\ pc \in {"run", "arm"} /\ isr = NoIsr
    BY <1>8 DEF LeaveAs, At, Goto
  <2>2. g_current \in Task /\ state[g_current] = "READY"
    BY <1>1, <2>1 DEF TypeInv, OwnerKnown, Inv, RunsOnlyReady, Holds
  <2>3. state'[g_current] = s /\ \A t \in Task : t # g_current => state'[t] = state[t]
    BY <1>1, <2>1, <2>2 DEF TypeInv, TypeOK, KernelTypeOK
  <2>4. Waiting' = Waiting
    BY <2>1, <2>2, <2>3 DEF Waiting, Holds
  <2>5. OnReadyQueue'
    <3>1. OnReadyQueue
      BY DEF Inv
    <3> QED BY <2>1, <2>4, <3>1, QueueUnchanged
  <2>6. RunsOnlyReady' /\ QuantumLeft' /\ TickInCaller'
    BY <2>1, <2>3 DEF RunsOnlyReady, QuantumLeft, TickInCaller, Holds
  <2>7. state'[HRT_IDLE_ID] = "UNUSED"
    BY <1>2, <2>2, <2>3 DEF Inv
  <2>8. \A t \in Task : state'[t] # "UNUSED" => prio'[t] \in Prio
    BY <2>1, <2>2, <2>3 DEF Inv
  <2> QED BY <1>1, <2>1, <2>5, <2>6, <2>7, <2>8 DEF Inv, TypeInv
<1>9. CASE SleepCommit \/ hrt_task_delete \/ Block
  BY <1>8, <1>9 DEF SleepCommit, hrt_task_delete, Block
<1>10. CASE Sleep
  <2>1. /\ UNCHANGED <<state, prio, timeslice_cfg, slice_left, g_rq, g_current, isr>>
        /\ pc' = "arm" /\ pc = "run" /\ isr = NoIsr
    BY <1>10 DEF Sleep, hrt_sleep, At, Goto
  <2>2. Waiting' = Waiting /\ RunsOnlyReady' /\ QuantumLeft' /\ TickInCaller'
    BY <2>1 DEF Waiting, RunsOnlyReady, QuantumLeft, TickInCaller, Holds, Inv
  <2> QED BY <1>1, <2>1, <2>2, InvUnchanged
<1>11. ASSUME NEW w \in Task, state[w] \in {"BLOCKED", "SLEEP"}, hrt__make_ready(w),
              UNCHANGED <<prio, timeslice_cfg, g_current>>,
              pc' = pc \/ (pc = "run" /\ pc' = "woke"), TickInCaller'
       PROVE  Inv'
  <2>1. /\ state' = [state EXCEPT ![w] = "READY"]
        /\ slice_left' = [slice_left EXCEPT ![w] = timeslice_cfg[w]]
        /\ g_rq' = rq_push(g_rq, prio[w], w)
    BY <1>11 DEF hrt__make_ready
  <2>2. /\ state'[w] = "READY" /\ slice_left'[w] = timeslice_cfg[w]
        /\ \A t \in Task : t # w => state'[t] = state[t] /\ slice_left'[t] = slice_left[t]
    BY <1>1, <2>1 DEF TypeInv, TypeOK, KernelTypeOK
  <2>3. w \notin Waiting /\ ~ Holds(w) /\ prio[w] \in Prio
    BY <1>11 DEF Waiting, Inv, RunsOnlyReady
  <2>4. Waiting' = Waiting \cup {w}
    BY <1>11, <2>2, <2>3 DEF Waiting, Holds
  <2>5. OnReadyQueue'
    <3>1. \A t \in Waiting : t \in Task /\ t # w
      BY <2>3 DEF Waiting
    <3> QED BY <1>1, <1>11, <2>1, <2>2, <2>3, <2>4, <3>1, InvPush
  <2>6. RunsOnlyReady' /\ QuantumLeft'
    <3>1. RunsOnlyReady'
      BY <1>11, <2>2 DEF RunsOnlyReady, Holds, Inv
    <3> SUFFICES ASSUME pc' \in {"push", "hop"}, state'[g_current'] = "READY",
                        timeslice_cfg'[g_current'] > 0
                 PROVE  slice_left'[g_current'] > 0
      BY <3>1 DEF QuantumLeft
    <3>2. /\ pc \in {"push", "hop"} /\ timeslice_cfg[g_current] > 0
          /\ g_current' = g_current
      BY <1>11
    <3>3. g_current \in Task
      BY <3>2 DEF Inv, OwnerKnown
    <3>4. CASE g_current = w
      BY <2>2, <3>2, <3>4
    <3>5. CASE g_current # w
      <4>1. state[g_current] = "READY" /\ slice_left'[g_current] = slice_left[g_current]
        BY <2>2, <3>2, <3>3, <3>5
      <4> QED BY <3>2, <4>1 DEF QuantumLeft, Inv
    <3> QED BY <3>4, <3>5
  <2>7. state'[HRT_IDLE_ID] = "UNUSED"
    BY <1>2, <1>11, <2>2 DEF Inv
  <2>8. \A t \in Task : state'[t] # "UNUSED" => prio'[t] \in Prio
    BY <1>11, <2>2, <2>3 DEF Inv
  <2> QED BY <1>1, <1>11, <2>5, <2>6, <2>7, <2>8 DEF Inv, TypeInv
<1>12. CASE Wake
  <2>1. PICK w \in Task : WakeWaiter(w)
    BY <1>12 DEF Wake
  <2>2. TickInCaller'
    BY <2>1, Zenon DEF WakeWaiter, At, Goto, TickInCaller
  <2> QED BY <1>11, <2>1, <2>2, Zenon DEF WakeWaiter, At, Goto
<1>13. CASE EnterScheduler
  <2>1. pc = "hop" /\ pc' = "loop" /\ isr = NoIsr /\ g_current \in Task
    BY <1>1, <1>13 DEF EnterScheduler, At, Goto, TypeInv, OwnerKnown
  <2>2. ~ Rotates(g_current)
    BY <2>1 DEF Rotates, RoundRobin, Inv, QuantumLeft
  <2>3. UNCHANGED <<state, prio, timeslice_cfg, slice_left, g_rq, g_current, isr>>
    BY <1>13, <2>2 DEF EnterScheduler, hrt__on_scheduler_entry, Goto
  <2>4. Waiting' = Waiting /\ RunsOnlyReady' /\ QuantumLeft' /\ TickInCaller'
    BY <2>1, <2>3 DEF Waiting, RunsOnlyReady, QuantumLeft, TickInCaller, Holds
  <2> QED BY <1>1, <2>1, <2>3, <2>4, InvUnchanged
<1>14. CASE Dispatch
  <2> DEFINE next == hrt__pick_next_ready(g_rq)
  <2>1. /\ UNCHANGED <<tcbVars, isr>> /\ pc = "pick" /\ isr = NoIsr
        /\ g_rq' = rq_pop(g_rq)
        /\ IF next = HRT_IDLE_ID THEN pc' = "loop" /\ g_current' = g_current
                                 ELSE pc' = "run" /\ g_current' = next
    BY <1>14 DEF Dispatch, At, Goto
  <2>2. Hold(g_rq, Waiting, prio) /\ Waiting \in SUBSET Task /\ g_rq \in Queues
    BY DEF Inv, OnReadyQueue, Hold, Waiting, TypeOK, KernelTypeOK, Queues
  <2>3. /\ Waiting = {} => next = HRT_IDLE_ID /\ rq_pop(g_rq) = g_rq
        /\ Waiting # {} => next \in Waiting /\ Hold(rq_pop(g_rq), Waiting \ {next}, prio)
    BY <2>2, PickHolds
  <2>4. next \in Waiting => next # HRT_IDLE_ID /\ next \in Task /\ state[next] = "READY"
    BY DEF Waiting, Inv
  <2> HIDE DEF next
  <2>5. CASE Waiting = {}
    <3>1. Waiting' = Waiting /\ RunsOnlyReady' /\ QuantumLeft' /\ TickInCaller'
      BY <2>1, <2>3, <2>5 DEF tcbVars, Waiting, RunsOnlyReady, QuantumLeft, TickInCaller,
                              Holds
    <3> QED BY <1>1, <2>1, <2>3, <2>5, <3>1, InvUnchanged DEF tcbVars
  <2>6. CASE Waiting # {}
    <3>1. pc' = "run" /\ g_current' = next
      BY <2>1, <2>3, <2>4, <2>6
    <3>2. Waiting' = Waiting \ {next} /\ RunsOnlyReady'
      BY <2>1, <2>3, <2>4, <2>6, <3>1 DEF tcbVars, Waiting, RunsOnlyReady, Holds
    <3>3. OnReadyQueue'
      BY <2>1, <2>3, <2>6, <3>2, Zenon DEF Hold, OnReadyQueue, tcbVars
    <3>4. QuantumLeft' /\ TickInCaller'
      BY <3>1 DEF QuantumLeft, TickInCaller
    <3> QED BY <1>1, <2>1, <3>1, <3>2, <3>3, <3>4, Zenon DEF Inv, TypeInv, tcbVars
  <2> QED BY <2>5, <2>6
<1>15. CASE Tick
  <2>1. /\ UNCHANGED <<tcbVars, g_rq, g_current, pc>>
        /\ TickSrc = "EXTERNAL" => pc \in {"main", "run"}
    BY <1>15, PosixAssumption DEF Tick
  <2>2. Waiting' = Waiting /\ RunsOnlyReady' /\ QuantumLeft' /\ TickInCaller'
    BY <2>1 DEF tcbVars, Waiting, RunsOnlyReady, QuantumLeft, TickInCaller, Holds, Inv
  <2> QED BY <1>1, <2>1, <2>2, InvUnchanged DEF tcbVars
<1>16. CASE TickWake
  <2>1. isr \in Task /\ pc' = pc /\ TickInCaller'
    BY <1>2, <1>16 DEF TickWake, Inv, TickInCaller
  <2>2. CASE state[isr] = "SLEEP" /\ Due(isr)
    BY <1>11, <1>16, <2>1, <2>2 DEF TickWake
  <2>3. CASE ~ (state[isr] = "SLEEP" /\ Due(isr))
    <3>1. UNCHANGED <<state, prio, timeslice_cfg, slice_left, g_rq, g_current>>
      BY <1>16, <2>3 DEF TickWake
    <3>2. Waiting' = Waiting /\ RunsOnlyReady' /\ QuantumLeft'
      BY <2>1, <3>1 DEF Waiting, RunsOnlyReady, QuantumLeft, Holds, Inv
    <3> QED BY <1>1, <2>1, <3>1, <3>2, InvUnchanged
  <2> QED BY <2>2, <2>3
<1>17. CASE TickEnd
  <2>1. /\ UNCHANGED <<state, prio, timeslice_cfg, g_rq, g_current, pc>>
        /\ isr = MaxTasks /\ isr' = NoIsr
    BY <1>17 DEF TickEnd
  <2>2. Waiting' = Waiting /\ RunsOnlyReady' /\ TickInCaller'
    BY <2>1 DEF Waiting, RunsOnlyReady, TickInCaller, Holds, Inv
  <2>3. QuantumLeft'
    <3> SUFFICES ASSUME pc \in {"push", "hop"}, state[g_current] = "READY",
                        timeslice_cfg[g_current] > 0
                 PROVE  slice_left'[g_current] > 0
      BY <2>1 DEF QuantumLeft
    <3>1. slice_left[g_current] > 0 /\ g_current \in Task
      BY DEF Inv, QuantumLeft, OwnerKnown
    <3>2. slice_left \in [Task -> Nat]
      BY <1>1 DEF TypeInv, TypeOK, KernelTypeOK
    <3>3. Charged(g_current) => slice_left[g_current] # 1
      BY <2>1, <3>1 DEF QuantumCoversHop, tick_expires
    <3>4. slice_left'[g_current] = IF Charged(g_current) THEN slice_left[g_current] - 1
                                                         ELSE slice_left[g_current]
      BY <1>17, <3>1, <3>2 DEF TickEnd, tick_charge
    <3> QED BY <3>1, <3>2, <3>3, <3>4
  <2> QED BY <1>1, <2>1, <2>2, <2>3, InvUnchanged
<1> QED
  BY <1>3, <1>4, <1>5, <1>6, <1>7, <1>9, <1>10, <1>12, <1>13, <1>14, <1>15,
     <1>16, <1>17 DEF Next

-----------------------------------------------------------------------------
(* The quantum of a waiting task, and the ticks that come on the way to the *)
(* scheduler.                                                               *)

(* hrt_init establishes the invariant on quanta.                            *)
LEMMA FreshInit ==
  ASSUME CalmTicks, Init
  PROVE  FreshInv
BY DEF CalmTicks, Init, hrt_init, FreshInv, QuantumFresh, Waiting

(* Nobody comes to wait for the processor with a quantum that is not whole. *)
LEMMA FreshKept ==
  ASSUME FreshInv,
         \A t \in Waiting' :
           \/ slice_left'[t] = timeslice_cfg'[t]
           \/ /\ t \in Waiting /\ slice_left'[t] = slice_left[t]
              /\ timeslice_cfg'[t] = timeslice_cfg[t],
         pc' = "push" => slice_left'[g_current'] = timeslice_cfg'[g_current'],
         g_policy' = g_policy
  PROVE  FreshInv'
BY DEF FreshInv, QuantumFresh

(* Every step keeps the invariant on quanta, one case per action.           *)
LEMMA FreshNext ==
  ASSUME Configured, CalmTicks, Inv, FreshInv, [Next]_vars
  PROVE  FreshInv'
<1>1. /\ state \in [Task -> State] /\ slice_left \in [Task -> Nat]
      /\ timeslice_cfg \in [Task -> Nat] /\ OwnerKnown /\ RunsOnlyReady
  BY DEF Inv, TypeOK, KernelTypeOK
<1>2. \A t \in Waiting : t \in Task /\ state[t] = "READY" /\ ~ Holds(t)
  BY DEF Waiting
<1>3. CASE CreateTask
  <2>1. PICK p, slice : hrt_create_task(p, slice)
    BY <1>3 DEF CreateTask
  <2> DEFINE id == CHOOSE t \in FreeSlots : \A u \in FreeSlots : t <= u
  <2>2. id \in Task
    BY <1>3, CreateLeavesIdle DEF CreateTask
  <2> HIDE DEF id
  <2>3. /\ state' = [state EXCEPT ![id] = "READY"]
        /\ timeslice_cfg' = [timeslice_cfg EXCEPT ![id] = slice]
        /\ slice_left' = [slice_left EXCEPT ![id] = slice]
        /\ UNCHANGED <<g_current, g_policy, pc>> /\ pc # "push"
    BY <1>3, <2>1 DEF hrt_create_task, id, CreateTask, portVars, At, cfgVars
  <2>4. /\ slice_left'[id] = timeslice_cfg'[id]
        /\ \A t \in Task : t # id => /\ state'[t] = state[t]
                                     /\ slice_left'[t] = slice_left[t]
                                     /\ timeslice_cfg'[t] = timeslice_cfg[t]
    BY <1>1, <2>2, <2>3
  <2>5. \A t \in Waiting' : t # id => t \in Waiting /\ t \in Task
    BY <2>3, <2>4 DEF Waiting, Holds
  <2> QED BY <2>3, <2>4, <2>5, FreshKept
<1>4. CASE \/ CreateTaskFails \/ SetDefaultTimeslice \/ UNCHANGED vars \/ IdleWait
           \/ hrt_start \/ ClaimSwitch \/ Sleep \/ Tick
  <2>1. /\ UNCHANGED <<state, timeslice_cfg, slice_left, g_current, g_policy>>
        /\ \/ pc' = pc
           \/ pc \in {"main", "loop"} /\ pc' \in {"loop", "pick"}
           \/ pc = "run" /\ pc' = "arm"
    BY <1>4 DEF CreateTaskFails, SetDefaultTimeslice, IdleWait, hrt_start, ClaimSwitch,
                Sleep, hrt_sleep, Tick, hrt_create_task_fails, hrt_set_default_timeslice,
                At, Goto, vars, kernelVars, portVars, tcbVars, cfgVars
  <2>2. Waiting' = Waiting
    BY <2>1 DEF Waiting, Holds
  <2> QED BY <2>1, <2>2, FreshKept DEF FreshInv
<1>5. CASE SetPolicy
  <2>1. /\ UNCHANGED <<state, timeslice_cfg, slice_left, g_current, pc>>
        /\ g_policy' \in Policies
    BY <1>5 DEF SetPolicy, hrt_set_policy, portVars, tcbVars
  <2>2. Waiting' = Waiting
    BY <2>1 DEF Waiting, Holds
  <2>3. TickSrc = "EXTERNAL" \/ g_policy' = "HRT_SCHED_PRIORITY"
    BY <2>1 DEF CalmTicks
  <2> QED BY <2>1, <2>2, <2>3 DEF FreshInv, QuantumFresh
<1>6. CASE hrt_yield
  <2>1. state[g_current] = "READY" /\ g_current \in Task
    BY <1>1, <1>6 DEF hrt_yield, At, RunsOnlyReady, Holds, OwnerKnown
  <2>2. /\ slice_left' = [slice_left EXCEPT ![g_current] = timeslice_cfg[g_current]]
        /\ UNCHANGED <<state, timeslice_cfg, g_current, g_policy>>
        /\ pc' = "push" /\ pc \in {"run", "woke"}
    BY <1>6, <2>1 DEF hrt_yield, At, Goto, cfgVars
  <2>3. /\ slice_left'[g_current] = timeslice_cfg[g_current]
        /\ \A t \in Task : t # g_current => slice_left'[t] = slice_left[t]
    BY <1>1, <2>1, <2>2
  <2>4. Waiting' = Waiting /\ g_current \notin Waiting
    BY <2>2 DEF Waiting, Holds
  <2> QED BY <1>2, <2>2, <2>3, <2>4, FreshKept
<1>7. CASE YieldPush
  <2>1. /\ UNCHANGED <<state, timeslice_cfg, slice_left, g_current, g_policy>>
        /\ pc' = "hop" /\ pc = "push"
    BY <1>7 DEF YieldPush, At, Goto, tcbVars, cfgVars
  <2>2. \A t \in Waiting' : t # g_current => t \in Waiting
    BY <2>1 DEF Waiting, Holds
  <2>3. slice_left[g_current] = timeslice_cfg[g_current]
    BY <2>1 DEF FreshInv
  <2> QED BY <2>1, <2>2, <2>3, FreshKept
<1>8. ASSUME NEW s \in {"SLEEP", "UNUSED", "BLOCKED"},
             At("run") \/ At("arm"), LeaveAs(s)
      PROVE  FreshInv'
  <2>1. /\ state' = [state EXCEPT ![g_current] = s] /\ g_current \in Task
        /\ UNCHANGED <<timeslice_cfg, slice_left, g_current, g_policy>>
        /\ pc' = "hop" /\ pc \in {"run", "arm"}
    BY <1>1, <1>8 DEF LeaveAs, At, Goto, cfgVars, OwnerKnown
  <2>2. \A t \in Waiting' : t \in Waiting
    BY <1>1, <2>1 DEF Waiting, Holds
  <2> QED BY <2>1, <2>2, FreshKept
<1>9. CASE SleepCommit \/ hrt_task_delete \/ Block
  BY <1>8, <1>9 DEF SleepCommit, hrt_task_delete, Block
<1>10. ASSUME NEW w \in Task, state[w] \in {"BLOCKED", "SLEEP"}, hrt__make_ready(w),
              UNCHANGED <<timeslice_cfg, g_current, g_policy>>,
              pc' = pc \/ (pc = "run" /\ pc' = "woke")
       PROVE  FreshInv'
  <2>1. /\ slice_left'[w] = timeslice_cfg[w]
        /\ \A t \in Task : t # w => state'[t] = state[t] /\ slice_left'[t] = slice_left[t]
    BY <1>1, <1>10 DEF hrt__make_ready
  <2>2. \A t \in Waiting' : t # w => t \in Waiting /\ t \in Task
    BY <1>10, <2>1 DEF Waiting, Holds
  <2>3. pc = "push" => g_current # w /\ g_current \in Task
    BY <1>1, <1>10 DEF RunsOnlyReady, Holds, OwnerKnown
  <2>4. pc' = "push" => slice_left'[g_current'] = timeslice_cfg'[g_current']
    BY <1>10, <2>1, <2>3 DEF FreshInv
  <2> QED BY <1>10, <2>1, <2>2, <2>4, FreshKept
<1>11. CASE Wake
  <2>1. PICK w \in Task : WakeWaiter(w)
    BY <1>11 DEF Wake
  <2> QED BY <1>10, <2>1, Zenon DEF WakeWaiter, At, Goto, cfgVars
<1>12. CASE TickWake
  <2>1. CASE state[isr] = "SLEEP" /\ Due(isr)
    BY <1>10, <1>12, <2>1 DEF TickWake, cfgVars
  <2>2. CASE ~ (state[isr] = "SLEEP" /\ Due(isr))
    <3>1. UNCHANGED <<state, timeslice_cfg, slice_left, g_current, g_policy, pc>>
      BY <1>12, <2>2 DEF TickWake, cfgVars
    <3>2. Waiting' = Waiting
      BY <3>1 DEF Waiting, Holds
    <3> QED BY <3>1, <3>2, FreshKept DEF FreshInv
  <2> QED BY <2>1, <2>2
<1>13. CASE EnterScheduler
  <2>1. pc = "hop" /\ pc' = "loop" /\ g_current \in Task
    BY <1>1, <1>13 DEF EnterScheduler, At, Goto, OwnerKnown
  <2>2. ~ Rotates(g_current)
    BY <2>1 DEF Rotates, RoundRobin, Inv, QuantumLeft
  <2>3. UNCHANGED <<state, timeslice_cfg, slice_left, g_current, g_policy>>
    BY <1>13, <2>2 DEF EnterScheduler, hrt__on_scheduler_entry, cfgVars
  <2>4. Waiting' = Waiting
    BY <2>1, <2>3 DEF Waiting, Holds
  <2> QED BY <2>1, <2>3, <2>4, FreshKept
<1>14. CASE Dispatch
  <2>1. UNCHANGED <<state, timeslice_cfg, slice_left, g_policy>>
        /\ pc = "pick" /\ pc' \in {"loop", "run"}
    BY <1>14 DEF Dispatch, At, Goto, tcbVars, cfgVars
  <2>2. \A t \in Waiting' : t \in Waiting
    BY <2>1 DEF Waiting, Holds
  <2> QED BY <2>1, <2>2, FreshKept
<1>15. CASE TickEnd
  <2>1. /\ UNCHANGED <<state, timeslice_cfg, g_current, g_policy, pc>>
        /\ isr = MaxTasks /\ isr # NoIsr
    BY <1>15, KernelAssumption DEF TickEnd, cfgVars, NoIsr
  <2>2. Waiting' = Waiting
    BY <2>1 DEF Waiting, Holds
  <2>3. CASE TickSrc = "EXTERNAL"
    <3>1. pc \in {"main", "run"}
      BY <2>1, <2>3 DEF Inv, TickInCaller
    <3>2. \A t \in Waiting : t # g_current
      BY <1>1, <1>2, <3>1, KernelAssumption DEF Holds, OwnerKnown, Task, NoTask
    <3>3. \A t \in Task : t # g_current => slice_left'[t] = slice_left[t]
      BY <1>1, <1>15 DEF TickEnd, tick_charge
    <3>4. \A t \in Waiting' : slice_left'[t] = slice_left[t]
      BY <1>2, <2>2, <3>2, <3>3
    <3> QED BY <2>1, <2>2, <3>1, <3>4, FreshKept
  <2>4. CASE g_policy = "HRT_SCHED_PRIORITY"
    <3>1. slice_left' = slice_left
      BY <1>15, <2>4 DEF TickEnd, tick_charge, Charged, RoundRobin
    <3> QED BY <2>1, <2>2, <3>1, FreshKept DEF FreshInv
  <2> QED BY <2>3, <2>4 DEF FreshInv
<1> QED
  BY <1>3, <1>4, <1>5, <1>6, <1>7, <1>9, <1>11, <1>12, <1>13, <1>14, <1>15 DEF Next

(* Ticks from the tasks do not come on the way to the scheduler, and        *)
(* without a round-robin policy there is no quantum to end.                 *)
LEMMA FreshCovers ==
  ASSUME Inv, FreshInv
  PROVE  QuantumCoversHop
<1>1. MaxTasks # NoIsr
  BY KernelAssumption DEF NoIsr
<1>2. CASE TickSrc = "EXTERNAL"
  BY <1>1, <1>2 DEF Inv, TickInCaller, QuantumCoversHop
<1>3. CASE g_policy = "HRT_SCHED_PRIORITY"
  BY <1>3 DEF QuantumCoversHop, tick_expires, Charged, RoundRobin
<1> QED BY <1>2, <1>3 DEF FreshInv

(* The invariant holds in every behaviour in which no quantum ends on the   *)
(* way to the scheduler, and these are all of them if the ticks are calm.   *)
(* That no tick pushes on the ring of a push it interrupts, the last        *)
(* conjunct of TimelySpec, is what makes rq_push one step in the model.     *)
LEMMA InvAlways ==
  ASSUME Configured
  PROVE  TimelySpec => []Inv
<1>1. CASE CalmTicks
  <2>1. Init => Inv /\ FreshInv
    BY <1>1, InvInit, FreshInit
  <2>2. Inv /\ FreshInv /\ [Next]_vars => Inv' /\ FreshInv'
    BY <1>1, FreshCovers, InvNext, FreshNext
  <2> QED BY <2>1, <2>2, PTL DEF Spec, TimelySpec
<1>2. CASE ~ CalmTicks
  <2>1. Inv /\ QuantumCoversHop /\ [Next]_vars => Inv'
    BY InvNext
  <2> QED BY <1>2, <2>1, InvInit, PTL DEF Spec, TimelySpec
<1> QED BY <1>1, <1>2

(* For every number of tasks and priorities: no sequence of calls and ticks *)
(* loses a runnable task, queues it twice or in the wrong queue.  With the  *)
(* timer signal this is for tasks that are created by main and never yield  *)
(* to the ready queue that a sleeper will return to (PushApart): otherwise  *)
(* a tick inside rq_push of hrt_yield can lose one.                         *)
THEOREM ReadyQueueCorrect ==
  ASSUME Configured
  PROVE  TimelySpec => []OnReadyQueue
<1>1. Inv => OnReadyQueue
  BY DEF Inv
<1> QED BY <1>1, InvAlways, PTL

(* The processor is only ever given to READY tasks.                         *)
THEOREM RunningIsReady ==
  ASSUME Configured
  PROVE  TimelySpec => []RunsOnlyReady
<1>1. Inv => RunsOnlyReady
  BY DEF Inv
<1> QED BY <1>1, InvAlways, PTL

(* A task that waits for the processor has a whole quantum, and no tick     *)
(* ends one on the way to the scheduler, if ticks come from the application *)
(* or the policy is not a round-robin one.                                  *)
THEOREM QuantumIsFresh ==
  ASSUME Configured, CalmTicks
  PROVE  Spec => [](QuantumFresh /\ QuantumCoversHop)
<1>1. Init => Inv /\ FreshInv
  BY InvInit, FreshInit
<1>2. Inv /\ FreshInv /\ [Next]_vars => Inv' /\ FreshInv'
  BY FreshCovers, InvNext, FreshNext
<1>3. Inv /\ FreshInv => QuantumFresh /\ QuantumCoversHop
  BY FreshCovers DEF FreshInv
<1> QED BY <1>1, <1>2, <1>3, PTL DEF Spec

(* The task that hrt_port_enter_scheduler switches to is READY, and no      *)
(* READY task has a higher priority.                                        *)
LEMMA DispatchHighest ==
  ASSUME Inv, Dispatch, pc' = "run"
  PROVE  /\ g_current' \in Waiting
         /\ \A t \in Task : state[t] = "READY" => prio[g_current'] <= prio[t]
<1> DEFINE next == hrt__pick_next_ready(g_rq)
<1>1. Hold(g_rq, Waiting, prio) /\ Waiting \in SUBSET Task /\ g_rq \in Queues
  BY DEF Inv, OnReadyQueue, Hold, Waiting, TypeOK, KernelTypeOK, Queues
<1>2. /\ Waiting = {} => next = HRT_IDLE_ID
      /\ Waiting # {} => next \in Waiting /\ \A u \in Waiting : prio[next] <= prio[u]
  BY <1>1, PickHolds, Zenon
<1>3. next # HRT_IDLE_ID /\ g_current' = next /\ pc = "pick"
  BY DEF Dispatch, Goto, At
<1>4. \A t \in Task : state[t] = "READY" => t \in Waiting
  BY <1>3 DEF Waiting, Holds
<1> HIDE DEF next
<1> QED BY <1>2, <1>3, <1>4

(* "HardRT always schedules the highest-priority READY task first", for     *)
(* every number of tasks and priorities.                                    *)
THEOREM SchedulesHighestFirst ==
  ASSUME Configured
  PROVE  TimelySpec => HighestFirst
<1>1. TimelySpec => []Inv
  BY InvAlways
<1>2. ASSUME Inv, [Next]_vars
      PROVE  [pc = "pick" /\ pc' = "run" =>
               \A t \in Task : state[t] = "READY" => prio[g_current'] <= prio[t]]_vars
  <2> SUFFICES ASSUME pc = "pick", pc' = "run"
               PROVE  \A t \in Task : state[t] = "READY" => prio[g_current'] <= prio[t]
    OBVIOUS
  <2>1. CASE Dispatch
    BY <1>2, <2>1, DispatchHighest
  <2>2. CASE Tick \/ TickWake \/ TickEnd \/ UNCHANGED vars
    BY <2>2 DEF Tick, TickWake, TickEnd, vars, portVars
  <2>3. CASE Next /\ ~ (Dispatch \/ Tick \/ TickWake \/ TickEnd)
    BY <2>3, Zenon DEF Next, CreateTask, CreateTaskFails, SetPolicy, SetDefaultTimeslice,
        hrt_start, hrt_yield, YieldPush, Sleep, hrt_sleep, SleepCommit, hrt_task_delete,
        Block, Wake, WakeWaiter, EnterScheduler, IdleWait, ClaimSwitch, At
  <2> QED BY <1>2, <2>1, <2>2, <2>3
<1> QED BY <1>1, <1>2, PTL DEF TimelySpec, Spec, HighestFirst

-----------------------------------------------------------------------------
(* The scheduler loop.                                                      *)

(* Every step keeps the invariant on requests to switch.                    *)
LEMMA LoopNext ==
  ASSUME Inv, LoopInv, [Next]_vars
  PROVE  LoopInv'
<1>1. CASE Dispatch
  <2> DEFINE next == hrt__pick_next_ready(g_rq)
  <2>1. /\ UNCHANGED state /\ pc = "pick" /\ pc' \in {"loop", "run"}
        /\ pc' = "loop" => next = HRT_IDLE_ID
    BY <1>1 DEF Dispatch, At, Goto, tcbVars
  <2>2. Hold(g_rq, Waiting, prio) /\ Waiting \in SUBSET Task /\ g_rq \in Queues
    BY DEF Inv, OnReadyQueue, Hold, Waiting, TypeOK, KernelTypeOK, Queues
  <2>3. Waiting # {} => next \in Waiting
    BY <2>2, PickHolds, Zenon
  <2>4. HRT_IDLE_ID \notin Waiting
    BY DEF Waiting, Inv
  <2> HIDE DEF next
  <2>5. pc' = "loop" => Waiting' = {}
    <3>1. pc' = "loop" => Waiting = {}
      BY <2>1, <2>3, <2>4
    <3> QED BY <2>1, <3>1 DEF Waiting, Holds
  <2> QED BY <2>1, <2>5 DEF LoopInv
<1>2. CASE TickEnd
  <2>1. /\ pc' = pc /\ isr # NoIsr
        /\ g_switch_pending => g_switch_pending'
        /\ TickSrc = "SYSTICK" => g_switch_pending'
    <3>1. isr # NoIsr
      BY <1>2, KernelAssumption DEF TickEnd, NoIsr
    <3> QED BY <1>2, <3>1, Zenon DEF TickEnd
  <2>2. TickSrc # "SYSTICK" => pc \in {"main", "run"}
    BY <2>1, PosixAssumption DEF Inv, TickInCaller
  <2> QED BY <2>1, <2>2 DEF LoopInv
<1>3. CASE Tick \/ TickWake
  <2>1. UNCHANGED <<pc, g_switch_pending>> /\ isr' # NoIsr
    <3>1. UNCHANGED <<pc, g_switch_pending>>
      BY <1>3, Zenon DEF Tick, TickWake
    <3>2. isr' = 0 \/ \E t \in Task : isr' = t + 1
      BY <1>3, Zenon DEF Tick, TickWake
    <3>3. 0 # NoIsr /\ \A t \in Task : t + 1 # NoIsr
      BY KernelAssumption DEF Task, NoIsr
    <3> QED BY <3>1, <3>2, <3>3, Zenon
  <2> QED BY <2>1 DEF LoopInv
<1>4. CASE IdleWait \/ UNCHANGED vars
  <2>1. UNCHANGED <<state, g_current, pc, g_switch_pending, isr>>
    BY <1>4 DEF IdleWait, vars, kernelVars, tcbVars, portVars
  <2> QED BY <2>1 DEF LoopInv, Waiting, Holds
<1>5. CASE CreateTask \/ CreateTaskFails \/ SetPolicy \/ SetDefaultTimeslice
  <2>1. pc' = pc /\ pc \in {"main", "run"}
    BY <1>5 DEF CreateTask, CreateTaskFails, SetPolicy, SetDefaultTimeslice, At, portVars
  <2> QED BY <2>1 DEF LoopInv
<1>6. CASE hrt_start \/ hrt_yield \/ YieldPush \/ SleepCommit \/ hrt_task_delete \/ Block
           \/ EnterScheduler
  <2>1. pc' \in {"loop", "hop"} => g_switch_pending'
    BY <1>6 DEF hrt_start, hrt_yield, YieldPush, SleepCommit, hrt_task_delete, Block,
                LeaveAs, EnterScheduler, At, Goto, LoopInv
  <2> QED BY <2>1 DEF LoopInv
<1>7. CASE Sleep \/ Wake \/ ClaimSwitch
  <2>1. pc' \notin {"loop", "hop"}
    BY <1>7, Zenon DEF Sleep, hrt_sleep, Wake, WakeWaiter, ClaimSwitch, Goto
  <2> QED BY <2>1 DEF LoopInv
<1> QED BY <1>1, <1>2, <1>3, <1>4, <1>5, <1>6, <1>7 DEF Next

(* hrt_port_enter_scheduler idles only when nothing is runnable: the request *)
(* that a wake-up makes is not lost between the clearing of g_switch_pending *)
(* and the pick, with application ticks and, under the conditions of        *)
(* ReadyQueueCorrect, with the timer signal.                                *)
THEOREM NoSwitchLost ==
  ASSUME Configured
  PROVE  TimelySpec => []NoLostSwitch
<1>1. Init => LoopInv
  BY DEF Init, LoopInv
<1>2. Inv /\ LoopInv /\ [Next]_vars => LoopInv'
  BY LoopNext
<1>3. LoopInv => NoLostSwitch
  BY DEF LoopInv, NoLostSwitch, At, Waiting, Holds
<1> QED BY <1>1, <1>2, <1>3, InvAlways, PTL DEF TimelySpec, Spec

-----------------------------------------------------------------------------
(* Overflow.                                                                *)

(* A task that does not wait for the processor fits into any queue.         *)
LEMMA PushFits ==
  ASSUME Inv, NEW id \in Task \ Waiting, NEW p \in Prio
  PROVE  rq_push_error(g_rq, p) = g_error
<1>1. g_rq[p] \in Seq(Task)
  BY DEF Inv, TypeOK, KernelTypeOK
<1>2. /\ \A i \in 1 .. Len(g_rq[p]) : g_rq[p][i] # id
      /\ \A i, j \in 1 .. Len(g_rq[p]) : g_rq[p][i] = g_rq[p][j] => i = j
  <2>1. OnReadyQueue
    BY DEF Inv
  <2>2. \A i \in 1 .. Len(g_rq[p]) :
          /\ g_rq[p][i] \in Waiting
          /\ \A j \in 1 .. Len(g_rq[p]) : g_rq[p][i] = g_rq[p][j] => i = j
    BY <2>1, ZenonT(30) DEF OnReadyQueue
  <2> QED BY <2>2, Zenon
<1>3. id \in Task
  OBVIOUS
<1>4. Len(g_rq[p]) < MaxTasks
  BY <1>1, <1>2, <1>3, RoomForOneMore, Zenon
<1> QED BY <1>1, <1>4, KernelAssumption DEF rq_push_error

(* HARDRT_MAX_TASKS entries per priority are enough.                        *)
THEOREM NeverOverflows ==
  ASSUME Configured
  PROVE  TimelySpec => []NoRqOverflow
<1>1. TimelySpec => []Inv
  BY InvAlways
<1>2. Init => NoRqOverflow
  BY DEF Init, hrt_init, NoRqOverflow
<1>3. ASSUME Inv, NoRqOverflow, [Next]_vars  PROVE NoRqOverflow'
  <2> SUFFICES g_error' \in {g_error, "ERR_INVALID_ID", "ERR_INVALID_TASK"}
    BY <1>3 DEF NoRqOverflow
  <2>1. CASE CreateTask
    <3>1. PICK p \in Prio, slice \in Nat : hrt_create_task(p, slice)
      <4>1. NullAttr => 1 \in Prio
        BY KernelAssumption DEF Configured, Prio
      <4>2. \A a \in Attrs : a.prio \in Prio /\ a.slice \in Nat
        BY KernelAssumption DEF Configured
      <4>3. g_default_slice \in Nat
        BY <1>3 DEF Inv, TypeOK, KernelTypeOK
      <4> QED BY <2>1, <4>1, <4>2, <4>3 DEF CreateTask
    <3> DEFINE id == CHOOSE t \in FreeSlots : \A u \in FreeSlots : t <= u
    <3>2. id \in Task /\ state[id] = "UNUSED"
      BY <1>3, <2>1, CreateLeavesIdle DEF CreateTask
    <3> HIDE DEF id
    <3>3. id \in Task \ Waiting
      BY <3>2 DEF Waiting
    <3> QED BY <1>3, <3>1, <3>3, PushFits DEF hrt_create_task
  <2>2. ASSUME NEW w \in Task, state[w] \in {"BLOCKED", "SLEEP"}, hrt__make_ready(w)
        PROVE  g_error' = g_error
    <3>1. w \in Task \ Waiting /\ prio[w] \in Prio
      BY <1>3, <2>2 DEF Waiting, Inv
    <3> QED BY <1>3, <2>2, <3>1, PushFits DEF hrt__make_ready
  <2>3. CASE Wake \/ TickWake
    BY <2>2, <2>3, ZenonT(30) DEF Wake, WakeWaiter, TickWake
  <2>4. CASE YieldPush
    <3>1. g_current \in Task \ Waiting /\ prio[g_current] \in Prio
      BY <1>3, <2>4, Zenon
      DEF YieldPush, At, Waiting, Holds, Inv, OwnerKnown, RunsOnlyReady
    <3> QED BY <1>3, <2>4, <3>1, PushFits DEF YieldPush
  <2>5. CASE EnterScheduler
    <3>1. ~ Rotates(g_current)
      <4>1. QuantumLeft
        BY <1>3 DEF Inv
      <4>2. pc = "hop"
        BY <2>5 DEF EnterScheduler, At
      <4> QED BY <4>1, <4>2 DEF Rotates, RoundRobin, QuantumLeft
    <3> QED BY <2>5, <3>1, Zenon DEF EnterScheduler, hrt__on_scheduler_entry
  <2>6. CASE UNCHANGED vars
    BY <2>6 DEF vars, kernelVars
  <2>7. CASE CreateTaskFails \/ TickEnd
    BY <2>7 DEF CreateTaskFails, hrt_create_task_fails, TickEnd, tick_error
  <2>8. CASE Next /\ ~ (CreateTask \/ Wake \/ TickWake \/ YieldPush \/ EnterScheduler
                       \/ CreateTaskFails \/ TickEnd)
    BY <2>8, Zenon DEF Next, SetPolicy, hrt_set_policy, SetDefaultTimeslice,
        hrt_set_default_timeslice, hrt_start, hrt_yield, Sleep, hrt_sleep, SleepCommit,
        hrt_task_delete, Block, LeaveAs, IdleWait, ClaimSwitch, Dispatch, Tick, vars,
        kernelVars
  <2> QED BY <1>3, <2>1, <2>3, <2>4, <2>5, <2>6, <2>7, <2>8
<1> QED BY <1>1, <1>2, <1>3, PTL DEF TimelySpec, Spec

-----------------------------------------------------------------------------
(* A sleep lasts exactly as many ticks as hrt_sleep asked for, for every    *)
(* width of the tick counter, if it is shorter than half its range.         *)

SleepsShort == \A k \in SleepTicks : 2 * k < TickMod

(* A deadline that passed a tick ago is as far ahead as can be.             *)
LEMMA TickMissed ==
  ASSUME NEW M \in Nat \ {0}, NEW w \in 0 .. (M - 1)
  PROVE  (w - ((w + 1) % M)) % M = M - 1
<1>1. CASE w + 1 < M
  <2>1. (w + 1) % M = w + 1
    BY <1>1
  <2>2. w - (w + 1) = -1 /\ (-1) % M = M - 1
    OBVIOUS
  <2> QED BY <2>1, <2>2
<1>2. CASE w + 1 = M
  <2>1. (w + 1) % M = 0 /\ w % M = w
    BY <1>2
  <2>2. w - 0 = w /\ w = M - 1
    BY <1>2
  <2> QED BY <2>1, <2>2
<1> QED BY <1>1, <1>2

(* The signed compare of hrt__tick_isr.                                     *)
LEMMA DueWhenPassed ==
  ASSUME TypeInv, SleepInv, NEW t \in Task, state[t] = "SLEEP"
  PROVE  Due(t) <=> to_sleep[t] = 0
<1> DEFINE k == to_sleep[t]
<1>1. /\ TickMod \in Nat \ {0} /\ g_tick \in 0 .. (TickMod - 1)
      /\ wake_tick[t] \in 0 .. (TickMod - 1)
      /\ k \in Nat /\ 2 * k < TickMod
  BY KernelAssumption DEF TypeInv, TypeOK, KernelTypeOK, SleepInv
<1>2. wake_tick[t] = (g_tick + k) % TickMod \/ Overdue(t)
  BY DEF SleepInv
<1>3. Overdue(t) => k = 0 /\ g_tick = (wake_tick[t] + 1) % TickMod
  BY DEF Overdue
<1> HIDE DEF k
<1>4. k < TickMod /\ (2 * k >= TickMod <=> FALSE)
  BY <1>1
<1>5. CASE wake_tick[t] = (g_tick + k) % TickMod
  <2>1. (wake_tick[t] - g_tick) % TickMod = k
    BY <1>1, <1>4, <1>5, TickAhead, Zenon
  <2>2. Due(t) <=> k = 0 \/ 2 * k >= TickMod
    BY <2>1, Zenon DEF Due
  <2>3. Due(t) <=> k = 0
    BY <1>4, <2>2, Zenon
  <2> QED BY <2>3 DEF k
<1>6. CASE Overdue(t)
  <2>1. k = 0 /\ g_tick = (wake_tick[t] + 1) % TickMod
    BY <1>3, <1>6
  <2>2. (wake_tick[t] - g_tick) % TickMod = TickMod - 1
    BY <1>1, <2>1, TickMissed, Zenon
  <2>3. Due(t) <=> TickMod - 1 = 0 \/ 2 * (TickMod - 1) >= TickMod
    BY <2>2, Zenon DEF Due
  <2>4. TickMod - 1 = 0 \/ 2 * (TickMod - 1) >= TickMod
    BY <1>1
  <2> QED BY <2>1, <2>3, <2>4, Zenon DEF k
<1> QED BY <1>2, <1>5, <1>6

(* Outside the handler, its index is that of no task.                       *)
LEMMA BeforeAllTasks == \A t \in Task : NoIsr \notin 0 .. t
BY KernelAssumption DEF NoIsr, Task

(* A step that touches no clock and puts nobody but the task in hrt_sleep   *)
(* to sleep.                                                                *)
LEMMA SleepKept ==
  ASSUME SleepInv, UNCHANGED <<wake_tick, to_sleep, g_tick, isr>>,
         isr = NoIsr, pc' # "arm",
         \A t \in Task : state'[t] = "SLEEP" =>
                           state[t] = "SLEEP" \/ (pc = "arm" /\ t = g_current),
         \A t \in Task : to_sleep[t] \in Nat
  PROVE  SleepInv'
<1>1. ASSUME NEW t \in Task, state'[t] = "SLEEP"
      PROVE  /\ wake_tick[t] = (g_tick + to_sleep[t]) % TickMod
             /\ 2 * to_sleep[t] < TickMod
             /\ to_sleep[t] = 0 => TickSrc = "SYSTICK"
  <2>1. isr \notin 0 .. t
    BY BeforeAllTasks, Zenon
  <2>2. ~ Overdue(t)
    BY <2>1, Zenon DEF Overdue
  <2>3. to_sleep[t] = 0 => TickSrc = "SYSTICK"
    <3> SUFFICES ASSUME to_sleep[t] = 0  PROVE TickSrc = "SYSTICK"
      OBVIOUS
    <3>1. CASE state[t] = "SLEEP"
      BY <2>1, <3>1, Zenon DEF SleepInv
    <3>2. CASE pc = "arm" /\ t = g_current
      <4>1. TickSrc # "EXTERNAL"
        BY <3>2 DEF SleepInv
      <4> QED BY <4>1, PosixAssumption
    <3> QED BY <1>1, <3>1, <3>2
  <2> QED BY <1>1, <2>2, <2>3 DEF SleepInv
<1> QED BY <1>1 DEF SleepInv

(* Every step keeps the invariant on sleepers, one case per action.         *)
LEMMA SleepNext ==
  ASSUME Configured, SleepsShort, Inv, SleepInv, [Next]_vars
  PROVE  /\ SleepInv'
         /\ \A t \in Task : state[t] = "SLEEP" /\ state'[t] # "SLEEP" => to_sleep[t] = 0
<1>1. TypeInv /\ TypeInv'
  BY TypeNext DEF Inv, TypeInv
<1>2. state \in [Task -> State] /\ wake_tick \in [Task -> 0 .. (TickMod - 1)]
      /\ to_sleep \in [Task -> Nat]
  BY <1>1, Zenon DEF TypeInv, TypeOK, KernelTypeOK
<1>3. CASE CreateTask
  <2>1. PICK p, slice : hrt_create_task(p, slice)
    BY <1>3 DEF CreateTask
  <2> DEFINE id == CHOOSE t \in FreeSlots : \A u \in FreeSlots : t <= u
  <2>2. id \in Task /\ state[id] = "UNUSED"
    BY <1>3, CreateLeavesIdle DEF CreateTask
  <2> HIDE DEF id
  <2>3. /\ state' = [state EXCEPT ![id] = "READY"]
        /\ wake_tick' = [wake_tick EXCEPT ![id] = 0]
        /\ to_sleep' = [to_sleep EXCEPT ![id] = 0]
        /\ UNCHANGED <<g_tick, g_current, pc, isr>>
        /\ pc # "arm"
    BY <1>3, <2>1 DEF hrt_create_task, id, CreateTask, portVars, At
  <2>4. /\ state'[id] = "READY"
        /\ \A t \in Task : t # id => /\ state'[t] = state[t] /\ wake_tick'[t] = wake_tick[t]
                                     /\ to_sleep'[t] = to_sleep[t]
    BY <1>2, <2>2, <2>3
  <2> QED BY <2>2, <2>3, <2>4 DEF SleepInv, Overdue
<1>4. CASE CreateTaskFails \/ SetPolicy \/ SetDefaultTimeslice \/ UNCHANGED vars \/ IdleWait
  <2>1. UNCHANGED <<tcbVars, g_tick, g_current, to_sleep, portVars>>
    BY <1>4 DEF CreateTaskFails, SetPolicy, SetDefaultTimeslice, IdleWait, vars,
                hrt_create_task_fails, hrt_set_policy, hrt_set_default_timeslice, kernelVars
  <2> QED BY <2>1 DEF tcbVars, portVars, SleepInv, Overdue
<1>5. CASE hrt_start \/ ClaimSwitch \/ hrt_yield \/ YieldPush \/ EnterScheduler \/ Dispatch
  <2>1. /\ UNCHANGED <<state, wake_tick, to_sleep, g_tick, isr>> /\ pc' # "arm"
        /\ isr = NoIsr
    BY <1>5 DEF At, hrt_start, ClaimSwitch, hrt_yield, YieldPush, EnterScheduler, Dispatch,
                Goto, kernelVars, tcbVars
  <2> QED BY <1>2, <2>1, SleepKept
<1>6. CASE Sleep
  <2>1. PICK k \in SleepTicks : hrt_sleep(k)
    BY <1>6 DEF Sleep
  <2>2. g_current \in Task /\ pc = "run" /\ state[g_current] = "READY"
    BY <1>1, <2>1 DEF hrt_sleep, At, TypeInv, OwnerKnown, Inv, RunsOnlyReady, Holds
  <2>3. k \in Nat /\ k > 0 /\ 2 * k < TickMod
    BY KernelAssumption DEF SleepsShort
  <2>4. /\ wake_tick' = [wake_tick EXCEPT ![g_current] = (g_tick + k) % TickMod]
        /\ to_sleep' = [to_sleep EXCEPT ![g_current] = k]
        /\ UNCHANGED <<state, g_tick, g_current, isr>> /\ pc' = "arm"
    BY <2>1 DEF hrt_sleep, Goto
  <2>5. /\ wake_tick'[g_current] = (g_tick + k) % TickMod /\ to_sleep'[g_current] = k
        /\ \A t \in Task : t # g_current => /\ wake_tick'[t] = wake_tick[t]
                                            /\ to_sleep'[t] = to_sleep[t]
    BY <1>2, <2>2, <2>4
  <2> QED BY <2>2, <2>3, <2>4, <2>5 DEF SleepInv, Overdue
<1>7. ASSUME NEW s \in {"SLEEP", "UNUSED", "BLOCKED"},
             At("arm") \/ (At("run") /\ s # "SLEEP"), LeaveAs(s)
      PROVE  /\ SleepInv'
             /\ \A t \in Task : state[t] = "SLEEP" /\ state'[t] # "SLEEP" => to_sleep[t] = 0
  <2>1. g_current \in Task /\ state[g_current] = "READY"
    BY <1>1, <1>7 DEF At, TypeInv, OwnerKnown, Inv, RunsOnlyReady, Holds
  <2>2. state'[g_current] = s /\ \A t \in Task : t # g_current => state'[t] = state[t]
    BY <1>2, <1>7, <2>1 DEF LeaveAs
  <2>3. UNCHANGED <<wake_tick, to_sleep, g_tick, isr>> /\ pc' # "arm" /\ isr = NoIsr
    BY <1>7 DEF LeaveAs, Goto, At
  <2>4. \A t \in Task : state'[t] = "SLEEP" =>
                           state[t] = "SLEEP" \/ (pc = "arm" /\ t = g_current)
    BY <1>7, <2>2 DEF At
  <2>5. SleepInv'
    BY <1>2, <2>3, <2>4, SleepKept
  <2> QED BY <2>1, <2>2, <2>5
<1>8. CASE SleepCommit \/ hrt_task_delete \/ Block
  BY <1>7, <1>8 DEF SleepCommit, hrt_task_delete, Block
<1>9. CASE Wake
  <2>1. PICK w \in Task : WakeWaiter(w)
    BY <1>9 DEF Wake
  <2>2. /\ state[w] = "BLOCKED" /\ state'[w] = "READY"
        /\ \A t \in Task : t # w => state'[t] = state[t]
    BY <1>2, <2>1 DEF WakeWaiter, hrt__make_ready
  <2>3. UNCHANGED <<wake_tick, to_sleep, g_tick, isr>> /\ pc' # "arm" /\ isr = NoIsr
    BY <2>1, Zenon DEF WakeWaiter, Goto, At
  <2>4. SleepInv'
    BY <1>2, <2>2, <2>3, SleepKept
  <2> QED BY <2>2, <2>4
<1>10. CASE Tick
  <2>1. /\ UNCHANGED <<state, wake_tick, g_current, pc>>
        /\ TickSrc = "EXTERNAL" => pc # "arm"
        /\ pc = "arm" => to_sleep[g_current] > 0
        /\ g_tick' = (g_tick + 1) % TickMod /\ isr = NoIsr /\ isr' = 0
        /\ to_sleep' = [t \in Task |-> IF to_sleep[t] = 0 THEN 0 ELSE to_sleep[t] - 1]
    BY <1>10 DEF Tick, ArmBound, hrt__inc_tick, tcbVars
  <2>2. ASSUME NEW t \in Task, state[t] = "SLEEP" \/ (pc = "arm" /\ t = g_current)
        PROVE  /\ wake_tick'[t] = (g_tick' + to_sleep'[t]) % TickMod \/ Overdue(t)'
               /\ 2 * to_sleep'[t] < TickMod
               /\ isr' \in 0 .. t
    <3>1. isr \notin 0 .. t
      BY <2>1 DEF NoIsr
    <3>2. wake_tick[t] = (g_tick + to_sleep[t]) % TickMod /\ 2 * to_sleep[t] < TickMod
      BY <2>2, <3>1 DEF SleepInv, Overdue
    <3>3. isr' \in 0 .. t
      BY <2>1, KernelAssumption DEF Task
    <3>4. TickMod \in Nat \ {0} /\ g_tick \in 0 .. (TickMod - 1) /\ to_sleep[t] \in Nat
      BY <1>1, <1>2, KernelAssumption DEF TypeInv, TypeOK, KernelTypeOK
    <3>5. CASE to_sleep[t] = 0
      <4>1. state[t] = "SLEEP" /\ to_sleep'[t] = 0
        BY <2>1, <2>2, <3>5
      <4>2. wake_tick[t] = g_tick
        BY <3>2, <3>4, <3>5
      <4>3. Overdue(t)'
        BY <2>1, <3>3, <4>1, <4>2 DEF Overdue
      <4> QED BY <3>3, <3>4, <4>1, <4>3
    <3>6. CASE to_sleep[t] # 0
      <4>1. to_sleep'[t] = to_sleep[t] - 1
        BY <2>1, <3>6
      <4>2. to_sleep[t] \in Nat \ {0} /\ to_sleep[t] < TickMod
        BY <3>2, <3>4, <3>6
      <4>3. wake_tick[t] = (((g_tick + 1) % TickMod) + (to_sleep[t] - 1)) % TickMod
        BY <3>2, <3>4, <4>2, TickPassed, Zenon
      <4>4. 2 * to_sleep'[t] < TickMod
        BY <3>2, <3>4, <4>1, <4>2
      <4> QED BY <2>1, <3>3, <4>1, <4>3, <4>4
    <3> QED BY <3>5, <3>6
  <2> QED BY <2>1, <2>2 DEF SleepInv
<1>11. CASE TickWake
  <2>1. /\ isr \in Task /\ isr' = isr + 1 /\ pc' = pc /\ isr # NoIsr
        /\ UNCHANGED <<wake_tick, to_sleep, g_tick, g_current>>
    <3>1. \A t \in Task : t # NoIsr
      BY KernelAssumption DEF Task, NoIsr
    <3> QED BY <1>11, <3>1 DEF TickWake
  <2>2. \A t \in Task : t # isr => state'[t] = state[t]
    BY <1>2, <1>11 DEF TickWake, hrt__make_ready
  <2>3. state[isr] = "SLEEP" => (Due(isr) <=> to_sleep[isr] = 0)
    BY <1>1, <2>1, DueWhenPassed
  <2>4. state'[isr] = "SLEEP" => state[isr] = "SLEEP" /\ ~ Due(isr)
    BY <1>2, <1>11 DEF TickWake, hrt__make_ready
  <2>5. state[isr] = "SLEEP" /\ state'[isr] # "SLEEP" => Due(isr)
    BY <1>11 DEF TickWake
  <2>6. ASSUME NEW t \in Task, isr \in 0 .. t, t # isr  PROVE isr' \in 0 .. t
    <3>1. t \in Nat /\ isr \in Nat
      BY <2>1, KernelAssumption DEF Task
    <3> QED BY <2>1, <2>6, <3>1
  <2>7. ASSUME NEW t \in Task, state'[t] = "SLEEP"
        PROVE  /\ state[t] = "SLEEP"
               /\ to_sleep[t] = 0 => t # isr /\ isr' \in 0 .. t
    <3>1. state[t] = "SLEEP" /\ (to_sleep[t] = 0 => t # isr)
      BY <2>2, <2>3, <2>4, <2>7
    <3>2. to_sleep[t] = 0 => isr \in 0 .. t
      BY <2>1, <3>1 DEF SleepInv
    <3> QED BY <2>6, <3>1, <3>2
  <2>8. ASSUME NEW t \in Task, state'[t] = "SLEEP" \/ (pc = "arm" /\ t = g_current)
        PROVE  /\ wake_tick[t] = (g_tick + to_sleep[t]) % TickMod \/ Overdue(t)'
               /\ 2 * to_sleep[t] < TickMod
    <3>1. CASE state'[t] = "SLEEP"
      BY <2>1, <2>7, <3>1 DEF SleepInv, Overdue
    <3>2. CASE pc = "arm" /\ t = g_current
      <4>1. state[t] # "SLEEP"
        BY <3>2 DEF Inv, RunsOnlyReady, Holds
      <4> QED BY <3>2, <4>1 DEF SleepInv, Overdue
    <3> QED BY <2>8, <3>1, <3>2
  <2>9. TickSrc = "EXTERNAL" => pc # "arm"
    BY <2>1 DEF Inv, TickInCaller
  <2>10. SleepInv'
    BY <2>1, <2>7, <2>8, <2>9 DEF SleepInv
  <2> QED BY <2>2, <2>3, <2>5, <2>10
<1>12. CASE TickEnd
  <2>1. /\ UNCHANGED <<state, wake_tick, to_sleep, g_tick, g_current, pc>>
        /\ isr = MaxTasks /\ isr # NoIsr
    BY <1>12, KernelAssumption DEF TickEnd, NoIsr
  <2>2. \A t \in Task : isr \notin 0 .. t
    BY <2>1, KernelAssumption DEF Task
  <2>3. \A t \in Task : ~ Overdue(t)
    BY <2>2 DEF Overdue
  <2> QED BY <2>1, <2>2, <2>3 DEF SleepInv
<1> QED
  BY <1>3, <1>4, <1>5, <1>6, <1>8, <1>9, <1>10, <1>11, <1>12 DEF Next

(* Nobody sleeps after hrt_init.                                            *)
LEMMA SleepInit == Init => SleepInv
BY DEF Init, hrt_init, SleepInv

(* No sleeper is woken before its ticks have passed, with application ticks *)
(* and, under the conditions of ReadyQueueCorrect, with the timer signal.   *)
THEOREM NeverWokenEarly ==
  ASSUME Configured, SleepsShort
  PROVE  TimelySpec => NoEarlyWake
<1>1. Inv /\ SleepInv /\ [Next]_vars => SleepInv'
  BY SleepNext
<1>2. Inv /\ SleepInv /\ [Next]_vars =>
        [\A t \in Task : state[t] = "SLEEP" /\ state'[t] # "SLEEP" => to_sleep[t] = 0]_vars
  BY SleepNext
<1> QED BY <1>1, <1>2, InvAlways, SleepInit, PTL DEF TimelySpec, Spec, NoEarlyWake

(* No sleeper sleeps on after the tick at which they have passed, if ticks  *)
(* come from the application.                                               *)
THEOREM NeverWokenLate ==
  ASSUME Configured, SleepsShort, TickSrc = "EXTERNAL"
  PROVE  Spec => []NoLateWake
<1>1. Inv /\ SleepInv /\ [Next]_vars => SleepInv'
  BY SleepNext
<1>2. Inv /\ SleepInv => NoLateWake
  <2> SUFFICES ASSUME Inv, SleepInv, isr = NoIsr, NEW t \in Task, state[t] = "SLEEP"
               PROVE  to_sleep[t] > 0
    BY DEF NoLateWake
  <2>1. to_sleep[t] \in Nat /\ (to_sleep[t] = 0 => isr \in 0 .. t)
    BY DEF Inv, TypeOK, KernelTypeOK, SleepInv
  <2> QED BY <2>1 DEF NoIsr
<1>3. CalmTicks
  BY DEF CalmTicks
<1> QED BY <1>1, <1>2, <1>3, InvAlways, SleepInit, PTL DEF TimelySpec, Spec

(* ... and with the timer signal, which can come between the two statements *)
(* of hrt_sleep, not after the tick that follows.                           *)
THEOREM AtMostOneTickLate ==
  ASSUME Configured, SleepsShort
  PROVE  TimelySpec => []WokenAtNextTick
<1>1. Inv /\ SleepInv /\ [Next]_vars => SleepInv'
  BY SleepNext
<1>2. Inv /\ SleepInv => WokenAtNextTick
  <2> SUFFICES ASSUME Inv, SleepInv, isr = NoIsr, NEW t \in Task, state[t] = "SLEEP",
                      ~ to_sleep[t] > 0
               PROVE  wake_tick[t] = g_tick
    BY DEF WokenAtNextTick
  <2>1. /\ TickMod \in Nat \ {0} /\ g_tick \in 0 .. (TickMod - 1)
        /\ to_sleep[t] = 0
    BY KernelAssumption DEF Inv, TypeOK, KernelTypeOK
  <2>2. ~ Overdue(t)
    BY DEF Overdue, NoIsr
  <2>3. wake_tick[t] = (g_tick + to_sleep[t]) % TickMod
    BY <2>2 DEF SleepInv
  <2> QED BY <2>1, <2>3
<1> QED BY <1>1, <1>2, InvAlways, SleepInit, PTL DEF TimelySpec, Spec

-----------------------------------------------------------------------------
(* The kernel on the POSIX port implements the scheduler of module Sched.   *)

(* One task changes its status.                                             *)
LEMMA OneBecomes ==
  ASSUME NEW id \in Task, NEW from, NEW to,
         Status(id) = from, Status(id)' = to,
         \A t \in Task : t # id => Status(t)' = Status(t)
  PROVE  Abstract!Becomes(id, from, to)
<1>1. [t \in Task |-> Status(t)]' = [[t \in Task |-> Status(t)] EXCEPT ![id] = to]
  OBVIOUS
<1> QED BY <1>1 DEF Abstract!Becomes

(* Nobody does.                                                             *)
LEMMA NoneBecomes ==
  ASSUME UNCHANGED <<state, prio>>, \A t \in Task : Holds(t)' = Holds(t)
  PROVE  UNCHANGED <<[t \in Task |-> Status(t)], prio>>
BY DEF Status

(* Every step of the kernel and of the port is a step of Sched or leaves    *)
(* its variables unchanged.                                                 *)
LEMMA StepRefines ==
  ASSUME Configured, Inv, [Next]_vars
  PROVE  Abstract!Next \/ UNCHANGED <<[t \in Task |-> Status(t)], prio>>
<1>1. state \in [Task -> State] /\ prio \in [Task -> Nat] /\ OwnerKnown /\ RunsOnlyReady
  BY DEF Inv, TypeOK, KernelTypeOK
<1>2. CASE CreateTask
  <2>1. PICK p \in Prio, slice \in Nat : hrt_create_task(p, slice)
    <3>1. NullAttr => 1 \in Prio
      BY KernelAssumption DEF Configured, Prio
    <3>2. \A a \in Attrs : a.prio \in Prio /\ a.slice \in Nat
      BY KernelAssumption DEF Configured
    <3>3. g_default_slice \in Nat
      BY DEF Inv, TypeOK, KernelTypeOK
    <3> QED BY <1>2, <3>1, <3>2, <3>3 DEF CreateTask
  <2> DEFINE id == CHOOSE t \in FreeSlots : \A u \in FreeSlots : t <= u
  <2>2. id \in Task /\ state[id] = "UNUSED"
    BY <1>2, CreateLeavesIdle DEF CreateTask
  <2> HIDE DEF id
  <2>3. /\ state' = [state EXCEPT ![id] = "READY"]
        /\ prio' = [prio EXCEPT ![id] = p]
        /\ UNCHANGED <<g_current, pc>>
    BY <1>2, <2>1 DEF hrt_create_task, id, CreateTask, portVars
  <2>4. /\ state'[id] = "READY" /\ ~ Holds(id)
        /\ \A t \in Task : t # id => state'[t] = state[t]
        /\ \A t \in Task : Holds(t)' = Holds(t)
    BY <1>1, <2>2, <2>3 DEF RunsOnlyReady, Holds
  <2>5. Abstract!Becomes(id, "unused", "ready")
    BY <2>2, <2>4, OneBecomes DEF Status
  <2>6. Abstract!Create(id)
    BY <2>3, <2>5, Zenon DEF Abstract!Create
  <2> QED BY <2>2, <2>6 DEF Abstract!Next
<1>3. CASE \/ CreateTaskFails \/ SetPolicy \/ SetDefaultTimeslice \/ UNCHANGED vars
           \/ IdleWait \/ Tick \/ TickEnd
  <2>1. UNCHANGED <<state, prio, g_current, pc>>
    BY <1>3 DEF CreateTaskFails, SetPolicy, SetDefaultTimeslice, IdleWait, Tick, TickEnd,
                vars, hrt_create_task_fails, hrt_set_policy, hrt_set_default_timeslice,
                kernelVars, tcbVars, portVars
  <2> QED BY <2>1, NoneBecomes DEF Holds
<1>4. CASE \/ hrt_start \/ ClaimSwitch \/ EnterScheduler
           \/ hrt_yield \/ Sleep
  <2>1. /\ UNCHANGED <<state, prio, g_current>>
        /\ \/ pc \in {"main", "loop", "hop"} /\ pc' \in {"loop", "pick"}
           \/ pc \in {"run", "woke"} /\ pc' \in {"push", "arm"}
    BY <1>1, <1>4
    DEF hrt_start, ClaimSwitch, EnterScheduler, hrt_yield, Sleep, hrt_sleep, At, Goto,
        kernelVars, tcbVars, OwnerKnown, RunsOnlyReady, Holds
  <2> QED BY <2>1, NoneBecomes DEF Holds
<1>5. CASE YieldPush
  <2>1. /\ UNCHANGED <<state, prio, g_current>> /\ pc = "push" /\ pc' = "hop"
        /\ g_current \in Task /\ Holds(g_current) /\ state[g_current] = "READY"
    BY <1>1, <1>5 DEF YieldPush, At, Goto, tcbVars, OwnerKnown, Holds, RunsOnlyReady
  <2>2. Abstract!Becomes(g_current, "running", "ready")
    BY <2>1, OneBecomes DEF Status, Holds
  <2>3. Abstract!Yield(g_current)
    BY <2>1, <2>2 DEF Abstract!Yield
  <2> QED BY <2>1, <2>3 DEF Abstract!Next
<1>6. ASSUME NEW s \in {"SLEEP", "UNUSED", "BLOCKED"},
             At("run") \/ At("arm"), LeaveAs(s)
      PROVE  Abstract!Next
  <2>1. /\ UNCHANGED <<prio, g_current>> /\ pc \in {"run", "arm"} /\ pc' = "hop"
        /\ g_current \in Task /\ Holds(g_current)
        /\ state' = [state EXCEPT ![g_current] = s]
    BY <1>1, <1>6 DEF LeaveAs, At, Goto, OwnerKnown, Holds
  <2>2. state'[g_current] = s /\ \A t \in Task : t # g_current => state'[t] = state[t]
    BY <1>1, <2>1
  <2>3. CASE s = "UNUSED"
    <3>1. Abstract!Becomes(g_current, "running", "unused")
      BY <2>1, <2>2, <2>3, OneBecomes DEF Status, Holds
    <3>2. Abstract!Exit(g_current)
      BY <2>1, <3>1 DEF Abstract!Exit
    <3> QED BY <2>1, <3>2 DEF Abstract!Next
  <2>4. CASE s # "UNUSED"
    <3>1. Abstract!Becomes(g_current, "running", "waiting")
      BY <2>1, <2>2, <2>4, OneBecomes DEF Status, Holds
    <3>2. Abstract!Wait(g_current)
      BY <2>1, <3>1 DEF Abstract!Wait
    <3> QED BY <2>1, <3>2 DEF Abstract!Next
  <2> QED BY <2>3, <2>4
<1>7. CASE SleepCommit \/ hrt_task_delete \/ Block
  BY <1>6, <1>7 DEF SleepCommit, hrt_task_delete, Block
<1>8. ASSUME NEW w \in Task, state[w] \in {"BLOCKED", "SLEEP"}, hrt__make_ready(w),
             UNCHANGED <<prio, g_current>>,
             pc' = pc \/ (pc = "run" /\ pc' = "woke")
      PROVE  Abstract!Next
  <2>1. /\ state'[w] = "READY" /\ ~ Holds(w)
        /\ \A t \in Task : t # w => state'[t] = state[t]
        /\ \A t \in Task : Holds(t)' = Holds(t)
    BY <1>1, <1>8 DEF hrt__make_ready, RunsOnlyReady, Holds
  <2>2. Abstract!Becomes(w, "waiting", "ready")
    BY <1>8, <2>1, OneBecomes DEF Status
  <2>3. Abstract!Wake(w)
    BY <1>8, <2>2 DEF Abstract!Wake
  <2> QED BY <2>3 DEF Abstract!Next
<1>9. CASE Wake
  <2>1. PICK w \in Task : WakeWaiter(w)
    BY <1>9 DEF Wake
  <2> QED BY <1>8, <2>1, Zenon DEF WakeWaiter, At, Goto
<1>10. CASE TickWake
  <2>1. CASE state[isr] = "SLEEP" /\ Due(isr)
    BY <1>8, <1>10, <2>1 DEF TickWake
  <2>2. CASE ~ (state[isr] = "SLEEP" /\ Due(isr))
    <3>1. UNCHANGED <<state, prio, g_current, pc>>
      BY <1>10, <2>2 DEF TickWake
    <3> QED BY <3>1, NoneBecomes DEF Holds
  <2> QED BY <2>1, <2>2
<1>11. CASE Dispatch
  <2>1. UNCHANGED <<state, prio>> /\ pc = "pick" /\ pc' \in {"run", "loop"}
    BY <1>11 DEF Dispatch, At, Goto, tcbVars
  <2>2. CASE pc' = "loop"
    BY <2>1, <2>2, NoneBecomes DEF Holds
  <2>3. CASE pc' = "run"
    <3>1. /\ g_current' \in Waiting
          /\ \A t \in Task : state[t] = "READY" => prio[g_current'] <= prio[t]
      BY <1>11, <2>3, DispatchHighest
    <3>2. g_current' \in Task /\ state[g_current'] = "READY" /\ \A t \in Task : ~ Holds(t)
      BY <2>1, <3>1 DEF Waiting, Holds
    <3>3. Abstract!Becomes(g_current', "ready", "running")
      BY <2>1, <2>3, <3>2, OneBecomes DEF Status, Holds
    <3>4. Abstract!Running = {}
      BY <3>2 DEF Abstract!Running, Status
    <3>5. \A u \in Task : Status(u) = "ready" => prio[g_current'] <= prio[u]
      BY <3>1 DEF Status
    <3>6. Abstract!Dispatch(g_current')
      BY <2>1, <3>3, <3>4, <3>5 DEF Abstract!Dispatch
    <3> QED BY <3>2, <3>6 DEF Abstract!Next
  <2> QED BY <2>1, <2>2, <2>3
<1> QED
  BY <1>2, <1>3, <1>4, <1>5, <1>7, <1>9, <1>10, <1>11 DEF Next

(* Every behaviour of the kernel on this port, with any number of tasks and *)
(* priorities, is one of the abstract scheduler: with application ticks, or *)
(* with the timer signal under the conditions of ReadyQueueCorrect.         *)
THEOREM PosixImplementsSched ==
  ASSUME Configured
  PROVE  TimelySpec => ImplementsSched
<1>1. TimelySpec => []Inv
  BY InvAlways
<1>2. Init => Abstract!Init
  BY DEF Init, hrt_init, Abstract!Init, Status, Holds
<1>3. Inv /\ [Next]_vars =>
        [Abstract!Next]_<<[t \in Task |-> Status(t)], prio>>
  BY StepRefines
<1> QED BY <1>1, <1>2, <1>3, PTL DEF TimelySpec, Spec, ImplementsSched, Abstract!Spec
=============================================================================
