---------------------------- MODULE MutexProofs ----------------------------
(***************************************************************************)
(* Mutual exclusion, ownership and the waiter queue of hrt_mutex_t, for    *)
(* any number of tasks.                                                    *)
(***************************************************************************)
EXTENDS Mutex, QueueProofs

Blocked == {t \in Task : state[t] = "BLOCKED"}

(* WaitersBlocked, in terms of the lemmas on waiter queues.                 *)
LEMMA WaitersEachOnce ==
  ASSUME waiters \in Seq(Task)
  PROVE  WaitersBlocked <=> /\ EachOnce(waiters, Blocked)
                            /\ \A t \in Blocked : at[t] = "wait"
                            /\ waiters # <<>> => locked
<1>1. \A i \in 1 .. Len(waiters) : waiters[i] \in Task
  OBVIOUS
<1> QED BY <1>1 DEF WaitersBlocked, EachOnce, Blocked

(* The same of the next state.                                              *)
LEMMA WaitersEachOnceNext ==
  ASSUME waiters' \in Seq(Task), EachOnce(waiters', Blocked'),
         \A t \in Blocked' : at'[t] = "wait", waiters' # <<>> => locked'
  PROVE  WaitersBlocked'
<1>1. \A i \in 1 .. Len(waiters') : waiters'[i] \in Task
  OBVIOUS
<1> QED BY <1>1 DEF WaitersBlocked, EachOnce, Blocked

(* hrt_mutex_init establishes the invariant.                                *)
LEMMA InvInit == ASSUME Init  PROVE Inv
<1>1. waiters \in Seq(Task) /\ Len(waiters) <= MaxTasks
  BY MutexAssumption DEF Init, hrt_mutex_init
<1>2. TypeOK
  BY <1>1 DEF Init, hrt_mutex_init, TypeOK
<1>3. Handed = {}
  BY DEF Init, Handed, At
<1>4. WaitersBlocked
  BY DEF Init, hrt_mutex_init, WaitersBlocked
<1> QED BY <1>2, <1>3, <1>4
        DEF Init, hrt_mutex_init, Inv, MutualExclusion, OwnerHolds

(* A task takes a free mutex, on the fast path or after looking again: it   *)
(* is the only one that holds it, and nobody waits.                         *)
LEMMA AcquireKeeps ==
  ASSUME Inv, NEW t \in Task, At(t, "run") \/ At(t, "slow"), Acquire(t),
         UNCHANGED at \/ Goto(t, "run")
  PROVE  Inv'
<1>1. TypeOK /\ ~ locked /\ holds = {} /\ Handed = {} /\ waiters = <<>>
  BY DEF Inv, Acquire, MutualExclusion, WaitersBlocked
<1>2. /\ locked' = TRUE /\ owner' = t /\ holds' = {t} /\ waiters' = waiters
      /\ state' = state /\ g_error' = g_error
  BY <1>1 DEF Acquire
<1>3. /\ at' \in [Task -> {"run", "slow", "wait"}]
      /\ \A u \in Task : at'[u] = at[u] \/ (u = t /\ at'[u] = "run")
  BY <1>1 DEF TypeOK, Goto
<1>4. TypeOK'
  BY <1>1, <1>2, <1>3 DEF TypeOK
<1>5. Handed' = {}
  BY <1>1, <1>2, <1>3 DEF Handed, At
<1>6. WaitersBlocked'
  <2>1. \A u \in Task : state[u] # "BLOCKED"
    BY <1>1 DEF Inv, WaitersBlocked
  <2> QED BY <1>1, <1>2, <2>1 DEF WaitersBlocked
<1>7. \A u \in Task : state'[u] = "UNUSED" => at'[u] = "run"
  BY <1>2, <1>3 DEF Inv
<1>8. t # HRT_MUTEX_NO_OWNER
  BY MutexAssumption DEF Task, HRT_MUTEX_NO_OWNER
<1> QED BY <1>2, <1>4, <1>5, <1>6, <1>7, <1>8 DEF Inv, MutualExclusion, OwnerHolds

(* A refused attempt changes nothing but the error and the place.           *)
LEMMA RefusedKeeps ==
  ASSUME Inv, NEW t \in Task, At(t, "run") \/ At(t, "slow"), Refused(t),
         UNCHANGED at \/ Goto(t, "run") \/ (At(t, "run") /\ Goto(t, "slow"))
  PROVE  Inv'
<1>1. TypeOK
  BY DEF Inv
<1>2. UNCHANGED <<locked, owner, waiters, state, holds>>
  BY DEF Refused, mutexVars
<1>3. /\ at' \in [Task -> {"run", "slow", "wait"}]
      /\ \A u \in Task : at'[u] = at[u] \/ (u = t /\ at'[u] # "wait" /\ at[u] # "wait")
  BY <1>1 DEF TypeOK, Goto, At
<1>4. TypeOK'
  <2>1. g_error' \in {"NONE", "ERR_MUTEX_RECURSIVE", "ERR_MUTEX_OWNER", "ERR_MUTEX_BAD_CTX"}
    BY <1>1 DEF TypeOK, Refused
  <2> QED BY <1>1, <1>2, <1>3, <2>1 DEF TypeOK
<1>5. Handed' = Handed
  BY <1>2, <1>3 DEF Handed, At
<1>6. WaitersBlocked'
  BY <1>2, <1>3 DEF Inv, WaitersBlocked
<1>7. \A u \in Task : state'[u] = "UNUSED" => at'[u] = "run"
  BY <1>2, <1>3 DEF Inv, At
<1> QED BY <1>2, <1>4, <1>5, <1>6, <1>7 DEF Inv, MutualExclusion, OwnerHolds

(* A task blocks behind the waiters of a mutex somebody else owns.          *)
LEMMA EnqueueKeeps ==
  ASSUME Inv, NEW t \in Task, At(t, "slow"), locked, owner # t, Enqueue(t)
  PROVE  Inv'
<1>1. TypeOK /\ WaitersBlocked /\ t \notin Blocked
  BY DEF Inv, At, Blocked
<1>2. EachOnce(waiters, Blocked) /\ \A u \in Blocked : at[u] = "wait"
  BY <1>1, WaitersEachOnce DEF TypeOK
<1>3. Len(waiters) < MaxTasks
  BY <1>1, <1>2, HasRoom, MutexAssumption DEF TypeOK, Task
<1>4. /\ waiters' = Append(waiters, t)
      /\ state' = [state EXCEPT ![t] = "BLOCKED"] /\ at' = [at EXCEPT ![t] = "wait"]
      /\ UNCHANGED <<locked, owner, g_error, holds>>
  BY <1>1, <1>3, MutexAssumption DEF Enqueue, _waitq_push, Goto, TypeOK
<1>5. TypeOK'
  BY <1>1, <1>3, <1>4, MutexAssumption DEF TypeOK
<1>6. Blocked' = Blocked \cup {t}
  BY <1>1, <1>4 DEF Blocked, TypeOK
<1>7. WaitersBlocked'
  <2>1. EachOnce(waiters', Blocked')
    BY <1>1, <1>2, <1>4, <1>6, AppendWaits DEF TypeOK
  <2>2. \A u \in Blocked' : at'[u] = "wait"
    BY <1>1, <1>2, <1>4, <1>6 DEF TypeOK, Blocked
  <2> QED BY <1>4, <1>5, <2>1, <2>2, WaitersEachOnceNext DEF TypeOK
<1>8. Handed' = Handed
  BY <1>1, <1>4 DEF Handed, At, TypeOK
<1>9. \A u \in Task : state'[u] = "UNUSED" => at'[u] = "run"
  BY <1>1, <1>4 DEF Inv, TypeOK
<1> QED BY <1>4, <1>5, <1>7, <1>8, <1>9 DEF Inv, MutualExclusion, OwnerHolds

(* hrt_mutex_lock returns to the task the mutex was handed to.              *)
LEMMA LockReturnsKeeps ==
  ASSUME Inv, NEW t \in Task, LockReturns(t)
  PROVE  Inv'
<1>1. TypeOK /\ WaitersBlocked /\ t \in Handed
  BY DEF Inv, LockReturns, Handed
<1>2. /\ locked /\ owner = t /\ \A u \in Handed : u = t
  BY <1>1 DEF Inv
<1>3. /\ at' = [at EXCEPT ![t] = "run"] /\ holds' = holds \cup {t}
      /\ UNCHANGED <<locked, owner, waiters, state, g_error>>
  BY DEF LockReturns, Goto, mutexVars
<1>4. TypeOK'
  BY <1>1, <1>3 DEF TypeOK
<1>5. Handed' = {}
  BY <1>1, <1>2, <1>3 DEF Handed, At, TypeOK
<1>6. WaitersBlocked'
  BY <1>1, <1>3 DEF WaitersBlocked, TypeOK, Handed, At
<1>7. \A u \in Task : state'[u] = "UNUSED" => at'[u] = "run"
  BY <1>1, <1>3 DEF Inv, TypeOK
<1> QED BY <1>2, <1>3, <1>4, <1>5, <1>6, <1>7 DEF Inv, MutualExclusion, OwnerHolds

(* hrt_mutex_unlock by the owner, with waiters: the first of them owns the  *)
(* mutex and has not resumed; nobody holds it meanwhile.                    *)
LEMMA HandOverKeeps ==
  ASSUME Inv, NEW t \in Task, At(t, "run"), Owns(t), waiters # <<>>, HandOver,
         holds' = holds \ {t}, UNCHANGED <<at, g_error>>
  PROVE  Inv'
<1> DEFINE h == Head(waiters)
<1>1. TypeOK /\ WaitersBlocked /\ locked /\ owner = t
  BY DEF Inv, Owns
<1>2. EachOnce(waiters, Blocked) /\ \A u \in Blocked : at[u] = "wait"
  BY <1>1, WaitersEachOnce DEF TypeOK
<1>3. /\ h \in Blocked /\ h \in Task
      /\ Tail(waiters) \in Seq(Task) /\ Len(Tail(waiters)) = Len(waiters) - 1
      /\ EachOnce(Tail(waiters), Blocked \ {h})
  BY <1>1, <1>2, TailWaits DEF TypeOK
<1> HIDE DEF h
<1>4. /\ owner' = h /\ waiters' = Tail(waiters)
      /\ state' = [state EXCEPT ![h] = "READY"]
      /\ locked' = locked /\ at' = at /\ g_error' = g_error
  BY DEF HandOver, h
<1>5. holds' = {}
  BY <1>1 DEF Inv, MutualExclusion
<1>6. Handed = {}
  BY <1>1 DEF Inv, Handed, At
<1>7. TypeOK'
  <2>1. Len(waiters') <= MaxTasks
    BY <1>1, <1>3, <1>4, MutexAssumption DEF TypeOK
  <2>2. state' \in [Task -> {"READY", "BLOCKED", "UNUSED"}]
    BY <1>1, <1>4 DEF TypeOK
  <2> QED BY <1>1, <1>3, <1>4, <1>5, <2>1, <2>2 DEF TypeOK
<1>8. Blocked' = Blocked \ {h}
  BY <1>1, <1>3, <1>4 DEF Blocked, TypeOK
<1>9. WaitersBlocked'
  BY <1>1, <1>2, <1>3, <1>4, <1>8, WaitersEachOnceNext
<1>10. Handed' = {h}
  BY <1>1, <1>2, <1>3, <1>4, <1>6 DEF Handed, At, TypeOK
<1>11. \A u \in Task : state'[u] = "UNUSED" => at'[u] = "run"
  BY <1>1, <1>4 DEF Inv, TypeOK
<1>12. h # HRT_MUTEX_NO_OWNER
  BY <1>3, MutexAssumption DEF Task, HRT_MUTEX_NO_OWNER
<1> QED BY <1>1, <1>4, <1>5, <1>7, <1>9, <1>10, <1>11, <1>12
        DEF Inv, MutualExclusion, OwnerHolds

(* hrt_mutex_unlock by any task.                                            *)
LEMMA UnlockKeeps ==
  ASSUME Inv, NEW t \in Task, hrt_mutex_unlock(t)
  PROVE  Inv'
<1>1. TypeOK /\ At(t, "run") /\ at' = at
  BY DEF Inv, hrt_mutex_unlock
<1>2. CASE ~ Owns(t)
  <2>1. /\ g_error' = "ERR_MUTEX_OWNER"
        /\ UNCHANGED <<locked, owner, waiters, state, at, holds>>
    BY <1>1, <1>2 DEF hrt_mutex_unlock, mutexVars
  <2>2. TypeOK'
    BY <1>1, <2>1 DEF TypeOK
  <2>3. Handed' = Handed /\ WaitersBlocked'
    BY <2>1 DEF Inv, Handed, At, WaitersBlocked
  <2> QED BY <2>1, <2>2, <2>3 DEF Inv, MutualExclusion, OwnerHolds
<1>3. CASE Owns(t) /\ waiters # <<>>
  BY <1>1, <1>3, HandOverKeeps DEF hrt_mutex_unlock
<1>4. CASE Owns(t) /\ waiters = <<>>
  <2>1. /\ locked' = FALSE /\ owner' = HRT_MUTEX_NO_OWNER /\ holds' = holds \ {t}
        /\ UNCHANGED <<waiters, state, at, g_error>>
    BY <1>1, <1>4 DEF hrt_mutex_unlock
  <2>2. holds' = {}
    BY <1>4, <2>1 DEF Inv, MutualExclusion, Owns
  <2>3. Handed' = {}
    BY <1>1, <1>4, <2>1 DEF Inv, Handed, At, Owns
  <2>4. TypeOK'
    BY <1>1, <2>1 DEF TypeOK
  <2>5. WaitersBlocked'
    BY <1>4, <2>1 DEF Inv, WaitersBlocked
  <2> QED BY <2>1, <2>2, <2>3, <2>4, <2>5 DEF Inv, MutualExclusion, OwnerHolds
<1> QED BY <1>2, <1>3, <1>4

(* A task that does not hold the mutex is deleted, or one is created: it    *)
(* is neither the owner nor a waiter.                                       *)
LEMMA LifeKeeps ==
  ASSUME Inv, NEW t \in Task, hrt_task_delete(t) \/ hrt_create_task(t)
  PROVE  Inv'
<1>1. TypeOK /\ state[t] # "BLOCKED" /\ at[t] = "run"
  BY DEF Inv, hrt_task_delete, hrt_create_task, At
<1>2. /\ UNCHANGED <<locked, owner, waiters, at, g_error, holds>>
      /\ state' \in [Task -> {"READY", "BLOCKED", "UNUSED"}]
      /\ state'[t] # "BLOCKED" /\ \A u \in Task : u # t => state'[u] = state[u]
  BY <1>1 DEF hrt_task_delete, hrt_create_task, mutexVars, TypeOK
<1>3. TypeOK'
  BY <1>1, <1>2 DEF TypeOK
<1>4. Handed' = Handed
  BY <1>1, <1>2 DEF Handed, At
<1>5. WaitersBlocked'
  <2>1. \A i \in 1 .. Len(waiters) : waiters[i] \in Task /\ waiters[i] # t
    BY <1>1 DEF Inv, WaitersBlocked, TypeOK
  <2> QED BY <1>1, <1>2, <2>1 DEF Inv, WaitersBlocked
<1>6. \A u \in Task : state'[u] = "UNUSED" => at'[u] = "run"
  BY <1>1, <1>2 DEF Inv
<1> QED BY <1>2, <1>3, <1>4, <1>5, <1>6 DEF Inv, MutualExclusion, OwnerHolds

(* Every step keeps the invariant.                                          *)
LEMMA InvNext == ASSUME Inv, [Next]_vars  PROVE Inv'
<1>1. CASE BadContext
  <2>1. UNCHANGED <<locked, owner, waiters, state, at, holds>>
    BY <1>1 DEF BadContext, mutexVars
  <2>2. TypeOK'
    BY <1>1, <2>1 DEF Inv, TypeOK, BadContext
  <2>3. Handed' = Handed /\ WaitersBlocked'
    BY <2>1 DEF Inv, Handed, At, WaitersBlocked
  <2> QED BY <2>1, <2>2, <2>3 DEF Inv, MutualExclusion, OwnerHolds
<1>2. ASSUME NEW t \in Task, hrt_mutex_try_lock(t)  PROVE Inv'
  BY <1>2, AcquireKeeps, RefusedKeeps DEF hrt_mutex_try_lock
<1>3. ASSUME NEW t \in Task, hrt_mutex_lock(t)  PROVE Inv'
  BY <1>3, AcquireKeeps, RefusedKeeps DEF hrt_mutex_lock
<1>4. ASSUME NEW t \in Task, LockSlow(t)  PROVE Inv'
  BY <1>4, AcquireKeeps, RefusedKeeps, EnqueueKeeps DEF LockSlow
<1>5. ASSUME NEW t \in Task, LockReturns(t)  PROVE Inv'
  BY <1>5, LockReturnsKeeps
<1>6. ASSUME NEW t \in Task, hrt_mutex_unlock(t)  PROVE Inv'
  BY <1>6, UnlockKeeps
<1>7. ASSUME NEW t \in Task, hrt_task_delete(t) \/ hrt_create_task(t)  PROVE Inv'
  BY <1>7, LifeKeeps
<1>8. CASE UNCHANGED vars
  <2>1. UNCHANGED <<locked, owner, waiters, state, at, g_error, holds>>
    BY <1>8 DEF vars, mutexVars
  <2>2. TypeOK' /\ Handed' = Handed /\ WaitersBlocked'
    BY <2>1 DEF Inv, TypeOK, Handed, At, WaitersBlocked
  <2> QED BY <2>1, <2>2 DEF Inv, MutualExclusion, OwnerHolds
<1> QED BY <1>1, <1>2, <1>3, <1>4, <1>5, <1>6, <1>7, <1>8 DEF Next

(* The invariant holds throughout every execution.                          *)
LEMMA MutexInvariant == Spec => []Inv
BY InvInit, InvNext, PTL DEF Spec

(* hrt_mutex_lock and hrt_mutex_try_lock return 0 to one task at a time:    *)
(* who holds the mutex owns it, for any number of tasks.                    *)
THEOREM MutexExcludes == Spec => []MutualExclusion
<1>1. Inv => MutualExclusion
  BY DEF Inv
<1> QED BY <1>1, MutexInvariant, PTL

(* A locked mutex has an owner that holds it or is about to, so that        *)
(* hrt_mutex_unlock can be called with success.                             *)
THEOREM NeverOrphaned == Spec => []OwnerHolds
<1>1. Inv => OwnerHolds
  BY DEF Inv
<1> QED BY <1>1, MutexInvariant, PTL

(* The waiter queue is exactly the tasks blocked in hrt_mutex_lock; in      *)
(* particular _waitq_push never drops a task and nobody waits for a free    *)
(* mutex.                                                                   *)
THEOREM WaitersAreBlocked == Spec => []WaitersBlocked
<1>1. Inv => WaitersBlocked
  BY DEF Inv
<1> QED BY <1>1, MutexInvariant, PTL

(* With waiters, a step that changes the owner is hrt_mutex_unlock handing  *)
(* the mutex to the first of them.                                          *)
LEMMA FirstWaiterStep ==
  ASSUME Inv, [Next]_vars
  PROVE  [waiters # <<>> /\ owner' # owner => owner' = Head(waiters)]_vars
<1> SUFFICES ASSUME waiters # <<>>, owner' # owner  PROVE owner' = Head(waiters)
  OBVIOUS
<1>1. locked
  BY DEF Inv, WaitersBlocked
<1>2. PICK t \in Task : hrt_mutex_unlock(t)
  BY <1>1 DEF Next, vars, mutexVars, BadContext, hrt_mutex_try_lock, hrt_mutex_lock,
              LockSlow, LockReturns, Acquire, Refused, Enqueue, hrt_task_delete,
              hrt_create_task
<1> QED BY <1>2 DEF hrt_mutex_unlock, HandOver, mutexVars

(* Tasks get the mutex in the order in which they blocked in                *)
(* hrt_mutex_lock; an hrt_mutex_try_lock in between never overtakes them.   *)
THEOREM ServedInOrder == Spec => FirstWaiterNext
<1>1. Inv /\ [Next]_vars => [waiters # <<>> /\ owner' # owner => owner' = Head(waiters)]_vars
  BY FirstWaiterStep
<1> QED BY <1>1, MutexInvariant, PTL DEF Spec, FirstWaiterNext
=============================================================================
