------------------------------- MODULE Mutex -------------------------------
(***************************************************************************)
(* hrt_mutex_t and its operations (src/core/hardrt_mutex.c).               *)
(*                                                                         *)
(* A critical section is one step.  Which READY task executes next is left *)
(* open, so the behaviours include those of every assignment of priorities *)
(* and of preemption between any two critical sections.  What is taken     *)
(* from the kernel is that a task that is not READY executes nothing       *)
(* (RunsOnlyReady of PosixPort).  hrt_yield after an unlock is then no     *)
(* step of its own.                                                        *)
(*                                                                         *)
(*   run   outside the operations (or before the first critical section)   *)
(*   slow  in hrt_mutex_lock, after hrt_mutex_try_lock failed              *)
(*   wait  in hrt_mutex_lock, BLOCKED, or made READY and about to return   *)
(***************************************************************************)
EXTENDS Integers, Sequences

CONSTANT MaxTasks     (* HARDRT_MAX_TASKS *)

ASSUME MutexAssumption == MaxTasks \in Nat

Task == 0 .. (MaxTasks - 1)
HRT_MUTEX_NO_OWNER == -1

VARIABLES
  locked, owner, waiters,     (* hrt_mutex_t                                *)
  state, at,                  (* of each task                               *)
  g_error,
  holds                       (* history: tasks whose last lock or try_lock *)
                              (* returned 0, and that did not unlock since  *)

mutexVars == <<locked, owner, waiters>>
vars == <<mutexVars, state, at, g_error, holds>>

hrt_mutex_init ==
  /\ locked = FALSE
  /\ owner = HRT_MUTEX_NO_OWNER
  /\ waiters = <<>>

Init ==
  /\ hrt_mutex_init
  /\ state = [t \in Task |-> "READY"]
  /\ at = [t \in Task |-> "run"]
  /\ g_error = "NONE"
  /\ holds = {}

At(t, pc) == state[t] = "READY" /\ at[t] = pc

Goto(t, pc) == at' = [at EXCEPT ![t] = pc]

-----------------------------------------------------------------------------

_waitq_push(q, id) == IF Len(q) >= MaxTasks THEN q ELSE Append(q, id)

Acquire(t) ==
  /\ ~ locked
  /\ locked' = TRUE
  /\ owner' = t
  /\ holds' = holds \cup {t}
  /\ UNCHANGED <<waiters, state, g_error>>

(* The mutex is taken; a recursive attempt is also reported.                *)
Refused(t) ==
  /\ locked
  /\ g_error' = IF owner = t THEN "ERR_MUTEX_RECURSIVE" ELSE g_error
  /\ UNCHANGED <<mutexVars, state, holds>>

hrt_mutex_try_lock(t) ==
  /\ At(t, "run")
  /\ Acquire(t) \/ Refused(t)
  /\ UNCHANGED at

(* hrt_mutex_lock calls hrt_mutex_try_lock first.                           *)
hrt_mutex_lock(t) ==
  /\ At(t, "run")
  /\ \/ Acquire(t) /\ UNCHANGED at
     \/ Refused(t) /\ Goto(t, "slow")

(* Its second critical section.                                             *)
Enqueue(t) ==
  /\ waiters' = _waitq_push(waiters, t)
  /\ state' = [state EXCEPT ![t] = "BLOCKED"]
  /\ Goto(t, "wait")
  /\ UNCHANGED <<locked, owner, g_error, holds>>

(* Mistaken form of LockSlow: it blocks without looking again.              *)
MutNoRecheck(t) == At(t, "slow") /\ Enqueue(t)

LockSlow(t) ==
  /\ At(t, "slow")
  /\ \/ Acquire(t) /\ Goto(t, "run")
     \/ owner = t /\ Refused(t) /\ Goto(t, "run")
     \/ locked /\ owner # t /\ Enqueue(t)

(* "When resumed, ownership was transferred to us by unlock()": 0 is        *)
(* returned without looking.                                                *)
LockReturns(t) ==
  /\ At(t, "wait")
  /\ Goto(t, "run")
  /\ holds' = holds \cup {t}
  /\ UNCHANGED <<mutexVars, state, g_error>>

(* Mistaken forms of HandOver: the mutex is released as well; the waiter is *)
(* not made READY; the newest waiter is served.                             *)
MutHandOverFrees ==
  /\ locked' = FALSE
  /\ owner' = HRT_MUTEX_NO_OWNER
  /\ waiters' = Tail(waiters)
  /\ state' = [state EXCEPT ![Head(waiters)] = "READY"]

MutHandOverNoWake ==
  /\ owner' = Head(waiters)
  /\ waiters' = Tail(waiters)
  /\ UNCHANGED <<locked, state>>

MutHandOverNewest ==
  /\ owner' = waiters[Len(waiters)]
  /\ waiters' = SubSeq(waiters, 1, Len(waiters) - 1)
  /\ state' = [state EXCEPT ![waiters[Len(waiters)]] = "READY"]
  /\ UNCHANGED locked

(* The mutex stays locked and the first waiter owns it.                     *)
HandOver ==
  /\ owner' = Head(waiters)
  /\ waiters' = Tail(waiters)
  /\ state' = [state EXCEPT ![Head(waiters)] = "READY"]
  /\ UNCHANGED locked

Owns(t) == locked /\ owner = t

hrt_mutex_unlock(t) ==
  /\ At(t, "run")
  /\ IF ~ Owns(t)
     THEN g_error' = "ERR_MUTEX_OWNER" /\ UNCHANGED <<mutexVars, state, holds>>
     ELSE /\ holds' = holds \ {t}
          /\ IF waiters # <<>>
             THEN HandOver
             ELSE /\ locked' = FALSE
                  /\ owner' = HRT_MUTEX_NO_OWNER
                  /\ UNCHANGED <<waiters, state>>
          /\ UNCHANGED g_error
  /\ UNCHANGED at

(* Each operation, called where there is no current task.                   *)
BadContext ==
  /\ g_error' = "ERR_MUTEX_BAD_CTX"
  /\ UNCHANGED <<mutexVars, state, at, holds>>

(* hrt_task_delete does not look at mutexes, and hrt_create_task reuses     *)
(* slots: the application deletes only tasks that do not hold the mutex, or *)
(* the next task in the slot would be taken for its owner.                  *)
hrt_task_delete(t) ==
  /\ At(t, "run")
  /\ t \notin holds
  /\ state' = [state EXCEPT ![t] = "UNUSED"]
  /\ UNCHANGED <<mutexVars, at, g_error, holds>>

hrt_create_task(t) ==
  /\ state[t] = "UNUSED"
  /\ state' = [state EXCEPT ![t] = "READY"]
  /\ UNCHANGED <<mutexVars, at, g_error, holds>>

-----------------------------------------------------------------------------

Next ==
  \/ BadContext
  \/ \E t \in Task :
       \/ hrt_mutex_try_lock(t) \/ hrt_mutex_lock(t) \/ LockSlow(t)
       \/ LockReturns(t) \/ hrt_mutex_unlock(t)
       \/ hrt_task_delete(t) \/ hrt_create_task(t)

Spec == Init /\ [][Next]_vars

(* A task that has the processor goes on, and one that holds the mutex      *)
(* unlocks it sooner or later.                                              *)
FairSpec ==
  /\ Spec
  /\ \A t \in Task : WF_vars(LockSlow(t) \/ LockReturns(t))
  /\ \A t \in Task : SF_vars(t \in holds /\ hrt_mutex_unlock(t))

-----------------------------------------------------------------------------
(* Properties.                                                              *)

Handed == {t \in Task : At(t, "wait")}

(* Type correctness: the fields of the mutex and of the tasks keep their    *)
(* ranges, and the waiter queue (_waitq_push) its capacity.                 *)
TypeOK ==
  /\ locked \in BOOLEAN
  /\ owner \in Task \cup {HRT_MUTEX_NO_OWNER}
  /\ waiters \in Seq(Task) /\ Len(waiters) <= MaxTasks
  /\ state \in [Task -> {"READY", "BLOCKED", "UNUSED"}]
  /\ at \in [Task -> {"run", "slow", "wait"}]
  /\ g_error \in {"NONE", "ERR_MUTEX_RECURSIVE", "ERR_MUTEX_OWNER",
                  "ERR_MUTEX_BAD_CTX"}
  /\ holds \subseteq Task

(* Mutual exclusion: a task for which hrt_mutex_lock or hrt_mutex_try_lock  *)
(* returned 0 is the owner, so there is one at most, also when it came back *)
(* from waiting and looked at nothing.                                      *)
MutualExclusion == \A t \in holds : locked /\ owner = t

(* A locked mutex is never orphaned: the owner it records, whose            *)
(* hrt_mutex_unlock would succeed, holds it, or was handed it and has not   *)
(* resumed yet.                                                             *)
OwnerHolds == locked => owner \in holds \cup Handed

(* The waiter queue holds the tasks blocked in hrt_mutex_lock, each once,   *)
(* and only while somebody owns the mutex: no task waits for a free mutex,  *)
(* and hrt_mutex_unlock calls hrt__make_ready for BLOCKED tasks only.       *)
WaitersBlocked ==
  /\ \A i \in 1 .. Len(waiters) :
       /\ state[waiters[i]] = "BLOCKED"
       /\ \A j \in 1 .. Len(waiters) : waiters[i] = waiters[j] => i = j
  /\ \A t \in Task : state[t] = "BLOCKED" =>
       /\ at[t] = "wait"
       /\ \E i \in 1 .. Len(waiters) : waiters[i] = t
  /\ waiters # <<>> => locked

(* The inductive strengthening of the three: a task handed the mutex is its *)
(* owner, an unlocked mutex has no owner, and a slot without a task is not  *)
(* inside an operation.                                                     *)
Inv ==
  /\ TypeOK
  /\ MutualExclusion
  /\ OwnerHolds
  /\ WaitersBlocked
  /\ \A t \in Handed : locked /\ owner = t
  /\ Handed \cap holds = {}
  /\ locked <=> owner # HRT_MUTEX_NO_OWNER
  /\ \A t \in Task : state[t] = "UNUSED" => at[t] = "run"

(* Tasks acquire the mutex in the order in which they blocked: while there  *)
(* are waiters it changes hands only to the first of them, whatever other   *)
(* tasks try in between.                                                    *)
FirstWaiterNext ==
  [][waiters # <<>> /\ owner' # owner => owner' = Head(waiters)]_vars

(* Every call of hrt_mutex_lock returns, if holders unlock.                 *)
LockCompletes == \A t \in Task : at[t] # "run" ~> at[t] = "run"
=============================================================================
