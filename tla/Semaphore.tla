----------------------------- MODULE Semaphore -----------------------------
(***************************************************************************)
(* hrt_sem_t and its operations (src/core/hardrt_sem.c), with the same     *)
(* view of tasks as module Mutex: a critical section is one step, any      *)
(* READY task may be the next to execute, and the switch after a give is   *)
(* no step of its own.                                                     *)
(*                                                                         *)
(*   run   outside the operations (or before the first critical section)   *)
(*   slow  in hrt_sem_take, after hrt_sem_try_take failed                  *)
(*   wait  in hrt_sem_take, BLOCKED, or made READY and about to return     *)
(***************************************************************************)
EXTENDS Integers, Sequences, FiniteSets

CONSTANTS
  MaxTasks,    (* HARDRT_MAX_TASKS                                          *)
  Inits        (* arguments of hrt_sem_init_counting: [init, max]; those of *)
               (* hrt_sem_init are [init, 1]                                *)

ASSUME SemaphoreAssumption ==
  /\ MaxTasks \in Nat
  /\ Inits \subseteq [init : Nat, max : Nat]

Task == 0 .. (MaxTasks - 1)

VARIABLES
  count, max_count, waiters,    (* hrt_sem_t                                *)
  state, at,                    (* of each task                             *)
  credit                        (* history: tokens there were at first or   *)
                                (* that a give added, less the takes that   *)
                                (* returned 0                               *)

vars == <<count, max_count, waiters, state, at, credit>>

(* Mistaken form of hrt_sem_init_counting: init is not clamped.             *)
MutInitUnclamped(init, max) ==
  /\ max_count = IF max = 0 THEN 1 ELSE max
  /\ count = init
  /\ waiters = <<>>

hrt_sem_init_counting(init, max) ==
  /\ max_count = IF max = 0 THEN 1 ELSE max
  /\ count = IF init > max_count THEN max_count ELSE init
  /\ waiters = <<>>

Init ==
  /\ \E i \in Inits : hrt_sem_init_counting(i.init, i.max)
  /\ state = [t \in Task |-> "READY"]
  /\ at = [t \in Task |-> "run"]
  /\ credit = count

At(t, pc) == state[t] = "READY" /\ at[t] = pc

Goto(t, pc) == at' = [at EXCEPT ![t] = pc]

-----------------------------------------------------------------------------

(* Mistaken form of _waitq_push: one place less.                            *)
MutWaitqShort(q, id) == IF Len(q) >= MaxTasks - 1 THEN q ELSE Append(q, id)

_waitq_push(q, id) == IF Len(q) >= MaxTasks THEN q ELSE Append(q, id)

TakeToken ==
  /\ count > 0
  /\ count' = count - 1
  /\ credit' = credit - 1
  /\ UNCHANGED <<max_count, waiters, state>>

NoToken ==
  /\ count = 0
  /\ UNCHANGED <<count, max_count, waiters, state, credit>>

hrt_sem_try_take(t) ==
  /\ At(t, "run")
  /\ TakeToken \/ NoToken
  /\ UNCHANGED at

(* hrt_sem_take calls hrt_sem_try_take first.                               *)
hrt_sem_take(t) ==
  /\ At(t, "run")
  /\ \/ TakeToken /\ UNCHANGED at
     \/ NoToken /\ Goto(t, "slow")

(* Its critical section.                                                    *)
Enqueue(t) ==
  /\ waiters' = _waitq_push(waiters, t)
  /\ state' = [state EXCEPT ![t] = "BLOCKED"]
  /\ Goto(t, "wait")
  /\ UNCHANGED <<count, max_count, credit>>

(* Mistaken form of TakeSlow: it blocks without looking again.              *)
MutNoRecheck(t) == At(t, "slow") /\ Enqueue(t)

TakeSlow(t) ==
  /\ At(t, "slow")
  /\ \/ TakeToken /\ Goto(t, "run")
     \/ count = 0 /\ Enqueue(t)

(* "When we resume, we must have been given the semaphore."                 *)
TakeReturns(t) ==
  /\ At(t, "wait")
  /\ Goto(t, "run")
  /\ credit' = credit - 1
  /\ UNCHANGED <<count, max_count, waiters, state>>

(* Mistaken forms of _give_common: the token is stored as well as given to  *)
(* the waiter; the newest waiter is served.                                 *)
MutGiveTwice ==
  /\ IF waiters # <<>>
     THEN /\ waiters' = Tail(waiters)
          /\ state' = [state EXCEPT ![Head(waiters)] = "READY"]
     ELSE UNCHANGED <<waiters, state>>
  /\ count' = IF count < max_count THEN count + 1 ELSE count
  /\ credit' = IF waiters # <<>> \/ count < max_count THEN credit + 1 ELSE credit
  /\ UNCHANGED max_count

MutGiveNewest ==
  IF waiters # <<>>
  THEN /\ waiters' = SubSeq(waiters, 1, Len(waiters) - 1)
       /\ state' = [state EXCEPT ![waiters[Len(waiters)]] = "READY"]
       /\ credit' = credit + 1
       /\ UNCHANGED <<count, max_count>>
  ELSE /\ count' = IF count < max_count THEN count + 1 ELSE count
       /\ credit' = IF count < max_count THEN credit + 1 ELSE credit
       /\ UNCHANGED <<max_count, waiters, state>>

(* A waiter is given the token; without waiters it is stored, if it fits.   *)
_give_common ==
  IF waiters # <<>>
  THEN /\ waiters' = Tail(waiters)
       /\ state' = [state EXCEPT ![Head(waiters)] = "READY"]
       /\ credit' = credit + 1
       /\ UNCHANGED <<count, max_count>>
  ELSE /\ count' = IF count < max_count THEN count + 1 ELSE count
       /\ credit' = IF count < max_count THEN credit + 1 ELSE credit
       /\ UNCHANGED <<max_count, waiters, state>>

hrt_sem_give(t) == At(t, "run") /\ _give_common /\ UNCHANGED at

hrt_sem_give_from_isr == _give_common /\ UNCHANGED at

-----------------------------------------------------------------------------

Next ==
  \/ hrt_sem_give_from_isr
  \/ \E t \in Task :
       \/ hrt_sem_try_take(t) \/ hrt_sem_take(t) \/ TakeSlow(t)
       \/ TakeReturns(t) \/ hrt_sem_give(t)

Spec == Init /\ [][Next]_vars

(* A task that has the processor goes on, and the semaphore is given again  *)
(* and again.                                                               *)
FairSpec ==
  /\ Spec
  /\ \A t \in Task : WF_vars(TakeSlow(t) \/ TakeReturns(t))
  /\ WF_vars(hrt_sem_give_from_isr)

-----------------------------------------------------------------------------
(* Properties.                                                              *)

Handed == {t \in Task : At(t, "wait")}

(* Type correctness; `count' stays within 0 .. max_count, although          *)
(* hrt_sem_init_counting accepts any pair and gives are unlimited.          *)
TypeOK ==
  /\ max_count \in Nat \ {0}
  /\ count \in 0 .. max_count
  /\ waiters \in Seq(Task) /\ Len(waiters) <= MaxTasks
  /\ state \in [Task -> {"READY", "BLOCKED"}]
  /\ at \in [Task -> {"run", "slow", "wait"}]
  /\ credit \in Int

(* No lost wake-up: a task never waits beside a token, whatever gives come  *)
(* between the fast path of hrt_sem_take and its critical section.          *)
NoWaiterBesideToken == waiters # <<>> => count = 0

(* Conservation: every token a give added is taken once.  It is stored, or  *)
(* on its way to the one task that was woken for it; no take returns 0      *)
(* without one.                                                             *)
TokensConserved == credit = count + Cardinality(Handed)

(* The waiter queue holds the tasks blocked in hrt_sem_take, each once, so  *)
(* _give_common calls hrt__make_ready for BLOCKED tasks only.               *)
WaitersBlocked ==
  /\ \A i \in 1 .. Len(waiters) :
       /\ state[waiters[i]] = "BLOCKED"
       /\ \A j \in 1 .. Len(waiters) : waiters[i] = waiters[j] => i = j
  /\ \A t \in Task : state[t] = "BLOCKED" =>
       /\ at[t] = "wait"
       /\ \E i \in 1 .. Len(waiters) : waiters[i] = t

(* Every call of hrt_sem_take returns while gives keep coming: waiters are  *)
(* served in order, and a barging hrt_sem_try_take cannot overtake them.    *)
TakeCompletes == \A t \in Task : at[t] # "run" ~> at[t] = "run"
=============================================================================
