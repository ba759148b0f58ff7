------------------------------ MODULE Examples ------------------------------
(***************************************************************************)
(* The programs of module Programs on the POSIX port: kernel, semaphore,   *)
(* mutex or queue, and the timer signal together.  A task executes its     *)
(* instructions while PosixPort gives it the processor; a critical section *)
(* is one step, since SIGALRM is blocked in it.                            *)
(*                                                                         *)
(* `at' of a task is "slow" between the fast path of a blocking call and   *)
(* its own critical section, and "wait" from the BLOCKED of hrt_sem_take   *)
(* or hrt_mutex_lock to their return; hrt_queue_send and hrt_queue_recv    *)
(* start over when they resume.  Blocked takers, lockers and receivers are *)
(* in obj.rx, senders in obj.tx.                                           *)
(***************************************************************************)
EXTENDS PosixPort, Programs, Time

CONSTANTS
  Apps,          (* the programs                                            *)
  TickHz,        (* hrt_config_t.tick_hz, 1000 in the sources               *)
  QueueCap,      (* capacity of the queues of Apps, 32 in the sources       *)
  WindowTicks    (* bound: ticks between two passes of the scheduler loop,  *)
                 (* other than those that end an idle wait                  *)

ASSUME ExamplesAssumption ==
  TickHz \in Nat \ {0} /\ WindowTicks \in Nat /\ "create" \notin Services

(* Each C++ program sets up and calls what its C twin does.                 *)
ASSUME CppTwins ==
  /\ two_tasks_cpp = two_tasks
  /\ sem_basic_cpp = sem_basic
  /\ sem_counting_cpp = sem_counting_example
  /\ queue_posix_cpp(QueueCap) = queue_posix(QueueCap)

Acquires == {"take", "try_take", "lock", "try_lock"}
Blocking == {"take", "lock", "send", "recv"}

(* The instruction after the i-th one: a task repeats its code.             *)
Following(code, i) == (i % Len(code)) + 1

(* What the tasks of a program do with an object of its kind.               *)
Operations(kind) ==
  {"sleep"} \cup
    CASE kind = "sem" -> {"take", "try_take", "give"}
      [] kind = "mutex" -> {"lock", "try_lock", "unlock"}
      [] kind = "queue" -> {"send", "recv"}
      [] OTHER -> {}

(* The instructions `guarded' are reached only through a call that gets the *)
(* token or the mutex, and left where it is given back.                     *)
Guards(code, guarded) ==
  /\ 1 \notin guarded
  /\ \A i \in 1 .. Len(code) :
       LET then == Following(code, i)
           failed == IF code[i].fail = 0 THEN then ELSE code[i].fail
       IN  /\ code[i].op \in Acquires => i \notin guarded
           /\ code[i].op \in {"try_take", "try_lock"} => failed \notin guarded
           /\ code[i].op \in {"give", "unlock"} => i \in guarded /\ then \notin guarded
           /\ then \in guarded => i \in guarded \/ code[i].op \in Acquires

(* The programs fit the configuration: there is a slot for each task, the   *)
(* attributes are among Attrs, the sleeps among SleepTicks, no two tasks    *)
(* have the same priority, and a quantum is longer than WindowTicks.  A     *)
(* program with a guarded part shares a mutex or a semaphore of at most one *)
(* token.                                                                   *)
ASSUME AppsAssumption ==
  \A a \in Apps :
    /\ a.object \in [kind : {"none", "sem", "mutex", "queue"}, count : Nat, cap : Nat]
    /\ a.tasks \in Seq([prio : Nat, slice : Nat,
                       code : Seq([op : STRING, ms : Nat, fail : Nat])])
    /\ Len(a.tasks) <= CfgMaxTasks
    /\ \A m, n \in 1 .. Len(a.tasks) : a.tasks[m].prio = a.tasks[n].prio => m = n
    /\ \A n \in 1 .. Len(a.tasks) :
         LET code == a.tasks[n].code
         IN  /\ [prio |-> a.tasks[n].prio, slice |-> a.tasks[n].slice] \in Attrs
             /\ a.tasks[n].slice = 0 \/ a.tasks[n].slice > WindowTicks
             /\ code # <<>>
             /\ \A i \in 1 .. Len(code) :
                  /\ code[i].op \in Operations(a.object.kind)
                  /\ code[i].fail <= Len(code)
                  /\ code[i].op = "sleep" =>
                       hrt__ms_to_ticks(code[i].ms, TickHz, TickMod) \in SleepTicks
             /\ a.guarded # {} => Guards(code, a.guarded)
    /\ a.guarded # {} =>
         \/ a.object.kind = "mutex"
         \/ a.object.kind = "sem" /\ a.object.count <= 1 /\ a.object.cap = 1

VARIABLES
  app,     (* the program, fixed                                            *)
  obj,     (* the object its tasks share                                    *)
  ip, at,  (* of each task: its instruction, and where in that call it is   *)
  busy     (* ticks since the last pass of the scheduler loop               *)

appVars == <<app, obj, ip, at>>
exVars == <<vars, appVars, busy>>

Free == -1

ExInit ==
  /\ Init
  /\ app \in Apps
  /\ obj = [kind |-> app.object.kind, count |-> app.object.count,
            cap |-> app.object.cap, owner |-> Free, rx |-> <<>>, tx |-> <<>>]
  /\ ip = [t \in Task |-> 1]
  /\ at = [t \in Task |-> "run"]
  /\ busy = 0

me == g_current
Code(t) == app.tasks[t + 1].code
Ins == Code(me)[ip[me]]

Calls(ops) == At("run") /\ at[me] = "run" /\ Ins.op \in ops

Advance == ip' = [ip EXCEPT ![me] = Following(Code(me), @)]

(* The call failed.                                                         *)
Skip == IF Ins.fail = 0 THEN Advance ELSE ip' = [ip EXCEPT ![me] = Ins.fail]

-----------------------------------------------------------------------------
(* main: hrt_init, the object, the tasks, hrt_start.                        *)

Created == {t \in Task : state[t] # "UNUSED"}

MainCreates ==
  LET n == Cardinality(Created) + 1
  IN  /\ At("main")
      /\ n <= Len(app.tasks)
      /\ hrt_create_task(app.tasks[n].prio, app.tasks[n].slice)
      /\ UNCHANGED <<portVars, appVars, busy>>

MainStarts ==
  /\ Cardinality(Created) = Len(app.tasks)
  /\ hrt_start
  /\ UNCHANGED <<appVars, busy>>

-----------------------------------------------------------------------------
(* The shared object.                                                       *)

Available(op) ==
  CASE op \in {"take", "try_take", "recv"} -> obj.count > 0
    [] op \in {"lock", "try_lock"} -> obj.owner = Free
    [] op = "send" -> obj.count < obj.cap

(* The waiter queue a successful operation wakes a task of.                 *)
Waiters(op) ==
  CASE op \in {"give", "unlock", "send"} -> obj.rx
    [] op = "recv" -> obj.tx
    [] OTHER -> <<>>

Rest(q) == IF q = <<>> THEN q ELSE Tail(q)

(* Mistaken form of Given: the token is stored although a waiter has it.    *)
MutGivenTwice == [obj EXCEPT !.rx = Rest(@), !.count = Least(@ + 1, obj.cap)]

(* A waiter gets the token; without one it is stored, if it fits.           *)
Given ==
  IF obj.rx # <<>>
  THEN [obj EXCEPT !.rx = Tail(@)]
  ELSE [obj EXCEPT !.count = Least(@ + 1, obj.cap)]

(* Mistaken form of Unlocked: the mutex is released, waiter or not.         *)
MutUnlockedFree == [obj EXCEPT !.owner = Free, !.rx = Rest(@)]

(* The first waiter owns the mutex.                                         *)
Unlocked ==
  IF obj.rx # <<>>
  THEN [obj EXCEPT !.owner = Head(obj.rx), !.rx = Tail(@)]
  ELSE [obj EXCEPT !.owner = Free]

(* Mistaken form of Received: the sender stays in the waiter queue.         *)
MutReceivedKeeps == [obj EXCEPT !.count = @ - 1]

(* The items and the places of a queue go to whoever comes first.           *)
Received == [obj EXCEPT !.count = @ - 1, !.tx = Rest(@)]
Sent == [obj EXCEPT !.count = @ + 1, !.rx = Rest(@)]

(* What the operation leaves behind.                                        *)
Done(op) ==
  CASE op \in {"take", "try_take"} -> [obj EXCEPT !.count = @ - 1]
    [] op \in {"lock", "try_lock"} -> [obj EXCEPT !.owner = me]
    [] op = "give" -> Given
    [] op = "unlock" -> Unlocked
    [] op = "send" -> Sent
    [] op = "recv" -> Received

(* Mistaken form of WakeOne: nobody becomes READY.                          *)
MutWakeNobody(op, quiet) == UNCHANGED vars

(* The first of Waiters(op), if any, becomes READY; the caller yields to it *)
(* unless it is the re-check of a queue (`quiet').                          *)
WakeOne(op, quiet) ==
  IF Waiters(op) = <<>>
  THEN UNCHANGED vars
  ELSE /\ WakeWaiter(Head(Waiters(op)))
       /\ pc' = IF quiet THEN "run" ELSE "woke"
       /\ UNCHANGED g_switch_pending

(* The try forms, which are also the fast paths of the blocking forms.      *)
Attempt ==
  LET op == Ins.op
  IN  /\ Calls(Acquires \cup {"send", "recv"})
      /\ IF Available(op)
         THEN WakeOne(op, FALSE) /\ obj' = Done(op) /\ Advance /\ UNCHANGED at
         ELSE /\ IF op \in Blocking
                 THEN at' = [at EXCEPT ![me] = "slow"] /\ UNCHANGED ip
                 ELSE Skip /\ UNCHANGED at
              /\ UNCHANGED <<vars, obj>>
      /\ UNCHANGED <<app, busy>>

(* The critical section of a blocking form.                                 *)
Recheck ==
  LET op == Ins.op
  IN  /\ At("run") /\ at[me] = "slow"
      /\ IF Available(op)
         THEN /\ WakeOne(op, TRUE)
              /\ obj' = Done(op)
              /\ at' = [at EXCEPT ![me] = "run"]
              /\ Advance
         ELSE /\ Block
              /\ obj' = IF op = "send" THEN [obj EXCEPT !.tx = Append(@, me)]
                                       ELSE [obj EXCEPT !.rx = Append(@, me)]
              /\ at' = [at EXCEPT ![me] =
                          IF op \in {"take", "lock"} THEN "wait" ELSE "run"]
              /\ UNCHANGED ip
      /\ UNCHANGED <<app, busy>>

(* hrt_sem_take and hrt_mutex_lock return 0 without looking again.          *)
Returns ==
  /\ At("run") /\ at[me] = "wait"
  /\ at' = [at EXCEPT ![me] = "run"]
  /\ Advance
  /\ UNCHANGED <<vars, app, obj, busy>>

(* hrt_sem_give and hrt_mutex_unlock; the latter only for the owner.        *)
Release ==
  LET op == Ins.op
  IN  /\ Calls({"give", "unlock"})
      /\ IF op = "unlock" /\ obj.owner # me
         THEN UNCHANGED <<vars, obj>>
         ELSE WakeOne(op, FALSE) /\ obj' = Done(op)
      /\ Advance
      /\ UNCHANGED <<app, at, busy>>

SleepFor ==
  /\ Calls({"sleep"})
  /\ hrt_sleep(hrt__ms_to_ticks(Ins.ms, TickHz, TickMod))
  /\ Advance
  /\ UNCHANGED <<app, obj, at, busy>>

-----------------------------------------------------------------------------

KernelGoesOn ==
  /\ hrt_yield \/ YieldPush \/ SleepCommit \/ EnterScheduler \/ ClaimSwitch
  /\ UNCHANGED <<appVars, busy>>

SchedulerPass == Dispatch /\ busy' = 0 /\ UNCHANGED appVars

Idle == At("loop") /\ ~ g_switch_pending

TimerSignal ==
  /\ Tick
  /\ Idle \/ busy < WindowTicks
  /\ busy' = IF Idle THEN busy ELSE busy + 1
  /\ UNCHANGED appVars

HandlerGoesOn == (TickWake \/ TickEnd) /\ UNCHANGED <<appVars, busy>>

Processor ==
  \/ MainCreates \/ MainStarts
  \/ Attempt \/ Recheck \/ Returns \/ Release \/ SleepFor
  \/ KernelGoesOn \/ SchedulerPass

ExNext == Processor \/ TimerSignal \/ HandlerGoesOn

(* The processor executes what is there to execute, and the timer ticks.    *)
ExSpec ==
  /\ ExInit /\ [][ExNext]_exVars
  /\ WF_exVars(Processor) /\ WF_exVars(HandlerGoesOn) /\ WF_exVars(TimerSignal)

-----------------------------------------------------------------------------
(* Properties.                                                              *)

(* sem_basic and mutex_basic keep their tasks apart: the two are never both *)
(* between taking the semaphore (locking the mutex) and giving it back,     *)
(* asleep there or not.                                                     *)
OneAtATime == Cardinality({t \in Created : ip[t] \in app.guarded}) <= 1

(* The inductive strengthening of OneAtATime.  A task has the token from    *)
(* when hrt_sem_take or hrt_mutex_lock gets it, or a give or an unlock      *)
(* hands it over, to when the task gives it back.                           *)
Has(t) ==
  \/ t \in Created /\ ip[t] \in app.guarded
  \/ at[t] = "wait" /\ state[t] # "BLOCKED"

OneToken ==
  /\ obj.kind = "mutex" => \A t \in Task : Has(t) => obj.owner = t
  /\ obj.kind = "sem" =>
       /\ obj.count <= 1
       /\ obj.count > 0 => \A t \in Task : ~ Has(t)
       /\ \A t, u \in Task : Has(t) /\ Has(u) => t = u

GuardInv == app.guarded # {} => OneToken

ObjType ==
  [kind : {app.object.kind}, count : Nat, cap : {app.object.cap},
   owner : Task \cup {Free}, rx : Seq(Task), tx : Seq(Task)]

(* What it and the other theorems rest on: ranges; main fills the slots in  *)
(* order; where a task stands in its code; a task is in the middle of a     *)
(* call only if the call can block.                                         *)
AppInv ==
  /\ app \in Apps
  /\ obj \in ObjType
  /\ ip \in [Task -> Nat \ {0}]
  /\ at \in [Task -> {"run", "slow", "wait"}]
  /\ \E n \in 0 .. Len(app.tasks) : Created = 0 .. (n - 1)
  /\ \A t \in Created : ip[t] <= Len(Code(t))
  /\ \A t \in Task \ Created : ip[t] = 1 /\ at[t] = "run"
  /\ \A t \in Created : at[t] = "slow" => Code(t)[ip[t]].op \in Blocking
  /\ \A t \in Created : at[t] = "wait" => Code(t)[ip[t]].op \in {"take", "lock"}

(* hrt_create_task gives each task the priority main asks for.              *)
PrioInv == \A t \in Created : prio[t] = app.tasks[t + 1].prio

(* A quantum outlasts the ticks of a pass: what has been charged to the     *)
(* task on its way out came after its quantum was renewed.                  *)
BusyInv ==
  /\ busy \in 0 .. WindowTicks
  /\ \A t \in Task : timeslice_cfg[t] = 0 \/ timeslice_cfg[t] > WindowTicks
  /\ isr # NoIsr /\ pc \in {"push", "hop"} => busy > 0
  /\ pc \in {"push", "hop"} /\ state[g_current] = "READY" =>
       slice_left[g_current] + busy >=
         timeslice_cfg[g_current] + (IF isr = NoIsr THEN 0 ELSE 1)

(* Each task of each program goes round its loop for ever: no call blocks   *)
(* or sleeps for good, no wake-up is lost between the object, the kernel    *)
(* and the timer, and the task of lower priority is not starved.            *)
KeepsGoing ==
  \A t \in 0 .. 1 :
    []<>(pc = "run" /\ g_current = t /\ ip[t] = Len(Code(t)))
=============================================================================
