--------------------------- MODULE ExampleProofs ---------------------------
(***************************************************************************)
(* The programs on the POSIX port: any set of programs that fit the        *)
(* configuration, with any number of tasks.                                *)
(***************************************************************************)
EXTENDS Examples, PosixProofs

Instr == [op : STRING, ms : Nat, fail : Nat]
TaskRec == [prio : Nat, slice : Nat, code : Seq(Instr)]

(* A program fits the slots, and its tasks have something to do.            *)
LEMMA CodeOfApp ==
  ASSUME NEW a \in Apps
  PROVE  /\ Len(a.tasks) \in Nat /\ Len(a.tasks) <= CfgMaxTasks
         /\ \A n \in 1 .. Len(a.tasks) :
              a.tasks[n].code \in Seq(Instr) /\ Len(a.tasks[n].code) \in Nat \ {0}
<1>1. /\ a.tasks \in Seq(TaskRec) /\ Len(a.tasks) <= CfgMaxTasks
      /\ \A n \in 1 .. Len(a.tasks) : a.tasks[n].code # <<>>
  BY AppsAssumption, Zenon DEF TaskRec, Instr
<1>2. Len(a.tasks) \in Nat /\ \A n \in 1 .. Len(a.tasks) : a.tasks[n] \in TaskRec
  BY <1>1
<1>3. \A r \in TaskRec : r.code \in Seq(Instr)
  BY Zenon DEF TaskRec
<1>4. \A c \in Seq(Instr) : c # <<>> => Len(c) \in Nat \ {0}
  OBVIOUS
<1> QED BY <1>1, <1>2, <1>3, <1>4, Zenon

(* What the assumption on the programs says of a task that main created.    *)
LEMMA TaskOfApp ==
  ASSUME AppInv, NEW t \in Created
  PROVE  /\ t \in Task
         /\ t + 1 \in 1 .. Len(app.tasks)
         /\ Len(Code(t)) \in Nat \ {0}
         /\ ip[t] \in 1 .. Len(Code(t))
         /\ Code(t)[ip[t]].op \in Operations(app.object.kind)
         /\ Code(t)[ip[t]].fail \in 0 .. Len(Code(t))
         /\ Code(t)[ip[t]].op = "sleep" =>
              hrt__ms_to_ticks(Code(t)[ip[t]].ms, TickHz, TickMod) \in SleepTicks
<1> DEFINE code == app.tasks[t + 1].code
<1>1. app \in Apps /\ ip \in [Task -> Nat \ {0}] /\ ip[t] <= Len(Code(t))
  BY DEF AppInv
<1>2. t \in Task /\ t + 1 \in 1 .. Len(app.tasks)
  <2>1. PICK n \in 0 .. Len(app.tasks) : Created = 0 .. (n - 1)
    BY DEF AppInv
  <2>2. t \in Task
    BY DEF Created
  <2> QED BY <1>1, <2>1, <2>2, CodeOfApp
<1>3. \A i \in 1 .. Len(code) :
        /\ code[i].op \in Operations(app.object.kind)
        /\ code[i].fail <= Len(code)
        /\ code[i].op = "sleep" =>
             hrt__ms_to_ticks(code[i].ms, TickHz, TickMod) \in SleepTicks
  BY <1>1, <1>2, AppsAssumption, Zenon
<1>4. code \in Seq(Instr) /\ Len(code) \in Nat \ {0}
  BY <1>1, <1>2, CodeOfApp, Zenon
<1>5. Code(t) = code
  BY DEF Code
<1> HIDE DEF code
<1>6. ip[t] \in 1 .. Len(code)
  BY <1>1, <1>2, <1>4, <1>5
<1>7. code[ip[t]].fail \in Nat
  <2>1. code[ip[t]] \in Instr
    BY <1>4, <1>6
  <2> QED BY <2>1 DEF Instr
<1>8. code[ip[t]].fail \in 0 .. Len(code)
  BY <1>3, <1>4, <1>6, <1>7
<1> QED BY <1>2, <1>3, <1>4, <1>5, <1>6, <1>8, Zenon

(* The task that executes is one that main created.                         *)
LEMMA MeCreated ==
  ASSUME Inv, pc \in {"run", "woke", "push", "arm"}
  PROVE  me \in Created /\ me \in Task /\ state[me] = "READY"
BY DEF Inv, OwnerKnown, RunsOnlyReady, Holds, Created, me

(* The slot that main's next call of hrt_create_task takes.                 *)
LEMMA NextSlot ==
  ASSUME Configured, Inv, AppInv, MainCreates,
         NEW id, id = (CHOOSE t \in FreeSlots : \A u \in FreeSlots : t <= u)
  PROVE  /\ id \in Task /\ id \in 0 .. (CfgMaxTasks - 1) /\ state[id] = "UNUSED"
         /\ Created = 0 .. (id - 1)
         /\ id + 1 \in 1 .. Len(app.tasks)
         /\ hrt_create_task(app.tasks[id + 1].prio, app.tasks[id + 1].slice)
<1>1. PICK n \in 0 .. Len(app.tasks) : Created = 0 .. (n - 1)
  BY DEF AppInv
<1>2. app \in Apps /\ Len(app.tasks) \in Nat /\ Len(app.tasks) <= CfgMaxTasks
  <2>1. app \in Apps
    BY DEF AppInv
  <2> QED BY <2>1, CodeOfApp, Zenon
<1>3. n \in Nat /\ Cardinality(Created) = n
  BY <1>1, <1>2, FS_Interval
<1>4. /\ n + 1 <= Len(app.tasks)
      /\ hrt_create_task(app.tasks[n + 1].prio, app.tasks[n + 1].slice)
  BY <1>3, Zenon DEF MainCreates
<1>5. n \in Task /\ n \in 0 .. (CfgMaxTasks - 1) /\ n \notin Created
  BY <1>1, <1>2, <1>3, <1>4, KernelAssumption DEF Task
<1>6. state[n] = "UNUSED" /\ FreeSlots # {}
  BY <1>5 DEF Created, FreeSlots
<1>7. /\ id \in Task /\ state[id] = "UNUSED"
      /\ \A u \in Task : state[u] = "UNUSED" => id <= u
  <2>1. KernelTypeOK
    BY DEF Inv, TypeOK
  <2> QED BY <1>6, <2>1, FirstFree, Zenon
<1>8. id <= n /\ id \notin 0 .. (n - 1)
  BY <1>1, <1>5, <1>6, <1>7 DEF Created
<1>9. id = n
  BY <1>3, <1>7, <1>8, KernelAssumption DEF Task
<1>10. n + 1 \in 1 .. Len(app.tasks)
  BY <1>2, <1>3, <1>4
<1> QED BY <1>1, <1>4, <1>5, <1>6, <1>9, <1>10, Zenon

(* What a waiter queue wakes is a task.                                     *)
LEMMA WaitersType ==
  ASSUME AppInv, NEW op
  PROVE  Waiters(op) \in Seq(Task)
<1>1. obj.rx \in Seq(Task) /\ obj.tx \in Seq(Task) /\ <<>> \in Seq(Task)
  BY DEF AppInv, ObjType
<1> QED BY <1>1 DEF Waiters

(* The step of a give, an unlock, a send or a receive in the kernel.         *)
LEMMA WakeOneWakes ==
  ASSUME AppInv, NEW op, NEW quiet, WakeOne(op, quiet)
  PROVE  UNCHANGED vars \/ Wake
<1>1. CASE Waiters(op) = <<>>
  BY <1>1 DEF WakeOne
<1>2. CASE Waiters(op) # <<>>
  <2>1. Head(Waiters(op)) \in Task
    BY <1>2, WaitersType
  <2> QED BY <1>2, <2>1, Zenon DEF WakeOne, Wake
<1> QED BY <1>1, <1>2

(* A step of a program is a step of the kernel on this port.                *)
LEMMA ExStep ==
  ASSUME Configured, Inv, AppInv, [ExNext]_exVars
  PROVE  [Next]_vars
<1>1. CASE MainCreates
  <2> DEFINE id == CHOOSE t \in FreeSlots : \A u \in FreeSlots : t <= u
  <2> HIDE DEF id
  <2>1. /\ id \in 0 .. (CfgMaxTasks - 1) /\ state[id] = "UNUSED"
        /\ id + 1 \in 1 .. Len(app.tasks)
        /\ hrt_create_task(app.tasks[id + 1].prio, app.tasks[id + 1].slice)
    BY <1>1, NextSlot DEF id
  <2> DEFINE a == [prio |-> app.tasks[id + 1].prio, slice |-> app.tasks[id + 1].slice]
  <2>2. a \in Attrs
    <3>1. app \in Apps
      BY DEF AppInv
    <3> QED BY <2>1, <3>1, AppsAssumption, Zenon
  <2>3. a.prio = app.tasks[id + 1].prio /\ a.slice = app.tasks[id + 1].slice
    OBVIOUS
  <2> HIDE DEF a
  <2>4. \E b \in Attrs : hrt_create_task(b.prio, b.slice)
    BY <2>1, <2>2, <2>3, Zenon
  <2>5. CreateTask
    BY <1>1, <2>1, <2>4, Zenon DEF MainCreates, CreateTask, MayCreate
  <2> QED BY <2>5 DEF Next
<1>2. CASE MainStarts \/ Returns \/ KernelGoesOn \/ SchedulerPass \/ TimerSignal
           \/ HandlerGoesOn
  BY <1>2, Zenon DEF MainStarts, Returns, KernelGoesOn, SchedulerPass, TimerSignal,
                     HandlerGoesOn, Next
<1>3. CASE Attempt \/ Recheck \/ Release
  <2>1. \/ UNCHANGED vars \/ Block
        \/ \E op \in {Ins.op}, quiet \in BOOLEAN : WakeOne(op, quiet)
    BY <1>3, Zenon DEF Attempt, Recheck, Release
  <2> QED BY <2>1, WakeOneWakes, Zenon DEF Next
<1>4. CASE SleepFor
  <2>1. me \in Created /\ Ins.op = "sleep"
    BY <1>4, MeCreated DEF SleepFor, Calls, At
  <2>2. hrt__ms_to_ticks(Ins.ms, TickHz, TickMod) \in SleepTicks
    BY <2>1, TaskOfApp, Zenon DEF Ins
  <2> QED BY <1>4, <2>2, Zenon DEF SleepFor, Sleep, Next
<1>5. CASE UNCHANGED exVars
  BY <1>5 DEF exVars
<1> QED BY <1>1, <1>2, <1>3, <1>4, <1>5 DEF ExNext, Processor

(* What the kernel and the port do by themselves creates, deletes, blocks   *)
(* and unblocks nobody.                                                     *)
KernelAlone ==
  \/ hrt_start \/ hrt_yield \/ YieldPush \/ Sleep \/ SleepCommit \/ EnterScheduler
  \/ ClaimSwitch \/ Dispatch \/ Tick \/ TickWake \/ TickEnd \/ UNCHANGED vars

(* Such a step, for the set of tasks and for who is BLOCKED.                *)
LEMMA AloneKeeps ==
  ASSUME Inv, KernelAlone
  PROVE  /\ Created' = Created
         /\ \A t \in Task : state'[t] = "BLOCKED" <=> state[t] = "BLOCKED"
<1>1. state \in [Task -> State]
  BY DEF Inv, TypeOK, KernelTypeOK
<1>2. CASE SleepCommit
  <2>1. state' = [state EXCEPT ![g_current] = "SLEEP"]
    BY <1>2 DEF SleepCommit, LeaveAs
  <2>2. g_current \in Task /\ state[g_current] = "READY"
    BY <1>2, MeCreated DEF SleepCommit, At, me
  <2> QED BY <1>1, <2>1, <2>2 DEF Created
<1>3. CASE TickWake
  <2>1. CASE state[isr] = "SLEEP" /\ Due(isr)
    <3>1. state' = [state EXCEPT ![isr] = "READY"] /\ isr \in Task
      BY <1>3, <2>1 DEF TickWake, hrt__make_ready
    <3> QED BY <1>1, <2>1, <3>1 DEF Created
  <2>2. CASE ~ (state[isr] = "SLEEP" /\ Due(isr))
    <3>1. state' = state
      BY <1>3, <2>2 DEF TickWake
    <3> QED BY <3>1 DEF Created
  <2> QED BY <2>1, <2>2
<1>4. CASE KernelAlone /\ ~ (SleepCommit \/ TickWake)
  <2>1. state' = state
    BY <1>4, Zenon DEF KernelAlone, hrt_start, hrt_yield, YieldPush, Sleep, hrt_sleep,
        EnterScheduler, ClaimSwitch, Dispatch, Tick, TickEnd, vars, kernelVars, tcbVars
  <2> QED BY <2>1 DEF Created
<1> QED BY <1>2, <1>3, <1>4

(* hrt__make_ready of a waiter.                                             *)
LEMMA WakeKeeps ==
  ASSUME Inv, NEW w \in Task, WakeWaiter(w)
  PROVE  /\ Created' = Created
         /\ state[w] = "BLOCKED" /\ state'[w] = "READY"
         /\ \A t \in Task : t # w => state'[t] = state[t]
<1>1. state \in [Task -> State]
  BY DEF Inv, TypeOK, KernelTypeOK
<1>2. state[w] = "BLOCKED" /\ state' = [state EXCEPT ![w] = "READY"]
  BY DEF WakeWaiter, hrt__make_ready
<1> QED BY <1>1, <1>2 DEF Created

(* A task blocks.                                                           *)
LEMMA BlockKeeps ==
  ASSUME Inv, Block
  PROVE  /\ Created' = Created
         /\ state'[me] = "BLOCKED"
         /\ \A t \in Task : t # me => state'[t] = state[t]
<1>1. state \in [Task -> State]
  BY DEF Inv, TypeOK, KernelTypeOK
<1>2. state' = [state EXCEPT ![me] = "BLOCKED"] /\ pc = "run"
  BY DEF Block, LeaveAs, At, me
<1>3. me \in Task /\ state[me] = "READY"
  BY <1>2, MeCreated
<1> QED BY <1>1, <1>2, <1>3 DEF Created

(* ... and a step that may wake one creates nobody.                         *)
LEMMA WakeOneKeeps ==
  ASSUME Inv, AppInv, NEW op, NEW quiet, WakeOne(op, quiet)
  PROVE  Created' = Created
<1>1. CASE UNCHANGED vars
  BY <1>1, AloneKeeps DEF KernelAlone
<1>2. CASE Wake
  BY <1>2, WakeKeeps DEF Wake
<1> QED BY <1>1, <1>2, WakeOneWakes

-----------------------------------------------------------------------------

(* An object keeps its type when fields of it are set.                      *)
LEMMA ObjUpdate ==
  ASSUME NEW o \in ObjType
  PROVE  /\ \A q \in Seq(Task) : [o EXCEPT !.rx = q] \in ObjType
         /\ \A q \in Seq(Task) : [o EXCEPT !.tx = q] \in ObjType
         /\ \A w \in Task \cup {Free} : [o EXCEPT !.owner = w] \in ObjType
         /\ \A c \in Nat : [o EXCEPT !.count = c] \in ObjType
<1> DEFINE S == Seq(Task)
           W == Task \cup {Free}
<1>1. ObjType = [kind : {app.object.kind}, count : Nat, cap : {app.object.cap},
                 owner : W, rx : S, tx : S]
  BY DEF ObjType
<1> HIDE DEF S, W
<1>2. \A q \in S : [o EXCEPT !.rx = q] \in ObjType
  BY <1>1
<1>3. \A q \in S : [o EXCEPT !.tx = q] \in ObjType
  BY <1>1
<1>4. \A w \in W : [o EXCEPT !.owner = w] \in ObjType
  BY <1>1
<1>5. \A c \in Nat : [o EXCEPT !.count = c] \in ObjType
  BY <1>1
<1> QED BY <1>2, <1>3, <1>4, <1>5, Zenon DEF S, W

(* Every operation leaves an object of its type.                            *)
LEMMA DoneType ==
  ASSUME AppInv, me \in Task,
         NEW op \in Acquires \cup {"send", "recv", "give", "unlock"},
         op \in {"take", "try_take", "recv"} => obj.count > 0
  PROVE  Done(op) \in ObjType
<1>1. obj \in ObjType /\ app.object.cap \in Nat
  <2>1. app \in Apps /\ obj \in ObjType
    BY DEF AppInv
  <2>2. app.object \in [kind : {"none", "sem", "mutex", "queue"}, count : Nat, cap : Nat]
    BY <2>1, AppsAssumption, Zenon
  <2> QED BY <2>1, <2>2
<1>2. /\ obj.count \in Nat /\ obj.cap \in Nat /\ obj.rx \in Seq(Task) /\ obj.tx \in Seq(Task)
      /\ obj.owner \in Task \cup {Free}
  BY <1>1 DEF ObjType
<1>3. Rest(obj.rx) \in Seq(Task) /\ Rest(obj.tx) \in Seq(Task)
  BY <1>2 DEF Rest
<1>4. obj.rx # <<>> => Head(obj.rx) \in Task /\ Tail(obj.rx) \in Seq(Task)
  BY <1>2
<1>5. Least(obj.count + 1, obj.cap) \in Nat
  BY <1>2 DEF Least
<1>6. CASE op \in {"take", "try_take"}
  <2>1. Done(op) = [obj EXCEPT !.count = obj.count - 1] /\ obj.count - 1 \in Nat
    BY <1>2, <1>6 DEF Done
  <2> QED BY <1>1, <2>1, ObjUpdate, Zenon
<1>7. CASE op \in {"lock", "try_lock"}
  <2>1. Done(op) = [obj EXCEPT !.owner = me] /\ me \in Task \cup {Free}
    BY <1>7 DEF Done
  <2>2. \A w \in Task \cup {Free} : [obj EXCEPT !.owner = w] \in ObjType
    BY <1>1, ObjUpdate, Zenon
  <2> QED BY <2>1, <2>2, Zenon
<1>8. CASE op = "give"
  <2>1. Done(op) = IF obj.rx # <<>> THEN [obj EXCEPT !.rx = Tail(obj.rx)]
                   ELSE [obj EXCEPT !.count = Least(obj.count + 1, obj.cap)]
    BY <1>8 DEF Done, Given
  <2> QED BY <1>1, <1>4, <1>5, <2>1, ObjUpdate, Zenon
<1>9. CASE op = "unlock"
  <2> DEFINE o == [obj EXCEPT !.owner = Head(obj.rx)]
  <2>1. Done(op) = IF obj.rx # <<>> THEN [o EXCEPT !.rx = Tail(obj.rx)]
                   ELSE [obj EXCEPT !.owner = Free]
    BY <1>9 DEF Done, Unlocked
  <2>2. obj.rx # <<>> => o \in ObjType
    BY <1>1, <1>4, ObjUpdate, Zenon
  <2> HIDE DEF o
  <2> QED BY <1>1, <1>4, <2>1, <2>2, ObjUpdate, Zenon
<1>10. CASE op = "send"
  <2> DEFINE o == [obj EXCEPT !.count = obj.count + 1]
  <2>1. Done(op) = [o EXCEPT !.rx = Rest(obj.rx)] /\ obj.count + 1 \in Nat
    BY <1>2, <1>10 DEF Done, Sent
  <2>2. o \in ObjType
    BY <1>1, <2>1, ObjUpdate, Zenon
  <2> HIDE DEF o
  <2> QED BY <1>3, <2>1, <2>2, ObjUpdate, Zenon
<1>11. CASE op = "recv"
  <2> DEFINE o == [obj EXCEPT !.count = obj.count - 1]
  <2>1. Done(op) = [o EXCEPT !.tx = Rest(obj.tx)] /\ obj.count - 1 \in Nat
    BY <1>2, <1>11 DEF Done, Received
  <2>2. o \in ObjType
    BY <1>1, <2>1, ObjUpdate, Zenon
  <2> HIDE DEF o
  <2> QED BY <1>3, <2>1, <2>2, ObjUpdate, Zenon
<1> QED BY <1>6, <1>7, <1>8, <1>9, <1>10, <1>11 DEF Acquires

(* The task that executes moves to its j-th instruction, at s in that call. *)
MovesTo(j, s) ==
  /\ ip' = [ip EXCEPT ![me] = j]
  /\ at' = [at EXCEPT ![me] = s]
  /\ s = "slow" => Code(me)[j].op \in Blocking
  /\ s = "wait" => Code(me)[j].op \in {"take", "lock"}

(* Such a move keeps the invariant on where the tasks are.                  *)
LEMMA AppMoves ==
  ASSUME AppInv, me \in Created, Created' = Created, app' = app, obj' \in ObjType
  PROVE  \A j \in 1 .. Len(Code(me)), s \in {"run", "slow", "wait"} :
           MovesTo(j, s) => AppInv'
<1> SUFFICES ASSUME NEW j \in 1 .. Len(Code(me)), NEW s \in {"run", "slow", "wait"},
                    MovesTo(j, s)
             PROVE  AppInv'
  OBVIOUS
<1>0. /\ ip' = [ip EXCEPT ![me] = j] /\ at' = [at EXCEPT ![me] = s]
      /\ s = "slow" => Code(me)[j].op \in Blocking
      /\ s = "wait" => Code(me)[j].op \in {"take", "lock"}
  BY DEF MovesTo
<1>1. /\ ip \in [Task -> Nat \ {0}] /\ at \in [Task -> {"run", "slow", "wait"}]
      /\ me \in Task /\ Len(Code(me)) \in Nat
  BY TaskOfApp DEF AppInv
<1>2. /\ ip'[me] = j /\ at'[me] = s /\ j \in Nat \ {0} /\ j <= Len(Code(me))
      /\ \A t \in Task : t # me => ip'[t] = ip[t] /\ at'[t] = at[t]
      /\ ip' \in [Task -> Nat \ {0}] /\ at' \in [Task -> {"run", "slow", "wait"}]
  BY <1>0, <1>1
<1>3. \A t : Code(t)' = Code(t)
  BY DEF Code
<1>4. ObjType' = ObjType
  BY DEF ObjType
<1>5. \A t \in Created : t \in Task
  BY DEF Created
<1>6. /\ \A t \in Created : ip'[t] <= Len(Code(t))
      /\ \A t \in Task \ Created : ip'[t] = 1 /\ at'[t] = "run"
      /\ \A t \in Created : at'[t] = "slow" => Code(t)[ip'[t]].op \in Blocking
      /\ \A t \in Created : at'[t] = "wait" => Code(t)[ip'[t]].op \in {"take", "lock"}
  <2>1. \A t \in Task \ Created : ip'[t] = 1 /\ at'[t] = "run"
    BY <1>2 DEF AppInv
  <2>2. ASSUME NEW t \in Created
        PROVE  /\ ip'[t] <= Len(Code(t))
               /\ at'[t] = "slow" => Code(t)[ip'[t]].op \in Blocking
               /\ at'[t] = "wait" => Code(t)[ip'[t]].op \in {"take", "lock"}
    <3>1. CASE t = me
      BY <1>0, <1>2, <3>1
    <3>2. CASE t # me
      <4>1. ip'[t] = ip[t] /\ at'[t] = at[t]
        BY <1>2, <1>5, <3>2
      <4> QED BY <4>1, Zenon DEF AppInv
    <3> QED BY <3>1, <3>2
  <2> QED BY <2>1, <2>2
<1>7. app' \in Apps /\ obj' \in ObjType' /\ \E n \in 0 .. Len(app'.tasks) : Created' = 0 .. (n - 1)
  BY <1>4 DEF AppInv
<1> QED BY <1>2, <1>3, <1>6, <1>7, Zenon DEF AppInv

(* ... or nobody does.                                                      *)
LEMMA AppStays ==
  ASSUME AppInv, Created' = Created, UNCHANGED appVars
  PROVE  AppInv'
<1>1. UNCHANGED <<app, obj, ip, at>>
  BY DEF appVars
<1>2. ObjType' = ObjType /\ \A t : Code(t)' = Code(t)
  BY <1>1 DEF ObjType, Code
<1> QED BY <1>1, <1>2, Zenon DEF AppInv

(* The next instruction of a task.                                          *)
LEMMA NextInstr ==
  ASSUME AppInv, me \in Created
  PROVE  Following(Code(me), ip[me]) \in 1 .. Len(Code(me))
<1>1. Len(Code(me)) \in Nat \ {0} /\ ip[me] \in 1 .. Len(Code(me))
  BY TaskOfApp
<1>2. ASSUME NEW n \in Nat \ {0}, NEW i \in 1 .. n  PROVE (i % n) + 1 \in 1 .. n
  BY <1>2
<1> QED BY <1>1, <1>2, Zenon DEF Following

(* What an available object has.                                            *)
LEMMA AvailableDone ==
  ASSUME AppInv, me \in Task, NEW op \in Acquires \cup {"send", "recv"}, Available(op)
  PROVE  Done(op) \in ObjType
<1>1. ASSUME op \in {"take", "try_take", "recv"}  PROVE obj.count > 0
  <2>1. Available(op) = (obj.count > 0)
    BY <1>1, Zenon DEF Available
  <2> QED BY <2>1, Zenon
<1> QED BY <1>1, DoneType

(* Every step keeps the invariant on where the tasks are.                   *)
LEMMA AppNext ==
  ASSUME Configured, Inv, AppInv, [ExNext]_exVars
  PROVE  AppInv'
<1>1. CASE MainCreates
  <2> DEFINE id == CHOOSE t \in FreeSlots : \A u \in FreeSlots : t <= u
  <2> HIDE DEF id
  <2>1. /\ id \in Task /\ state[id] = "UNUSED" /\ Created = 0 .. (id - 1)
        /\ id + 1 \in 1 .. Len(app.tasks)
        /\ hrt_create_task(app.tasks[id + 1].prio, app.tasks[id + 1].slice)
    BY <1>1, NextSlot DEF id
  <2>2. state' = [state EXCEPT ![id] = "READY"] /\ UNCHANGED <<app, obj, ip, at>>
    BY <1>1, <2>1 DEF hrt_create_task, id, MainCreates, appVars
  <2>3. state \in [Task -> State]
    BY DEF Inv, TypeOK, KernelTypeOK
  <2>4. Created' = Created \cup {id} /\ id \notin Created
    BY <2>1, <2>2, <2>3 DEF Created
  <2>5. id \in Nat /\ Created' = 0 .. ((id + 1) - 1)
    BY <2>1, <2>4, KernelAssumption DEF Task
  <2>6. app \in Apps /\ id + 1 \in 0 .. Len(app.tasks)
    <3>1. app \in Apps
      BY DEF AppInv
    <3>2. Len(app.tasks) \in Nat
      BY <3>1, CodeOfApp
    <3> QED BY <2>1, <2>5, <3>1, <3>2
  <2>7. ip[id] = 1 /\ at[id] = "run"
    BY <2>1, <2>4 DEF AppInv
  <2>8. 1 <= Len(Code(id))
    <3>1. Len(app.tasks[id + 1].code) \in Nat \ {0}
      BY <2>1, <2>6, CodeOfApp, Zenon
    <3> QED BY <3>1 DEF Code
  <2>9. ObjType' = ObjType /\ \A t : Code(t)' = Code(t)
    BY <2>2 DEF ObjType, Code
  <2>10. \E n \in 0 .. Len(app.tasks) : Created' = 0 .. (n - 1)
    BY <2>5, <2>6
  <2>11. /\ \A t \in Created' : ip[t] <= Len(Code(t))
         /\ \A t \in Task \ Created' : ip[t] = 1 /\ at[t] = "run"
         /\ \A t \in Created' : at[t] = "slow" => Code(t)[ip[t]].op \in Blocking
         /\ \A t \in Created' : at[t] = "wait" => Code(t)[ip[t]].op \in {"take", "lock"}
    BY <2>4, <2>7, <2>8 DEF AppInv
  <2>12. /\ obj \in ObjType /\ ip \in [Task -> Nat \ {0}]
         /\ at \in [Task -> {"run", "slow", "wait"}]
    BY DEF AppInv
  <2> QED BY <2>2, <2>6, <2>9, <2>10, <2>11, <2>12, Zenon DEF AppInv
<1>2. CASE MainStarts \/ KernelGoesOn \/ SchedulerPass \/ TimerSignal
           \/ HandlerGoesOn \/ UNCHANGED exVars
  <2>1. KernelAlone /\ UNCHANGED appVars
    BY <1>2, Zenon DEF MainStarts, KernelGoesOn, SchedulerPass, TimerSignal,
                       HandlerGoesOn, exVars, KernelAlone
  <2> QED BY <2>1, AloneKeeps, AppStays
<1>3. ASSUME pc = "run", Created' = Created, app' = app, obj' \in ObjType, Advance,
             at' = [at EXCEPT ![me] = "run"]
      PROVE  AppInv'
  <2>1. me \in Created
    BY <1>3, MeCreated
  <2>2. ip' = [ip EXCEPT ![me] = Following(Code(me), ip[me])]
    BY <1>3 DEF Advance
  <2>3. MovesTo(Following(Code(me), ip[me]), "run")
    BY <1>3, <2>2 DEF MovesTo
  <2> QED BY <1>3, <2>1, <2>3, NextInstr, AppMoves, Zenon
<1>4. at[me] = "run" => at = [at EXCEPT ![me] = "run"]
  BY DEF AppInv
<1>5. obj \in ObjType
  BY DEF AppInv
<1>6. CASE Attempt
  <2>1. /\ pc = "run" /\ at[me] = "run" /\ app' = app
        /\ Ins.op \in Acquires \cup {"send", "recv"}
    BY <1>6 DEF Attempt, Calls, At
  <2>2. me \in Created /\ me \in Task
    BY <2>1, MeCreated
  <2>3. CASE Available(Ins.op)
    <3>1. WakeOne(Ins.op, FALSE) /\ obj' = Done(Ins.op) /\ Advance /\ at' = at
      BY <1>6, <2>3, Zenon DEF Attempt
    <3>2. Created' = Created
      BY <3>1, WakeOneKeeps, Zenon
    <3>3. obj' \in ObjType
      BY <2>1, <2>2, <2>3, <3>1, AvailableDone
    <3> QED BY <1>3, <1>4, <2>1, <3>1, <3>2, <3>3
  <2>4. CASE ~ Available(Ins.op)
    <3>1. UNCHANGED vars /\ UNCHANGED obj
      BY <1>6, <2>4 DEF Attempt
    <3>2. Created' = Created
      BY <3>1, AloneKeeps DEF KernelAlone
    <3>3. CASE Ins.op \in Blocking
      <4>1. at' = [at EXCEPT ![me] = "slow"] /\ ip' = ip
        BY <1>6, <2>4, <3>3 DEF Attempt
      <4>2. ip' = [ip EXCEPT ![me] = ip[me]] /\ ip[me] \in 1 .. Len(Code(me))
        BY <2>2, <4>1, TaskOfApp DEF AppInv
      <4>3. Code(me)[ip[me]].op \in Blocking
        BY <3>3 DEF Ins
      <4>4. MovesTo(ip[me], "slow")
        BY <4>1, <4>2, <4>3, Zenon DEF MovesTo
      <4> QED BY <1>5, <2>1, <2>2, <3>1, <3>2, <4>2, <4>4, AppMoves, Zenon
    <3>4. CASE Ins.op \notin Blocking
      <4>1. Skip /\ at' = at
        BY <1>6, <2>4, <3>4 DEF Attempt
      <4>2. CASE Ins.fail = 0
        BY <1>3, <1>4, <1>5, <2>1, <3>1, <3>2, <4>1, <4>2 DEF Skip
      <4>3. CASE Ins.fail # 0
        <5>1. ip' = [ip EXCEPT ![me] = Ins.fail]
          BY <4>1, <4>3 DEF Skip
        <5>2. Ins.fail \in 1 .. Len(Code(me))
          <6>1. Ins.fail \in 0 .. Len(Code(me)) /\ Len(Code(me)) \in Nat
            BY <2>2, TaskOfApp, Zenon DEF Ins
          <6> QED BY <4>3, <6>1
        <5>3. at' = [at EXCEPT ![me] = "run"]
          BY <1>4, <2>1, <4>1
        <5>4. MovesTo(Ins.fail, "run")
          BY <5>1, <5>3 DEF MovesTo
        <5> QED BY <1>5, <2>1, <2>2, <3>1, <3>2, <5>2, <5>4, AppMoves, Zenon
      <4> QED BY <4>2, <4>3
    <3> QED BY <3>3, <3>4
  <2> QED BY <2>3, <2>4
<1>7. CASE Recheck
  <2>1. pc = "run" /\ at[me] = "slow" /\ app' = app
    BY <1>7 DEF Recheck, At
  <2>2. me \in Created /\ me \in Task
    BY <2>1, MeCreated
  <2>3. Ins.op \in Blocking
    BY <2>1, <2>2 DEF AppInv, Ins
  <2>4. CASE Available(Ins.op)
    <3>1. /\ WakeOne(Ins.op, TRUE) /\ obj' = Done(Ins.op)
          /\ at' = [at EXCEPT ![me] = "run"] /\ Advance
      BY <1>7, <2>4, Zenon DEF Recheck
    <3>2. Created' = Created
      BY <3>1, WakeOneKeeps, Zenon
    <3>3. obj' \in ObjType
      <4>1. Ins.op \in Acquires \cup {"send", "recv"}
        BY <2>3 DEF Blocking, Acquires
      <4> QED BY <2>2, <2>4, <3>1, <4>1, AvailableDone
    <3> QED BY <1>3, <2>1, <3>1, <3>2, <3>3
  <2>5. CASE ~ Available(Ins.op)
    <3> DEFINE s == IF Ins.op \in {"take", "lock"} THEN "wait" ELSE "run"
    <3>1. /\ Block /\ at' = [at EXCEPT ![me] = s] /\ ip' = ip
          /\ obj' = IF Ins.op = "send" THEN [obj EXCEPT !.tx = Append(obj.tx, me)]
                                       ELSE [obj EXCEPT !.rx = Append(obj.rx, me)]
      BY <1>7, <2>5 DEF Recheck
    <3>2. Created' = Created
      BY <3>1, BlockKeeps
    <3>3. Append(obj.tx, me) \in Seq(Task) /\ Append(obj.rx, me) \in Seq(Task)
      BY <1>5, <2>2 DEF ObjType
    <3>4. obj' \in ObjType
      BY <1>5, <3>1, <3>3, ObjUpdate, Zenon
    <3>5. ip' = [ip EXCEPT ![me] = ip[me]] /\ ip[me] \in 1 .. Len(Code(me))
      BY <2>2, <3>1, TaskOfApp DEF AppInv
    <3>6. s \in {"run", "wait"} /\ (s = "wait" => Code(me)[ip[me]].op \in {"take", "lock"})
      BY DEF Ins
    <3>7. MovesTo(ip[me], s)
      BY <3>1, <3>5, <3>6, Zenon DEF MovesTo
    <3>8. s \in {"run", "slow", "wait"}
      OBVIOUS
    <3> HIDE DEF s
    <3> QED BY <2>1, <2>2, <3>2, <3>4, <3>5, <3>7, <3>8, AppMoves, Zenon
  <2> QED BY <2>4, <2>5
<1>8. CASE Returns
  <2>1. /\ pc = "run" /\ UNCHANGED vars /\ app' = app /\ obj' = obj
        /\ at' = [at EXCEPT ![me] = "run"] /\ Advance
    BY <1>8 DEF Returns, At
  <2>2. Created' = Created
    BY <2>1, AloneKeeps DEF KernelAlone
  <2> QED BY <1>3, <1>5, <2>1, <2>2
<1>9. CASE Release
  <2>1. /\ pc = "run" /\ app' = app /\ at' = at /\ at[me] = "run" /\ Advance
        /\ Ins.op \in {"give", "unlock"}
    BY <1>9 DEF Release, Calls, At
  <2> DEFINE Hands == WakeOne(Ins.op, FALSE) /\ obj' = Done(Ins.op)
  <2>4. UNCHANGED <<vars, obj>> \/ Hands
    BY <1>9, Zenon DEF Release
  <2>2. Created' = Created /\ obj' \in ObjType
    <3>1. CASE UNCHANGED <<vars, obj>>
      BY <1>5, <3>1, AloneKeeps DEF KernelAlone
    <3>2. CASE Hands
      <4>1. me \in Task
        BY <2>1, MeCreated
      <4>2. Created' = Created
        BY <3>2, WakeOneKeeps, Zenon
      <4>3. Done(Ins.op) \in ObjType
        BY <2>1, <4>1, DoneType
      <4> QED BY <3>2, <4>2, <4>3
    <3> QED BY <2>4, <3>1, <3>2, Zenon
  <2> QED BY <1>3, <1>4, <2>1, <2>2
<1>10. CASE SleepFor
  <2>1. /\ pc = "run" /\ app' = app /\ obj' = obj /\ at' = at /\ at[me] = "run" /\ Advance
    BY <1>10 DEF SleepFor, Calls, At
  <2>2. Created' = Created
    <3>1. state' = state
      BY <1>10 DEF SleepFor, hrt_sleep
    <3> QED BY <3>1 DEF Created
  <2> QED BY <1>3, <1>4, <1>5, <2>1, <2>2
<1> QED BY <1>1, <1>2, <1>6, <1>7, <1>8, <1>9, <1>10 DEF ExNext, Processor

-----------------------------------------------------------------------------

(* No step changes the priority of a task that exists.                      *)
LEMMA PrioNext ==
  ASSUME Configured, Inv, AppInv, PrioInv, [ExNext]_exVars
  PROVE  PrioInv'
<1>1. CASE MainCreates
  <2> DEFINE id == CHOOSE t \in FreeSlots : \A u \in FreeSlots : t <= u
  <2> HIDE DEF id
  <2>1. /\ id \in Task /\ state[id] = "UNUSED"
        /\ hrt_create_task(app.tasks[id + 1].prio, app.tasks[id + 1].slice)
    BY <1>1, NextSlot DEF id
  <2>2. /\ state' = [state EXCEPT ![id] = "READY"]
        /\ prio' = [prio EXCEPT ![id] = app.tasks[id + 1].prio]
        /\ app' = app
    BY <1>1, <2>1, Zenon DEF hrt_create_task, id, MainCreates, appVars
  <2>3. state \in [Task -> State] /\ DOMAIN prio = Task
    BY DEF Inv, TypeOK, KernelTypeOK
  <2>4. Created' = Created \cup {id} /\ \A t \in Created : t \in Task /\ t # id
    BY <2>1, <2>2, <2>3 DEF Created
  <2> QED BY <2>1, <2>2, <2>3, <2>4 DEF PrioInv
<1>2. ASSUME Created' = Created, prio' = prio, app' = app
      PROVE  PrioInv'
  BY <1>2 DEF PrioInv
<1>3. ASSUME KernelAlone
      PROVE  Created' = Created /\ prio' = prio
  <2>1. prio' = prio
    BY <1>3, Zenon DEF KernelAlone, hrt_start, hrt_yield, YieldPush, Sleep, hrt_sleep,
        SleepCommit, LeaveAs, EnterScheduler, ClaimSwitch, Dispatch, Tick, TickWake,
        hrt__make_ready, TickEnd, vars, kernelVars, tcbVars
  <2> QED BY <1>3, <2>1, AloneKeeps
<1>4. CASE MainStarts \/ KernelGoesOn \/ SchedulerPass \/ TimerSignal
           \/ HandlerGoesOn \/ UNCHANGED exVars
  <2>1. KernelAlone /\ app' = app
    BY <1>4, Zenon DEF MainStarts, KernelGoesOn, SchedulerPass, TimerSignal,
                       HandlerGoesOn, exVars, appVars, KernelAlone
  <2> QED BY <1>2, <1>3, <2>1
<1>5. CASE Attempt \/ Recheck \/ Release
  <2>1. /\ app' = app
        /\ \/ UNCHANGED vars \/ Block
           \/ \E op \in {Ins.op}, quiet \in BOOLEAN : WakeOne(op, quiet)
    BY <1>5, Zenon DEF Attempt, Recheck, Release
  <2>2. CASE UNCHANGED vars
    BY <1>2, <1>3, <2>1, <2>2 DEF KernelAlone
  <2>3. CASE Block
    <3>1. prio' = prio
      BY <2>3 DEF Block, LeaveAs
    <3> QED BY <1>2, <2>1, <2>3, <3>1, BlockKeeps
  <2>4. CASE Wake
    <3>1. prio' = prio
      BY <2>4, Zenon DEF Wake, WakeWaiter, hrt__make_ready
    <3>2. Created' = Created
      BY <2>4, WakeKeeps DEF Wake
    <3> QED BY <1>2, <2>1, <3>1, <3>2
  <2> QED BY <2>1, <2>2, <2>3, <2>4, WakeOneWakes, Zenon
<1>6. CASE Returns \/ SleepFor
  <2>1. app' = app /\ state' = state /\ prio' = prio
    BY <1>6 DEF Returns, SleepFor, hrt_sleep, vars, kernelVars, tcbVars
  <2> QED BY <1>2, <2>1 DEF Created
<1> QED BY <1>1, <1>4, <1>5, <1>6 DEF ExNext, Processor

(* Tasks of different priorities: no tick pushes on the ring that hrt_yield *)
(* pushes on.                                                               *)
LEMMA PrioApart ==
  ASSUME Inv, AppInv, PrioInv
  PROVE  PushApart
<1> SUFFICES ASSUME pc = "push", NEW s \in Task, state[s] = "SLEEP",
                    prio[s] = prio[g_current]
             PROVE  FALSE
  BY DEF PushApart
<1>1. /\ g_current \in Created /\ state[g_current] = "READY"
      /\ s \in Created /\ s \in Int /\ g_current \in Int
  BY MeCreated, KernelAssumption DEF me, Created, Task
<1>2. /\ s + 1 \in 1 .. Len(app.tasks) /\ g_current + 1 \in 1 .. Len(app.tasks)
      /\ app.tasks[s + 1].prio = app.tasks[g_current + 1].prio
  BY <1>1, TaskOfApp DEF PrioInv
<1>3. app \in Apps
  BY DEF AppInv
<1>4. s + 1 = g_current + 1
  BY <1>2, <1>3, AppsAssumption, Zenon
<1>5. s = g_current
  BY <1>1, <1>4
<1> QED BY <1>1, <1>5

(* By BusyInv, no tick ends a quantum on the way out.                       *)
LEMMA BusyCovers ==
  ASSUME Inv, BusyInv
  PROVE  QuantumCoversHop
<1> SUFFICES ASSUME isr = MaxTasks, pc \in {"push", "hop"}, tick_expires
             PROVE  FALSE
  BY DEF QuantumCoversHop
<1>1. /\ g_current \in Task /\ state[g_current] = "READY"
      /\ timeslice_cfg[g_current] > 0 /\ slice_left[g_current] = 1
  BY DEF tick_expires, Charged, RoundRobin
<1>2. timeslice_cfg \in [Task -> Nat] /\ MaxTasks # NoIsr
  BY KernelAssumption DEF Inv, TypeOK, KernelTypeOK, NoIsr
<1>3. /\ busy \in 0 .. WindowTicks /\ timeslice_cfg[g_current] > WindowTicks
      /\ slice_left[g_current] + busy >= timeslice_cfg[g_current] + 1
  BY <1>1, <1>2 DEF BusyInv
<1> QED BY <1>1, <1>2, <1>3, ExamplesAssumption

(* Every step keeps the count of the ticks since the last pass.             *)
LEMMA BusyNext ==
  ASSUME Configured, Inv, AppInv, BusyInv, [ExNext]_exVars
  PROVE  BusyInv'
<1>1. /\ state \in [Task -> State] /\ timeslice_cfg \in [Task -> Nat]
      /\ slice_left \in [Task -> Nat] /\ MaxTasks \in Nat
      /\ WindowTicks \in Nat /\ busy \in 0 .. WindowTicks
      /\ NoIsr = -1 /\ 0 # NoIsr
  BY KernelAssumption, ExamplesAssumption DEF Inv, TypeOK, KernelTypeOK, NoIsr, BusyInv
<1>2. pc \in {"push", "hop"} => g_current \in Task
  BY DEF Inv, OwnerKnown
<1>3. ASSUME busy' \in 0 .. WindowTicks, timeslice_cfg' = timeslice_cfg,
             pc' \notin {"push", "hop"}
      PROVE  BusyInv'
  BY <1>3 DEF BusyInv
<1>4. CASE MainCreates
  <2> DEFINE id == CHOOSE t \in FreeSlots : \A u \in FreeSlots : t <= u
  <2> HIDE DEF id
  <2>1. /\ id \in Task /\ id + 1 \in 1 .. Len(app.tasks)
        /\ hrt_create_task(app.tasks[id + 1].prio, app.tasks[id + 1].slice)
    BY <1>4, NextSlot DEF id
  <2>2. timeslice_cfg' = [timeslice_cfg EXCEPT ![id] = app.tasks[id + 1].slice]
    BY <2>1 DEF hrt_create_task, id
  <2>3. app.tasks[id + 1].slice = 0 \/ app.tasks[id + 1].slice > WindowTicks
    <3>1. app \in Apps
      BY DEF AppInv
    <3> QED BY <2>1, <3>1, AppsAssumption, Zenon
  <2>4. busy' = busy /\ pc' = "main"
    BY <1>4 DEF MainCreates, portVars, At
  <2>5. \A t \in Task : timeslice_cfg'[t] = 0 \/ timeslice_cfg'[t] > WindowTicks
    <3> SUFFICES ASSUME NEW t \in Task
                 PROVE  timeslice_cfg'[t] = 0 \/ timeslice_cfg'[t] > WindowTicks
      OBVIOUS
    <3>1. timeslice_cfg[t] = 0 \/ timeslice_cfg[t] > WindowTicks
      BY DEF BusyInv
    <3> QED BY <1>1, <2>1, <2>2, <2>3, <3>1
  <2> QED BY <1>1, <2>4, <2>5 DEF BusyInv
<1>5. CASE MainStarts \/ SleepFor
  BY <1>1, <1>3, <1>5 DEF MainStarts, hrt_start, SleepFor, hrt_sleep, Goto, kernelVars, tcbVars
<1>6. CASE SchedulerPass
  BY <1>1, <1>3, <1>6 DEF SchedulerPass, Dispatch, Goto, tcbVars
<1>7. ASSUME UNCHANGED vars, UNCHANGED busy
      PROVE  BusyInv'
  BY <1>7 DEF BusyInv, vars, kernelVars, tcbVars, portVars
<1>8. ASSUME Block, UNCHANGED busy
      PROVE  BusyInv'
  <2>1. /\ timeslice_cfg' = timeslice_cfg /\ isr = NoIsr /\ isr' = isr
        /\ g_current' = g_current /\ me = g_current
    BY <1>8 DEF Block, LeaveAs, At, Goto, me
  <2>2. state'[g_current] = "BLOCKED"
    BY <1>8, <2>1, BlockKeeps
  <2> QED BY <1>1, <1>8, <2>1, <2>2 DEF BusyInv
<1>9. CASE Attempt \/ Recheck \/ Release
  <2>1. /\ busy' = busy
        /\ \/ UNCHANGED vars \/ Block
           \/ \E op \in {Ins.op}, quiet \in BOOLEAN : WakeOne(op, quiet)
    BY <1>9, Zenon DEF Attempt, Recheck, Release
  <2>2. CASE Wake
    <3>1. timeslice_cfg' = timeslice_cfg /\ (pc' = "run" \/ pc' = "woke")
      BY <2>2, Zenon DEF Wake, WakeWaiter, Goto
    <3> QED BY <1>1, <1>3, <2>1, <3>1
  <2> QED BY <1>7, <1>8, <2>1, <2>2, WakeOneWakes, Zenon
<1>10. CASE Returns \/ UNCHANGED exVars
  BY <1>7, <1>10, Zenon DEF Returns, exVars
<1>11. CASE hrt_yield /\ UNCHANGED busy
  <2>1. /\ timeslice_cfg' = timeslice_cfg /\ isr = NoIsr /\ isr' = isr
        /\ g_current' = g_current /\ state' = state /\ pc \in {"run", "woke"}
    BY <1>11 DEF hrt_yield, At, Goto
  <2>2. g_current \in Task /\ state[g_current] = "READY"
    BY <2>1, MeCreated DEF me
  <2>3. slice_left'[g_current] = timeslice_cfg[g_current]
    BY <1>1, <1>11, <2>2 DEF hrt_yield
  <2> QED BY <1>1, <1>11, <2>1, <2>2, <2>3 DEF BusyInv
<1>12. CASE YieldPush /\ UNCHANGED busy
  <2>1. /\ UNCHANGED <<timeslice_cfg, slice_left, isr, g_current, state, busy>>
        /\ pc = "push"
    BY <1>12 DEF YieldPush, At, Goto, tcbVars
  <2> QED BY <1>1, <1>2, <2>1 DEF BusyInv
<1>13. CASE SleepCommit /\ UNCHANGED busy
  <2>1. /\ timeslice_cfg' = timeslice_cfg /\ isr = NoIsr /\ isr' = isr
        /\ g_current' = g_current /\ state' = [state EXCEPT ![g_current] = "SLEEP"]
        /\ pc = "arm"
    BY <1>13 DEF SleepCommit, LeaveAs, At, Goto
  <2>2. g_current \in Task
    BY <2>1, MeCreated DEF me
  <2> QED BY <1>1, <1>13, <2>1, <2>2 DEF BusyInv
<1>14. CASE (EnterScheduler \/ ClaimSwitch) /\ UNCHANGED busy
  BY <1>1, <1>3, <1>14 DEF EnterScheduler, ClaimSwitch, Goto, kernelVars, tcbVars
<1>15. CASE TimerSignal
  <2>1. /\ isr = NoIsr /\ isr' = 0
        /\ UNCHANGED <<timeslice_cfg, slice_left, g_current, state, pc>>
    BY <1>15 DEF TimerSignal, Tick, tcbVars
  <2>2. /\ busy' \in 0 .. WindowTicks
        /\ pc \in {"push", "hop"} => busy' = busy + 1
    BY <1>1, <1>15 DEF TimerSignal, Idle, At
  <2> QED BY <1>1, <1>2, <2>1, <2>2 DEF BusyInv
<1>16. CASE TickWake /\ UNCHANGED busy
  <2>1. /\ isr \in Task /\ isr' = isr + 1 /\ isr # NoIsr /\ isr' # NoIsr
        /\ UNCHANGED <<timeslice_cfg, g_current, pc, busy>>
    BY <1>1, <1>16, KernelAssumption DEF TickWake, Task
  <2>2. ASSUME pc \in {"push", "hop"}, state'[g_current] = "READY"
        PROVE  slice_left'[g_current] + busy >= timeslice_cfg[g_current] + 1
    <3>1. g_current \in Task /\ busy > 0
      BY <1>2, <2>1, <2>2 DEF BusyInv
    <3>2. CASE state[isr] = "SLEEP" /\ Due(isr) /\ isr = g_current
      <4>1. slice_left' = [slice_left EXCEPT ![isr] = timeslice_cfg[isr]]
        BY <1>16, <3>2 DEF TickWake, hrt__make_ready
      <4> QED BY <1>1, <3>1, <3>2, <4>1
    <3>3. CASE ~ (state[isr] = "SLEEP" /\ Due(isr) /\ isr = g_current)
      <4>1. state'[g_current] = state[g_current] /\ slice_left'[g_current] = slice_left[g_current]
        BY <1>1, <1>16, <2>1, <3>1, <3>3 DEF TickWake, hrt__make_ready
      <4> QED BY <1>1, <2>1, <2>2, <3>1, <4>1 DEF BusyInv
    <3> QED BY <3>2, <3>3
  <2> QED BY <1>1, <2>1, <2>2 DEF BusyInv
<1>17. CASE TickEnd /\ UNCHANGED busy
  <2>1. /\ isr = MaxTasks /\ isr' = NoIsr /\ isr # NoIsr
        /\ UNCHANGED <<timeslice_cfg, g_current, pc, busy, state>>
    BY <1>1, <1>17 DEF TickEnd
  <2>2. g_current \in Task => slice_left'[g_current] >= slice_left[g_current] - 1
    BY <1>1, <1>17 DEF TickEnd, tick_charge
  <2>3. slice_left' \in [Task -> Int]
    BY <1>1, <1>17 DEF TickEnd, tick_charge
  <2> QED BY <1>1, <1>2, <2>1, <2>2, <2>3 DEF BusyInv
<1> QED BY <1>4, <1>5, <1>6, <1>9, <1>10, <1>11, <1>12, <1>13, <1>14, <1>15, <1>16,
           <1>17, Zenon DEF ExNext, Processor, KernelGoesOn, HandlerGoesOn

-----------------------------------------------------------------------------
(* Who has the token or the mutex.                                          *)

(* The code of every task, and the object, of a program with a guarded part.*)
LEMMA GuardedApp ==
  ASSUME AppInv, app.guarded # {}
  PROVE  /\ \A n \in 1 .. Len(app.tasks) : Guards(app.tasks[n].code, app.guarded)
         /\ obj.kind \in {"mutex", "sem"} /\ obj.kind = app.object.kind
         /\ obj.kind = "sem" => obj.cap = 1 /\ app.object.count <= 1
         /\ obj.count \in Nat /\ obj.owner \in Task \cup {Free}
<1>1. app \in Apps /\ obj \in ObjType
  BY DEF AppInv
<1>2. /\ \A n \in 1 .. Len(app.tasks) : Guards(app.tasks[n].code, app.guarded)
      /\ \/ app.object.kind = "mutex"
         \/ app.object.kind = "sem" /\ app.object.count <= 1 /\ app.object.cap = 1
  BY <1>1, AppsAssumption, Zenon
<1>3. /\ obj.kind = app.object.kind /\ obj.cap = app.object.cap
      /\ obj.count \in Nat /\ obj.owner \in Task \cup {Free}
  BY <1>1 DEF ObjType
<1> QED BY <1>2, <1>3

(* What that says of the instruction of the running task.                   *)
LEMMA MeGuarded ==
  ASSUME AppInv, app.guarded # {}, me \in Created
  PROVE  /\ Ins.op \in {"sleep", "take", "try_take", "give"} \cup
                       {"lock", "try_lock", "unlock"}
         /\ Ins.op \in {"take", "try_take", "give"} => obj.kind = "sem"
         /\ Ins.op \in {"lock", "try_lock", "unlock"} => obj.kind = "mutex"
         /\ Ins.op \in Acquires => ip[me] \notin app.guarded
         /\ Ins.op \in {"try_take", "try_lock"} =>
              (IF Ins.fail = 0 THEN Following(Code(me), ip[me]) ELSE Ins.fail)
                \notin app.guarded
         /\ Ins.op \in {"give", "unlock"} =>
              ip[me] \in app.guarded /\ Following(Code(me), ip[me]) \notin app.guarded
         /\ Following(Code(me), ip[me]) \in app.guarded =>
              ip[me] \in app.guarded \/ Ins.op \in Acquires
<1>1. /\ me + 1 \in 1 .. Len(app.tasks) /\ ip[me] \in 1 .. Len(Code(me))
      /\ Ins.op \in Operations(app.object.kind)
  BY TaskOfApp, Zenon DEF Ins
<1>2. Guards(Code(me), app.guarded)
  BY <1>1, GuardedApp, Zenon DEF Code
<1>3. /\ Ins.op \in Acquires => ip[me] \notin app.guarded
      /\ Ins.op \in {"try_take", "try_lock"} =>
           (IF Ins.fail = 0 THEN Following(Code(me), ip[me]) ELSE Ins.fail)
             \notin app.guarded
      /\ Ins.op \in {"give", "unlock"} =>
           ip[me] \in app.guarded /\ Following(Code(me), ip[me]) \notin app.guarded
      /\ Following(Code(me), ip[me]) \in app.guarded =>
           ip[me] \in app.guarded \/ Ins.op \in Acquires
  BY <1>1, <1>2, Zenon DEF Guards, Ins
<1>4. CASE obj.kind = "mutex"
  <2>1. Ins.op \in {"sleep", "lock", "try_lock", "unlock"}
    BY <1>1, <1>4, GuardedApp DEF Operations
  <2> QED BY <1>3, <1>4, <2>1
<1>5. CASE obj.kind = "sem"
  <2>1. Ins.op \in {"sleep", "take", "try_take", "give"}
    BY <1>1, <1>5, GuardedApp DEF Operations
  <2> QED BY <1>3, <1>5, <2>1
<1> QED BY <1>4, <1>5, GuardedApp

(* A task that is where it was has what it had.                             *)
LEMMA HasSame ==
  ASSUME NEW t \in Task, app' = app, ip'[t] = ip[t], at'[t] = at[t],
         Created' = Created, state'[t] = "BLOCKED" <=> state[t] = "BLOCKED"
  PROVE  Has(t)' <=> Has(t)
BY Zenon DEF Has

(* No task has got the token, and the object is as it was ...               *)
LEMMA TokenStays ==
  ASSUME OneToken, UNCHANGED <<obj.kind, obj.count, obj.owner>>,
         \A t \in Task : Has(t)' => Has(t)
  PROVE  OneToken'
<1>1. CASE obj.kind # "sem"
  BY <1>1 DEF OneToken
<1>2. CASE obj.kind = "sem"
  BY <1>2 DEF OneToken
<1> QED BY <1>1, <1>2

(* ... or only w has it, and so the object says ...                         *)
LEMMA TokenTaken ==
  ASSUME NEW w \in Task, \A t \in Task : Has(t)' => t = w,
         obj'.kind = "mutex" => obj'.owner = w,
         obj'.kind = "sem" => obj'.count = 0
  PROVE  OneToken'
<1>1. ~ (0 > 0) /\ 0 <= 1
  OBVIOUS
<1> QED BY <1>1 DEF OneToken

(* ... or nobody has it.                                                    *)
LEMMA TokenBack ==
  ASSUME \A t \in Task : ~ Has(t)', obj'.kind = "sem" => obj'.count <= 1
  PROVE  OneToken'
BY DEF OneToken

(* A task that takes an available token or mutex is the only one to have it.*)
LEMMA TokenAcquired ==
  ASSUME Inv, AppInv, OneToken, app.guarded # {}, me \in Created, me \in Task,
         Ins.op \in Acquires, Available(Ins.op), obj' = Done(Ins.op),
         \A t \in Task : t # me => (Has(t)' => Has(t))
  PROVE  OneToken'
<1>1. obj.kind \in {"mutex", "sem"} /\ obj \in ObjType
  BY GuardedApp DEF AppInv
<1>2. CASE obj.kind = "mutex"
  <2>1. Ins.op \in {"lock", "try_lock"}
    BY <1>2, MeGuarded DEF Acquires
  <2>2. obj.owner = Free /\ obj' = [obj EXCEPT !.owner = me]
    <3>1. Available(Ins.op) = (obj.owner = Free) /\ Done(Ins.op) = [obj EXCEPT !.owner = me]
      BY <2>1 DEF Available, Done
    <3> QED BY <3>1, Zenon
  <2>3. obj'.owner = me /\ obj'.kind = "mutex"
    BY <1>1, <1>2, <2>2 DEF ObjType
  <2>4. \A t \in Task : ~ Has(t)
    <3>1. \A t \in Task : t # Free
      BY KernelAssumption DEF Task, Free
    <3> QED BY <1>2, <2>2, <3>1 DEF OneToken
  <2> QED BY <2>3, <2>4, TokenTaken, Zenon
<1>3. CASE obj.kind = "sem"
  <2>1. Ins.op \in {"take", "try_take"}
    BY <1>3, MeGuarded DEF Acquires
  <2>2. obj.count > 0 /\ obj' = [obj EXCEPT !.count = obj.count - 1]
    <3>1. /\ Available(Ins.op) = (obj.count > 0)
          /\ Done(Ins.op) = [obj EXCEPT !.count = obj.count - 1]
      BY <2>1 DEF Available, Done
    <3> QED BY <3>1, Zenon
  <2>3. /\ obj.count \in Nat /\ obj.count <= 1
        /\ \A t \in Task : ~ Has(t)
    BY <1>3, <2>2, GuardedApp DEF OneToken
  <2>4. obj'.count = 0 /\ obj'.kind = "sem"
    <3>1. obj'.count = obj.count - 1 /\ obj'.kind = "sem"
      BY <1>1, <1>3, <2>2 DEF ObjType
    <3> QED BY <2>2, <2>3, <3>1
  <2> QED BY <2>3, <2>4, TokenTaken, Zenon
<1> QED BY <1>1, <1>2, <1>3

(* The task that has it gives it back: to the first waiter, or to the       *)
(* object.                                                                  *)
LEMMA TokenReleased ==
  ASSUME Inv, AppInv, OneToken, app.guarded # {}, me \in Created, me \in Task,
         state[me] = "READY", Ins.op \in {"give", "unlock"},
         Ins.op = "unlock" => obj.owner = me,
         WakeOne(Ins.op, FALSE), obj' = Done(Ins.op), app' = app, at' = at,
         \A t \in Task : t # me => ip'[t] = ip[t],
         \A t \in Task : t = me => ~ Has(t)'
  PROVE  OneToken'
<1>1. obj.kind \in {"mutex", "sem"} /\ obj \in ObjType /\ obj.rx \in Seq(Task)
  BY GuardedApp DEF AppInv, ObjType
<1>2. Has(me)
  BY MeGuarded DEF Has
<1>3. \A t \in Task : Has(t) => t = me
  BY <1>1, <1>2 DEF OneToken
<1>4. obj.kind = "sem" => obj.count = 0
  <2>1. obj.kind = "sem" => ~ (obj.count > 0)
    BY <1>2 DEF OneToken
  <2> QED BY <2>1, GuardedApp
<1>5. Waiters(Ins.op) = obj.rx
  BY DEF Waiters
<1>6. CASE obj.rx = <<>>
  <2>1. UNCHANGED vars
    BY <1>5, <1>6 DEF WakeOne
  <2>2. Created' = Created /\ state' = state
    BY <2>1, AloneKeeps DEF KernelAlone, vars, kernelVars, tcbVars
  <2>3. \A t \in Task : ~ Has(t)'
    <3> SUFFICES ASSUME NEW t \in Task, t # me  PROVE ~ Has(t)'
      OBVIOUS
    <3>1. Has(t)' <=> Has(t)
      BY <2>2, HasSame
    <3> QED BY <1>3, <3>1
  <2>4. obj'.kind = "sem" => obj'.count <= 1
    <3>1. CASE Ins.op = "give"
      <4>1. obj' = [obj EXCEPT !.count = Least(obj.count + 1, obj.cap)]
        BY <1>6, <3>1 DEF Done, Given
      <4>2. obj.kind = "sem" /\ obj.count = 0 /\ obj.cap = 1
        BY <1>4, <3>1, MeGuarded, GuardedApp
      <4>3. Least(obj.count + 1, obj.cap) = 1
        <5>1. Least(0 + 1, 1) = 1
          BY DEF Least
        <5> QED BY <4>2, <5>1, Zenon
      <4>4. obj'.count = 1
        BY <1>1, <4>1, <4>3 DEF ObjType
      <4> QED BY <4>4
    <3>2. CASE Ins.op = "unlock"
      <4>1. obj' = [obj EXCEPT !.owner = Free] /\ obj.kind = "mutex"
        BY <1>6, <3>2, MeGuarded DEF Done, Unlocked
      <4>2. obj'.kind = "mutex"
        BY <1>1, <4>1 DEF ObjType
      <4> QED BY <4>2
    <3> QED BY <3>1, <3>2
  <2> QED BY <2>3, <2>4, TokenBack
<1>7. CASE obj.rx # <<>>
  <2> DEFINE w == Head(obj.rx)
  <2>1. w \in Task /\ WakeWaiter(w)
    BY <1>1, <1>5, <1>7 DEF WakeOne
  <2>2. /\ obj'.kind = "mutex" => obj'.owner = w
        /\ obj'.kind = "sem" => obj'.count = 0
    <3>1. CASE Ins.op = "give"
      <4>1. obj' = [obj EXCEPT !.rx = Tail(obj.rx)]
        BY <1>7, <3>1 DEF Done, Given
      <4>2. obj.kind = "sem" /\ obj.count = 0
        BY <1>4, <3>1, MeGuarded
      <4>3. obj'.count = obj.count /\ obj'.kind = obj.kind
        BY <1>1, <4>1 DEF ObjType
      <4> QED BY <4>2, <4>3
    <3>2. CASE Ins.op = "unlock"
      <4>1. obj' = [obj EXCEPT !.owner = Head(obj.rx), !.rx = Tail(obj.rx)]
            /\ obj.kind = "mutex"
        BY <1>7, <3>2, MeGuarded DEF Done, Unlocked
      <4>2. obj'.owner = Head(obj.rx) /\ obj'.kind = "mutex"
        BY <1>1, <4>1 DEF ObjType
      <4> QED BY <4>2
    <3> QED BY <3>1, <3>2
  <2> HIDE DEF w
  <2>3. /\ Created' = Created
        /\ \A t \in Task : t # w => state'[t] = state[t]
    BY <2>1, WakeKeeps
  <2>4. \A t \in Task : Has(t)' => t = w
    <3> SUFFICES ASSUME NEW t \in Task, t # w  PROVE ~ Has(t)'
      OBVIOUS
    <3>1. CASE t # me
      <4>1. Has(t)' <=> Has(t)
        BY <2>3, <3>1, HasSame
      <4> QED BY <1>3, <3>1, <4>1
    <3> QED BY <3>1
  <2> QED BY <2>1, <2>2, <2>4, TokenTaken
<1> QED BY <1>6, <1>7

(* Every step keeps to one token, one case per action.                      *)
LEMMA GuardNext ==
  ASSUME Configured, Inv, AppInv, GuardInv, [ExNext]_exVars
  PROVE  GuardInv'
<1>1. app' = app
  BY Zenon DEF ExNext, Processor, MainCreates, MainStarts, Attempt, Recheck, Returns, Release,
     SleepFor, KernelGoesOn, SchedulerPass, TimerSignal, HandlerGoesOn, appVars, exVars
<1> SUFFICES ASSUME app.guarded # {}  PROVE OneToken'
  BY <1>1 DEF GuardInv
<1>2. OneToken /\ obj \in ObjType /\ ip \in [Task -> Nat \ {0}]
      /\ at \in [Task -> {"run", "slow", "wait"}]
  BY DEF GuardInv, AppInv
<1>3. CASE MainCreates
  <2> DEFINE id == CHOOSE t \in FreeSlots : \A u \in FreeSlots : t <= u
  <2> HIDE DEF id
  <2>1. /\ id \in Task /\ id + 1 \in 1 .. Len(app.tasks) /\ state[id] = "UNUSED"
        /\ hrt_create_task(app.tasks[id + 1].prio, app.tasks[id + 1].slice)
    BY <1>3, NextSlot DEF id
  <2>2. state' = [state EXCEPT ![id] = "READY"] /\ UNCHANGED <<obj, ip, at>>
    BY <1>3, <2>1 DEF hrt_create_task, id, MainCreates, appVars
  <2>3. state \in [Task -> State]
    BY DEF Inv, TypeOK, KernelTypeOK
  <2>4. Created' = Created \cup {id} /\ id \notin Created
    BY <2>1, <2>2, <2>3 DEF Created
  <2>5. ip[id] = 1 /\ at[id] = "run"
    BY <2>1, <2>4 DEF AppInv
  <2>6. 1 \notin app.guarded
    BY <2>1, GuardedApp, Zenon DEF Guards
  <2>7. ASSUME NEW t \in Task, Has(t)'  PROVE Has(t)
    <3>1. CASE t = id
      BY <1>1, <2>2, <2>5, <2>6, <2>7, <3>1, Zenon DEF Has
    <3>2. CASE t # id
      <4>1. state'[t] = state[t] /\ (t \in Created' <=> t \in Created)
        BY <2>2, <2>3, <2>4, <3>2
      <4> QED BY <1>1, <2>2, <2>7, <4>1, Zenon DEF Has
    <3> QED BY <3>1, <3>2
  <2> QED BY <1>2, <2>2, <2>7, TokenStays
<1>4. CASE MainStarts \/ KernelGoesOn \/ SchedulerPass \/ TimerSignal
           \/ HandlerGoesOn \/ UNCHANGED exVars
  <2>1. KernelAlone /\ UNCHANGED appVars
    BY <1>4, Zenon DEF MainStarts, KernelGoesOn, SchedulerPass, TimerSignal,
                       HandlerGoesOn, exVars, KernelAlone
  <2>2. UNCHANGED <<obj, ip, at>>
    BY <2>1 DEF appVars
  <2>3. \A t \in Task : Has(t)' <=> Has(t)
    BY <1>1, <2>1, <2>2, AloneKeeps, HasSame, Zenon
  <2> QED BY <1>2, <2>2, <2>3, TokenStays
<1>5. CASE ~ MainCreates /\ pc = "run"
           /\ (Attempt \/ Recheck \/ Returns \/ Release \/ SleepFor)
  <2>1. me \in Created /\ me \in Task /\ state[me] = "READY"
    BY <1>5, MeCreated
  <2>2. \A t \in Task : t # me => ip'[t] = ip[t] /\ at'[t] = at[t]
    <3>1. /\ ip' = ip \/ Advance \/ ip' = [ip EXCEPT ![me] = Ins.fail]
          /\ at' = at \/ \E s \in {"run", "slow", "wait"} : at' = [at EXCEPT ![me] = s]
      <4>1. CASE Attempt
        BY <4>1, Zenon DEF Attempt, Skip
      <4>2. CASE Recheck
        <5>1. CASE Available(Ins.op)
          BY <4>2, <5>1, Zenon DEF Recheck
        <5>2. CASE ~ Available(Ins.op)
          BY <4>2, <5>2 DEF Recheck
        <5> QED BY <5>1, <5>2
      <4>3. CASE Returns \/ Release \/ SleepFor
        BY <4>3, Zenon DEF Returns, Release, SleepFor
      <4> QED BY <1>5, <4>1, <4>2, <4>3
    <3>2. \A t \in Task : t # me => ip'[t] = ip[t]
      BY <1>2, <3>1 DEF Advance
    <3>3. \A t \in Task : t # me => at'[t] = at[t]
      BY <1>2, <3>1
    <3> QED BY <3>2, <3>3
  <2>3. ASSUME UNCHANGED vars, NEW t \in Task, t # me  PROVE Has(t)' <=> Has(t)
    BY <1>1, <2>2, <2>3, HasSame, AloneKeeps DEF KernelAlone
  <2>4. ASSUME Advance  PROVE ip'[me] = Following(Code(me), ip[me])
    BY <1>2, <2>1, <2>4 DEF Advance
  <2>5. ASSUME Available(Ins.op), Ins.op \in Acquires, UNCHANGED vars, obj' = Done(Ins.op)
        PROVE  OneToken'
    BY <1>2, <2>1, <2>3, <2>5, TokenAcquired
  <2>6. ASSUME UNCHANGED vars, UNCHANGED <<obj.kind, obj.count, obj.owner>>,
               \A t \in Task : t = me => (Has(t)' => Has(t))
        PROVE  OneToken'
    BY <1>2, <2>3, <2>6, TokenStays
  <2>7. ASSUME NEW op \in Acquires, NEW quiet, WakeOne(op, quiet)  PROVE UNCHANGED vars
    <3>1. Waiters(op) = <<>>
      BY <2>7 DEF Waiters, Acquires
    <3> QED BY <2>7, <3>1, Zenon DEF WakeOne
  <2>8. CASE Attempt
    <3>1. at[me] = "run" /\ Ins.op \in Acquires
      BY <2>1, <2>8, MeGuarded DEF Attempt, Calls, Acquires
    <3>2. CASE Available(Ins.op)
      <4>1. WakeOne(Ins.op, FALSE) /\ obj' = Done(Ins.op)
        BY <2>8, <3>2, Zenon DEF Attempt
      <4> QED BY <2>5, <2>7, <3>1, <3>2, <4>1, Zenon
    <3>3. CASE ~ Available(Ins.op)
      <4>1. UNCHANGED vars /\ obj' = obj
        BY <2>8, <3>3 DEF Attempt
      <4>2. Created' = Created /\ state' = state
        BY <4>1, AloneKeeps DEF KernelAlone, vars, kernelVars, tcbVars
      <4>3. ip'[me] \notin app.guarded /\ at'[me] # "wait"
        <5>1. CASE Ins.op \in Blocking
          <6>1. at' = [at EXCEPT ![me] = "slow"] /\ ip' = ip
            BY <2>8, <3>3, <5>1 DEF Attempt
          <6> QED BY <1>2, <2>1, <3>1, <6>1, MeGuarded
        <5>2. CASE Ins.op \notin Blocking
          <6>1. Skip /\ at' = at
            BY <2>8, <3>3, <5>2 DEF Attempt
          <6>2. Ins.op \in {"try_take", "try_lock"}
            BY <3>1, <5>2 DEF Acquires, Blocking
          <6>3. ip'[me] = IF Ins.fail = 0 THEN Following(Code(me), ip[me]) ELSE Ins.fail
            BY <1>2, <2>1, <2>4, <6>1 DEF Skip
          <6> QED BY <2>1, <3>1, <6>1, <6>2, <6>3, MeGuarded
        <5> QED BY <5>1, <5>2
      <4>4. \A t \in Task : t = me => ~ Has(t)'
        BY <1>1, <4>3, Zenon DEF Has
      <4> QED BY <2>6, <4>1, <4>4
    <3> QED BY <3>2, <3>3
  <2>9. CASE Recheck
    <3>1. at[me] = "slow" /\ Ins.op \in Blocking
      BY <2>1, <2>9 DEF Recheck, AppInv, Ins
    <3>2. Ins.op \in {"take", "lock"} /\ Ins.op \in Acquires
      BY <2>1, <3>1, MeGuarded DEF Acquires, Blocking
    <3>3. CASE Available(Ins.op)
      <4>1. WakeOne(Ins.op, TRUE) /\ obj' = Done(Ins.op)
        BY <2>9, <3>3, Zenon DEF Recheck
      <4> QED BY <2>5, <2>7, <3>2, <3>3, <4>1, Zenon
    <3>4. CASE ~ Available(Ins.op)
      <4>1. /\ Block /\ ip' = ip
            /\ obj' = [obj EXCEPT !.rx = Append(obj.rx, me)]
        BY <2>9, <3>2, <3>4 DEF Recheck
      <4>2. UNCHANGED <<obj.kind, obj.count, obj.owner>>
        BY <1>2, <4>1 DEF ObjType
      <4>3. /\ Created' = Created /\ state'[me] = "BLOCKED"
            /\ \A t \in Task : t # me => state'[t] = state[t]
        BY <4>1, BlockKeeps
      <4>4. ip[me] \notin app.guarded
        BY <2>1, <3>2, MeGuarded
      <4>5. ASSUME NEW t \in Task, Has(t)'  PROVE Has(t)
        <5>1. CASE t = me
          BY <1>1, <4>1, <4>3, <4>4, <4>5, <5>1, Zenon DEF Has
        <5>2. CASE t # me
          <6>1. state'[t] = state[t] /\ ip'[t] = ip[t] /\ at'[t] = at[t]
            BY <2>2, <4>3, <5>2
          <6> QED BY <1>1, <4>3, <4>5, <6>1, HasSame
        <5> QED BY <5>1, <5>2
      <4> QED BY <1>2, <4>2, <4>5, TokenStays
    <3> QED BY <3>3, <3>4
  <2>10. CASE Returns
    <3>1. UNCHANGED vars /\ obj' = obj /\ at[me] = "wait"
      BY <2>10 DEF Returns
    <3>2. Has(me)
      BY <2>1, <3>1 DEF Has
    <3> QED BY <2>6, <3>1, <3>2
  <2>11. CASE Release
    <3>1. /\ at' = at /\ at[me] = "run" /\ Advance /\ Ins.op \in {"give", "unlock"}
      BY <2>11 DEF Release, Calls
    <3>2. ip'[me] \notin app.guarded
      BY <2>1, <2>4, <3>1, MeGuarded
    <3>3. \A t \in Task : t = me => ~ Has(t)'
      BY <1>1, <3>1, <3>2, Zenon DEF Has
    <3>4. CASE Ins.op = "unlock" /\ obj.owner # me
      <4>1. UNCHANGED vars /\ obj' = obj
        BY <2>11, <3>4 DEF Release
      <4> QED BY <2>6, <3>3, <4>1
    <3>5. CASE ~ (Ins.op = "unlock" /\ obj.owner # me)
      <4>1. WakeOne(Ins.op, FALSE) /\ obj' = Done(Ins.op)
        BY <2>11, <3>5, Zenon DEF Release
      <4> QED BY <1>1, <1>2, <2>1, <2>2, <3>1, <3>3, <3>5, <4>1, TokenReleased
    <3> QED BY <3>4, <3>5
  <2>12. CASE SleepFor
    <3>1. /\ at' = at /\ at[me] = "run" /\ Advance /\ Ins.op = "sleep"
          /\ obj' = obj /\ state' = state
      BY <2>12 DEF SleepFor, Calls, hrt_sleep
    <3>2. Created' = Created
      BY <3>1 DEF Created
    <3>3. ip'[me] \in app.guarded => ip[me] \in app.guarded
      BY <2>1, <2>4, <3>1, MeGuarded DEF Acquires
    <3>4. ASSUME NEW t \in Task, Has(t)'  PROVE Has(t)
      <4>1. CASE t = me
        BY <1>1, <2>1, <3>1, <3>2, <3>3, <3>4, <4>1, Zenon DEF Has
      <4>2. CASE t # me
        BY <1>1, <2>2, <3>1, <3>2, <3>4, <4>2, HasSame
      <4> QED BY <4>1, <4>2
    <3> QED BY <1>2, <3>1, <3>4, TokenStays
  <2> QED BY <1>5, <2>8, <2>9, <2>10, <2>11, <2>12
<1>6. Attempt \/ Recheck \/ Returns \/ Release \/ SleepFor => pc = "run"
  BY Zenon DEF Attempt, Recheck, Returns, Release, SleepFor, Calls, At
<1> QED BY <1>3, <1>4, <1>5, <1>6 DEF ExNext, Processor

-----------------------------------------------------------------------------

(* Where the programs start.                                                *)
LEMMA ExInvInit ==
  ASSUME ExInit
  PROVE  Inv /\ AppInv /\ PrioInv /\ BusyInv /\ GuardInv
<1>1. Inv /\ Init
  BY InvInit DEF ExInit
<1>2. /\ app \in Apps /\ ip = [t \in Task |-> 1] /\ at = [t \in Task |-> "run"]
      /\ busy = 0
      /\ obj = [kind |-> app.object.kind, count |-> app.object.count,
                cap |-> app.object.cap, owner |-> Free, rx |-> <<>>, tx |-> <<>>]
  BY DEF ExInit
<1>3. /\ Created = {} /\ timeslice_cfg = [t \in Task |-> 0]
      /\ state = [t \in Task |-> "UNUSED"] /\ pc = "main"
  BY <1>1 DEF Init, hrt_init, Created
<1>4. AppInv
  <2>1. app.object \in [kind : {"none", "sem", "mutex", "queue"}, count : Nat, cap : Nat]
    BY <1>2, AppsAssumption, Zenon
  <2>2. obj \in ObjType
    <3> DEFINE S == Seq(Task)
    <3>1. <<>> \in S
      OBVIOUS
    <3>2. ObjType = [kind : {app.object.kind}, count : Nat, cap : {app.object.cap},
                     owner : Task \cup {Free}, rx : S, tx : S]
      BY DEF ObjType
    <3> HIDE DEF S
    <3> QED BY <1>2, <2>1, <3>1, <3>2
  <2>3. \E n \in 0 .. Len(app.tasks) : Created = 0 .. (n - 1)
    <3>1. Len(app.tasks) \in Nat
      BY <1>2, CodeOfApp
    <3>2. 0 \in 0 .. Len(app.tasks) /\ 0 .. (0 - 1) = {}
      BY <3>1
    <3> QED BY <1>3, <3>2
  <2>4. /\ ip \in [Task -> Nat \ {0}] /\ at \in [Task -> {"run", "slow", "wait"}]
        /\ \A t \in Task \ Created : ip[t] = 1 /\ at[t] = "run"
    BY <1>2
  <2> QED BY <1>2, <1>3, <2>2, <2>3, <2>4, Zenon DEF AppInv
<1>5. BusyInv
  <2>1. 0 \in 0 .. WindowTicks /\ \A t \in Task : timeslice_cfg[t] = 0
    BY <1>3, ExamplesAssumption
  <2> QED BY <1>2, <1>3, <2>1, Zenon DEF BusyInv
<1>6. GuardInv
  <2> SUFFICES ASSUME app.guarded # {}  PROVE OneToken
    BY DEF GuardInv
  <2>1. \A t \in Task : ~ Has(t)
    BY <1>2, <1>3 DEF Has
  <2>2. obj.kind = "sem" => obj.count <= 1
    BY <1>2, <1>4, GuardedApp
  <2> QED BY <2>1, <2>2 DEF OneToken
<1>7. PrioInv
  BY <1>3 DEF PrioInv
<1> QED BY <1>1, <1>4, <1>5, <1>6, <1>7

(* Their steps.                                                             *)
LEMMA ExInvNext ==
  ASSUME Configured, Inv, AppInv, PrioInv, BusyInv, GuardInv, [ExNext]_exVars
  PROVE  Inv' /\ AppInv' /\ PrioInv' /\ BusyInv' /\ GuardInv'
<1>1. QuantumCoversHop
  BY BusyCovers
<1>2. [Next]_vars
  BY ExStep
<1>3. Inv'
  BY <1>1, <1>2, InvNext
<1> QED BY <1>3, AppNext, PrioNext, BusyNext, GuardNext

(* Whatever the programs do with their semaphore, mutex or queue, the       *)
(* kernel and the timer, they do it by steps of the kernel, no tick ends a  *)
(* quantum on the way to the scheduler, and none pushes on the ring of a    *)
(* push it interrupts: what is proved of TimelySpec holds for them, with    *)
(* the timer signal.                                                        *)
THEOREM ProgramsAreTimely ==
  ASSUME Configured
  PROVE  ExSpec => TimelySpec
<1> DEFINE I == Inv /\ AppInv /\ PrioInv /\ BusyInv /\ GuardInv
<1>1. ExInit => I /\ Init
  BY ExInvInit DEF ExInit
<1>2. I /\ [ExNext]_exVars => I' /\ [Next]_vars
  BY ExInvNext, ExStep
<1>3. I => QuantumCoversHop /\ PushApart
  BY BusyCovers, PrioApart
<1>4. "create" \notin Services
  BY ExamplesAssumption
<1> HIDE DEF I
<1> QED BY <1>1, <1>2, <1>3, <1>4, PTL DEF ExSpec, TimelySpec, Spec

(* sem_basic and mutex_basic keep their tasks apart, and so does every      *)
(* program whose tasks, any number of them, enter the guarded part of their *)
(* code with the one token of a semaphore, or with a mutex, and leave it by *)
(* giving it back: with every order of blocking, hand-over and ticks.       *)
THEOREM TasksKeptApart ==
  ASSUME Configured
  PROVE  ExSpec => []OneAtATime
<1> DEFINE I == Inv /\ AppInv /\ PrioInv /\ BusyInv /\ GuardInv
<1>1. ExInit => I
  BY ExInvInit
<1>2. I /\ [ExNext]_exVars => I'
  BY ExInvNext
<1>3. I => OneAtATime
  <2> SUFFICES ASSUME I  PROVE OneAtATime
    OBVIOUS
  <2> DEFINE S == {t \in Created : ip[t] \in app.guarded}
  <2>1. \A t \in S : t \in Task /\ Has(t) /\ app.guarded # {}
    BY DEF Created, Has
  <2>2. ASSUME NEW t \in S, NEW u \in S  PROVE t = u
    <3>1. OneToken /\ Has(t) /\ Has(u) /\ t \in Task /\ u \in Task
      BY <2>1 DEF GuardInv
    <3>2. obj.kind \in {"mutex", "sem"}
      BY <2>1, GuardedApp
    <3> QED BY <3>1, <3>2 DEF OneToken
  <2>3. S = {} \/ \E t \in S : S = {t}
    BY <2>2
  <2>4. Cardinality(S) <= 1
    <3>1. CASE S = {}
      BY <3>1, FS_EmptySet
    <3>2. CASE \E t \in S : S = {t}
      BY <3>2, FS_Singleton
    <3> QED BY <2>3, <3>1, <3>2
  <2> QED BY <2>4 DEF OneAtATime
<1> HIDE DEF I
<1> QED BY <1>1, <1>2, <1>3, PTL DEF ExSpec
=============================================================================
