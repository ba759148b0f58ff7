--------------------------- MODULE ExampleObjects ---------------------------
(***************************************************************************)
(* The objects the programs share, as the modules of these objects         *)
(* describe them.                                                          *)
(***************************************************************************)
EXTENDS Examples

(* The modules Semaphore, Mutex and MsgQueue let any READY task execute     *)
(* next and take the kernel's word that no other does.  On this kernel,     *)
(* with the switches, the timer and the yields they leave out, the objects  *)
(* behave as those modules say.                                             *)
ObjState == [t \in Task |-> IF state[t] = "BLOCKED" THEN "BLOCKED" ELSE "READY"]
AllReady == [t \in Task |-> "READY"]
AllRun == [t \in Task |-> "run"]
Resumed == {t \in Task : state[t] # "BLOCKED" /\ at[t] = "wait"}

IsSem == app.object.kind = "sem"
IsMutex == app.object.kind = "mutex"
IsQueue == app.object.kind = "queue"

TheSemaphore ==
  INSTANCE Semaphore WITH
    Inits <- [init : 0 .. 5, max : 0 .. 5],
    count <- IF IsSem THEN obj.count ELSE 0,
    max_count <- IF IsSem THEN obj.cap ELSE 1,
    waiters <- IF IsSem THEN obj.rx ELSE <<>>,
    state <- IF IsSem THEN ObjState ELSE AllReady,
    at <- IF IsSem THEN at ELSE AllRun,
    credit <- IF IsSem THEN obj.count + Cardinality(Resumed) ELSE 0

UsesSemaphore == TheSemaphore!Spec

TheMutex ==
  INSTANCE Mutex WITH
    locked <- IsMutex /\ obj.owner # Free,
    owner <- IF IsMutex THEN obj.owner ELSE Free,
    waiters <- IF IsMutex THEN obj.rx ELSE <<>>,
    state <- IF IsMutex THEN ObjState ELSE AllReady,
    at <- IF IsMutex THEN at ELSE AllRun,
    g_error <- "NONE",
    holds <- {t \in Task : IsMutex /\ obj.owner = t /\ at[t] # "wait"}

UsesMutex == TheMutex!Spec

(* A task whose next instruction is a send or a receive has called it.      *)
QueueAt(t) ==
  IF ~ IsQueue \/ t \notin Created THEN "run"
  ELSE LET op == Code(t)[ip[t]].op
       IN  CASE op = "send" -> IF at[t] = "slow" THEN "sendSlow" ELSE "send"
             [] op = "recv" -> IF at[t] = "slow" THEN "recvSlow" ELSE "recv"
             [] OTHER -> "run"

TheQueue ==
  INSTANCE MsgQueue WITH
    capacity <- QueueCap,
    count <- IF IsQueue THEN obj.count ELSE 0,
    rx_q <- IF IsQueue THEN obj.rx ELSE <<>>,
    tx_q <- IF IsQueue THEN obj.tx ELSE <<>>,
    state <- IF IsQueue THEN ObjState ELSE AllReady,
    at <- [t \in Task |-> QueueAt(t)]

UsesQueue == TheQueue!Spec
=============================================================================
