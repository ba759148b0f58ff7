------------------------------ MODULE MsgQueue ------------------------------
(***************************************************************************)
(* hrt_queue_t and its operations (src/core/hardrt_queue.c), with the same *)
(* view of tasks as module Mutex: a critical section is one step, any      *)
(* READY task may be the next to execute, and the switch after a wake-up   *)
(* is no step of its own.  Only the number of the items matters here;      *)
(* module MsgBuffer adds the buffer that keeps their order.                *)
(*                                                                         *)
(*   run                 outside the operations (or before the critical    *)
(*                       section of a try form)                            *)
(*   send, recv          at the top of the loop of hrt_queue_send or       *)
(*                       hrt_queue_recv: called, or BLOCKED inside it, or  *)
(*                       woken and about to retry                          *)
(*   sendSlow, recvSlow  after its try_send or try_recv failed             *)
(***************************************************************************)
EXTENDS Integers, Sequences, FiniteSets

CONSTANTS
  MaxTasks,    (* HARDRT_MAX_TASKS                                          *)
  capacity     (* of the queue                                              *)

ASSUME MsgQueueAssumption == MaxTasks \in Nat /\ capacity \in Nat \ {0}

Task == 0 .. (MaxTasks - 1)

VARIABLES
  count, rx_q, tx_q,     (* hrt_queue_t: items, waiting receivers, senders  *)
  state, at              (* of each task                                    *)

queueVars == <<count, rx_q, tx_q>>
vars == <<queueVars, state, at>>

hrt_queue_init == count = 0 /\ rx_q = <<>> /\ tx_q = <<>>

Init ==
  /\ hrt_queue_init
  /\ state = [t \in Task |-> "READY"]
  /\ at = [t \in Task |-> "run"]

At(t, pc) == state[t] = "READY" /\ at[t] = pc

Goto(t, pc) == at' = [at EXCEPT ![t] = pc]

-----------------------------------------------------------------------------

_wq_push(q, id) == IF Len(q) >= MaxTasks THEN q ELSE Append(q, id)

(* hrt__make_ready of the first of q, if there is one.                      *)
MakeReady(q) ==
  state' = IF q = <<>> THEN state ELSE [state EXCEPT ![Head(q)] = "READY"]

(* Mistaken form of _wq_pop: the waiter is read and stays.                  *)
MutWqPopKeeps(q) == q

_wq_pop(q) == IF q = <<>> THEN q ELSE Tail(q)

(* Mistaken forms of Enqueued: the test for a full queue comes one too      *)
(* late; nobody is woken.                                                   *)
MutEnqueuedOverfull ==
  /\ count <= capacity
  /\ count' = count + 1
  /\ rx_q' = _wq_pop(rx_q)
  /\ MakeReady(rx_q)
  /\ UNCHANGED tx_q

MutEnqueuedSilent ==
  /\ count < capacity
  /\ count' = count + 1
  /\ UNCHANGED <<rx_q, tx_q, state>>

(* _enqueue_cs succeeds, and one waiting receiver is woken.                 *)
Enqueued ==
  /\ count < capacity
  /\ count' = count + 1
  /\ rx_q' = _wq_pop(rx_q)
  /\ MakeReady(rx_q)
  /\ UNCHANGED tx_q

(* Mistaken form of Dequeued: a sender is woken only when the queue was     *)
(* full.                                                                    *)
MutDequeuedFullOnly ==
  /\ count > 0
  /\ count' = count - 1
  /\ IF count = capacity
     THEN tx_q' = _wq_pop(tx_q) /\ MakeReady(tx_q)
     ELSE UNCHANGED <<tx_q, state>>
  /\ UNCHANGED rx_q

(* _dequeue_cs succeeds, and one waiting sender is woken.                   *)
Dequeued ==
  /\ count > 0
  /\ count' = count - 1
  /\ tx_q' = _wq_pop(tx_q)
  /\ MakeReady(tx_q)
  /\ UNCHANGED rx_q

Full == count >= capacity /\ UNCHANGED <<queueVars, state>>
Empty == count = 0 /\ UNCHANGED <<queueVars, state>>

hrt_queue_try_send(t) == At(t, "run") /\ (Enqueued \/ Full) /\ UNCHANGED at
hrt_queue_try_recv(t) == At(t, "run") /\ (Dequeued \/ Empty) /\ UNCHANGED at

hrt_queue_try_send_from_isr == (Enqueued \/ Full) /\ UNCHANGED at
hrt_queue_try_recv_from_isr == (Dequeued \/ Empty) /\ UNCHANGED at

-----------------------------------------------------------------------------
(* The blocking forms.                                                      *)

Call(t, pc) == At(t, "run") /\ Goto(t, pc) /\ UNCHANGED <<queueVars, state>>

hrt_queue_send(t) == Call(t, "send")
hrt_queue_recv(t) == Call(t, "recv")

SendTry(t) ==
  /\ At(t, "send")
  /\ \/ Enqueued /\ Goto(t, "run")
     \/ Full /\ Goto(t, "sendSlow")

ParkSender(t) ==
  /\ tx_q' = _wq_push(tx_q, t)
  /\ state' = [state EXCEPT ![t] = "BLOCKED"]
  /\ Goto(t, "send")
  /\ UNCHANGED <<count, rx_q>>

SendSlow(t) ==
  /\ At(t, "sendSlow")
  /\ \/ Enqueued /\ Goto(t, "run")
     \/ count >= capacity /\ ParkSender(t)

RecvTry(t) ==
  /\ At(t, "recv")
  /\ \/ Dequeued /\ Goto(t, "run")
     \/ Empty /\ Goto(t, "recvSlow")

ParkReceiver(t) ==
  /\ rx_q' = _wq_push(rx_q, t)
  /\ state' = [state EXCEPT ![t] = "BLOCKED"]
  /\ Goto(t, "recv")
  /\ UNCHANGED <<count, tx_q>>

(* Mistaken form of RecvSlow: it parks without looking again.               *)
MutRecvNoRecheck(t) == At(t, "recvSlow") /\ ParkReceiver(t)

RecvSlow(t) ==
  /\ At(t, "recvSlow")
  /\ \/ Dequeued /\ Goto(t, "run")
     \/ count = 0 /\ ParkReceiver(t)

-----------------------------------------------------------------------------

Next ==
  \/ hrt_queue_try_send_from_isr \/ hrt_queue_try_recv_from_isr
  \/ \E t \in Task :
       \/ hrt_queue_try_send(t) \/ hrt_queue_try_recv(t)
       \/ hrt_queue_send(t) \/ SendTry(t) \/ SendSlow(t)
       \/ hrt_queue_recv(t) \/ RecvTry(t) \/ RecvSlow(t)

Spec == Init /\ [][Next]_vars

(* A task that has the processor goes on.                                   *)
FairSpec ==
  /\ Spec
  /\ \A t \in Task :
       WF_vars(SendTry(t) \/ SendSlow(t) \/ RecvTry(t) \/ RecvSlow(t))

-----------------------------------------------------------------------------
(* Properties.                                                              *)

Parked(t) == state[t] = "BLOCKED"

(* Tasks about to try to take an item, or to add one.                       *)
Receiving == {t \in Task : At(t, "recv")}
Sending == {t \in Task : At(t, "send")}

(* Type correctness: the fields of the queue and of the tasks keep their    *)
(* ranges.                                                                  *)
TypeOK ==
  /\ count \in 0 .. capacity
  /\ rx_q \in Seq(Task) /\ tx_q \in Seq(Task)
  /\ Len(rx_q) <= MaxTasks /\ Len(tx_q) <= MaxTasks
  /\ state \in [Task -> {"READY", "BLOCKED"}]
  /\ at \in [Task -> {"run", "send", "sendSlow", "recv", "recvSlow"}]

(* No receiver is stranded beside an item: while receivers are parked there *)
(* are not more items than receivers already awake to take them, whoever    *)
(* took the item a woken receiver was meant to have.                        *)
NoStrandedReceiver == rx_q # <<>> => count <= Cardinality(Receiving)

(* No sender is stranded beside a free place.                               *)
NoStrandedSender == tx_q # <<>> => capacity - count <= Cardinality(Sending)

HoldsParked(q, pc) ==
  /\ \A i \in 1 .. Len(q) :
       /\ Parked(q[i]) /\ at[q[i]] = pc
       /\ \A j \in 1 .. Len(q) : q[i] = q[j] => i = j
  /\ \A t \in Task : Parked(t) /\ at[t] = pc => \E i \in 1 .. Len(q) : q[i] = t

(* Each waiter queue holds the tasks parked on its side, each once, so      *)
(* hrt__make_ready is called for BLOCKED tasks only.                        *)
WaitersParked ==
  /\ HoldsParked(rx_q, "recv")
  /\ HoldsParked(tx_q, "send")
  /\ \A t \in Task : Parked(t) => at[t] \in {"send", "recv"}

(* Receivers and senders never all wait for each other: with receivers and  *)
(* senders parked, somebody is about to move an item.                       *)
NoMutualWait == rx_q # <<>> /\ tx_q # <<>> => Receiving \cup Sending # {}

(* A parked receiver and an item do not stay together: the receiver leaves  *)
(* the waiter queue or the queue runs empty.                                *)
ReceiverServed == (rx_q # <<>> /\ count > 0) ~> (rx_q = <<>> \/ count = 0)
=============================================================================
