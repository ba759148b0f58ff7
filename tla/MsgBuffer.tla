------------------------------ MODULE MsgBuffer ------------------------------
(***************************************************************************)
(* hrt_queue_t with its item buffer: the operations of module MsgQueue on  *)
(* the ring of module RingQueue.  `count' of MsgQueue and the field of the *)
(* ring are the same q->count; the buffer decides by its own.              *)
(***************************************************************************)
EXTENDS MsgQueue, RingQueue

ASSUME BufferAssumption == N = capacity

bufferVars == <<vars, ringVars>>

BufferInit == Init /\ RingInit

(* _enqueue_cs and _dequeue_cs are called in a critical section, and test   *)
(* themselves whether there is a place or an item.                          *)
_enqueue_cs == \E x \in Elem : Push(x)
_dequeue_cs == Pop

TrySends ==
  /\ \/ hrt_queue_try_send_from_isr
     \/ \E t \in Task : hrt_queue_try_send(t) \/ SendTry(t)
  /\ _enqueue_cs

TryRecvs ==
  /\ \/ hrt_queue_try_recv_from_isr
     \/ \E t \in Task : hrt_queue_try_recv(t) \/ RecvTry(t)
  /\ _dequeue_cs

(* The re-checks of the blocking forms call them only when they succeed.    *)
SlowSends ==
  /\ \E t \in Task : SendSlow(t)
  /\ IF count < capacity THEN _enqueue_cs ELSE UNCHANGED ringVars

SlowRecvs ==
  /\ \E t \in Task : RecvSlow(t)
  /\ IF count > 0 THEN _dequeue_cs ELSE UNCHANGED ringVars

Calls ==
  /\ \E t \in Task : hrt_queue_send(t) \/ hrt_queue_recv(t)
  /\ UNCHANGED ringVars

BufferNext == TrySends \/ TryRecvs \/ SlowSends \/ SlowRecvs \/ Calls

(* With the fairness of MsgQueue.                                           *)
BufferSpec ==
  /\ BufferInit /\ [][BufferNext]_bufferVars
  /\ \A t \in Task :
       WF_bufferVars(\/ SendTry(t) /\ _enqueue_cs
                     \/ RecvTry(t) /\ _dequeue_cs
                     \/ SlowSends /\ SendSlow(t)
                     \/ SlowRecvs /\ RecvSlow(t))

(* The operations and the buffer never disagree on the number of items: no  *)
(* item is dropped that hrt_queue_send or a try form has reported as sent,  *)
(* and none is received that was not there.                                 *)
BufferAgrees == ring.count = count
=============================================================================
