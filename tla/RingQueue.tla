------------------------------ MODULE RingQueue ------------------------------
(***************************************************************************)
(* One ring as a state machine: rq_push / rq_pop of the core and the       *)
(* _waitq_push / _waitq_pop, _wq_push / _wq_pop and _enqueue_cs /          *)
(* _dequeue_cs pairs of the primitives are copies of the same two          *)
(* operations.                                                             *)
(***************************************************************************)
EXTENDS Ring

CONSTANT None

ASSUME NoneAssumption == None \notin Elem

VARIABLES
  ring,     (* the queue structure                                          *)
  result    (* what the last pop returned: an entry, or None for -1         *)

ringVars == <<ring, result>>

RingInit == ring \in EmptyRings /\ result = None

Push(x) ==
  /\ ring' = RingPush(ring, x)
  /\ UNCHANGED result

Pop ==
  /\ result' = IF ring.count = 0 THEN None ELSE RingFront(ring)
  /\ ring' = RingPop(ring)

RingNext == Pop \/ \E x \in Elem : Push(x)

RingSpec == RingInit /\ [][RingNext]_ringVars

-----------------------------------------------------------------------------

(* The structure stays well formed, and its redundant fields agree: the     *)
(* code never recomputes `count' from `head' and `tail', it updates the     *)
(* three separately in rq_push and rq_pop.                                  *)
RingInv ==
  /\ ring \in RingType
  /\ result \in Elem \cup {None}
  /\ ring.tail = Slot(ring, ring.count + 1)

Fifo == INSTANCE BoundedFifo WITH items <- Contents(ring)

(* Every ring operation of the code behaves as the first-in first-out queue *)
(* of at most N entries its callers rely on: entries come out in the order  *)
(* in which they went in, none is lost, duplicated or invented while the    *)
(* indices wrap, and only a push onto a full ring is dropped.               *)
ImplementsFifo == Fifo!Spec
=============================================================================
