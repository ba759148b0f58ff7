-------------------------------- MODULE Ring --------------------------------
(***************************************************************************)
(* The circular buffer HardRT uses everywhere it keeps an order: a ready   *)
(* queue of the core, the waiter queue of a semaphore, of a mutex and the  *)
(* two waiter queues and the item buffer of a message queue.  All of them  *)
(* are the same three fields beside an array of N slots: the index `head'  *)
(* of the oldest entry, the index `tail' of the next free slot, and the    *)
(* number `count' of entries.                                              *)
(***************************************************************************)
EXTENDS Integers, Sequences

CONSTANTS
  N,       (* number of slots: HARDRT_MAX_TASKS, or a queue's capacity      *)
  Elem     (* what a slot holds: task ids, or items                         *)

ASSUME RingAssumption == N \in Nat \ {0}

Index == 0 .. (N - 1)

RingType == [q : [Index -> Elem], head : Index, tail : Index, count : 0 .. N]

(* Neither the memset of hrt_init nor hrt_sem_init_counting makes the       *)
(* contents of the slots meaningful: only the three counters start at 0.    *)
EmptyRings ==
  { [q |-> c, head |-> 0, tail |-> 0, count |-> 0] : c \in [Index -> Elem] }

(* Mistaken form of RingPush: the test for a full ring comes one too late.  *)
MutPushFull(r, x) ==
  IF r.count > N
  THEN r
  ELSE [q     |-> [r.q EXCEPT ![r.tail] = x],
        head  |-> r.head,
        tail  |-> (r.tail + 1) % N,
        count |-> r.count + 1]

(* A full ring drops the entry; the ready queue also reports an error.      *)
RingPush(r, x) ==
  IF r.count >= N
  THEN r
  ELSE [q     |-> [r.q EXCEPT ![r.tail] = x],
        head  |-> r.head,
        tail  |-> (r.tail + 1) % N,
        count |-> r.count + 1]

(* The entry a pop returns, when there is one.                              *)
RingFront(r) == r.q[r.head]

(* Mistaken form of RingPop: the newest entry is given up, not the oldest.  *)
MutPopNewest(r) ==
  IF r.count = 0
  THEN r
  ELSE [q |-> r.q, head |-> r.head,
        tail |-> (r.tail + N - 1) % N, count |-> r.count - 1]

RingPop(r) ==
  IF r.count = 0
  THEN r
  ELSE [q |-> r.q, head |-> (r.head + 1) % N,
        tail |-> r.tail, count |-> r.count - 1]

(* The entries from the oldest to the newest, and the slot of the i-th.     *)
Slot(r, i) == (r.head + i - 1) % N

Contents(r) == [i \in 1 .. r.count |-> r.q[Slot(r, i)]]
=============================================================================
