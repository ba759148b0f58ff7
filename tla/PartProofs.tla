----------------------------- MODULE PartProofs -----------------------------
(***************************************************************************)
(* Theorems about the parts of the kernel that stand alone.  The ring is a *)
(* bounded first-in first-out queue, for every size N and every set of     *)
(* entries.  How long a sleep lasts in real time and how far hrt_now_ms is *)
(* behind it, for every rate of the timer, every width of the counter and  *)
(* every argument of hrt_sleep whose ticks are less than half its range.   *)
(* No lost wake-up and no lost or invented token in hrt_sem_t, for any     *)
(* number of tasks and any arguments of hrt_sem_init_counting.             *)
(***************************************************************************)
EXTENDS RingQueue, Clock, Semaphore, QueueProofs

-----------------------------------------------------------------------------
(* The ring.                                                                *)

(* The indices wrap as the uint8_t expressions of the code do: N is         *)
(* subtracted at most once.                                                 *)
LEMMA NoWrap ==
  ASSUME NEW n \in Nat \ {0}, NEW i \in 0 .. (n - 1)
  PROVE  i % n = i
  OBVIOUS

(* An index that ran past the end once is reduced by the size of the ring.  *)
LEMMA WrapOnce ==
  ASSUME NEW n \in Nat \ {0}, NEW i \in n .. (2 * n - 1)
  PROVE  i % n = i - n
  OBVIOUS

(* The next index, as rq_push and rq_pop compute it.                        *)
LEMMA Successor ==
  ASSUME NEW n \in Nat \ {0}, NEW i \in 0 .. (n - 1)
  PROVE  (i + 1) % n = IF i + 1 < n THEN i + 1 ELSE 0
  OBVIOUS

(* The ranges of the fields of a ring.                                      *)
LEMMA RingFields ==
  ASSUME NEW r \in RingType
  PROVE  /\ N \in Nat \ {0}
         /\ r.head \in 0 .. (N - 1)
         /\ r.tail \in 0 .. (N - 1)
         /\ r.count \in 0 .. N
  BY RingAssumption DEF RingType, Index

(* Where the i-th entry is.  i = N + 1 is the free slot behind a full ring. *)
LEMMA SlotPosition ==
  ASSUME NEW r \in RingType, NEW i \in 1 .. (N + 1)
  PROVE  /\ Slot(r, i) = IF r.head + i - 1 < N THEN r.head + i - 1
                                              ELSE r.head + i - 1 - N
         /\ Slot(r, i) \in Index
<1> DEFINE k == r.head + i - 1
<1>1. N \in Nat \ {0} /\ r.head \in 0 .. (N - 1) /\ k \in 0 .. (2 * N - 1)
  BY RingFields
<1>2. CASE k < N
  <2>1. k % N = k
    BY <1>1, <1>2, NoWrap
  <2> QED
    BY <1>1, <1>2, <2>1 DEF Slot, Index
<1>3. CASE k >= N
  <2>1. k % N = k - N
    BY <1>1, <1>3, WrapOnce
  <2> QED
    BY <1>1, <1>3, <2>1 DEF Slot, Index
<1> QED
  BY <1>1, <1>2, <1>3

(* The entries between head and tail form a sequence of count elements.     *)
LEMMA ContentsIsSeq ==
  ASSUME NEW r \in RingType
  PROVE  /\ Contents(r) \in Seq(Elem)
         /\ Len(Contents(r)) = r.count
         /\ \A i \in 1 .. r.count : Contents(r)[i] = r.q[Slot(r, i)]
<1>1. ASSUME NEW i \in 1 .. r.count
      PROVE  r.q[Slot(r, i)] \in Elem
  <2>1. Slot(r, i) \in Index
    BY SlotPosition, RingAssumption DEF RingType
  <2> QED
    BY <2>1 DEF RingType
<1> QED
  BY <1>1 DEF Contents, RingType

(* The redundant index: tail is the slot behind the newest entry.           *)
TailAgrees(r) == r.tail = Slot(r, r.count + 1)

(* What a push does to the contents: the new entry is last, or dropped when *)
(* the ring is full.                                                        *)
LEMMA PushContents ==
  ASSUME NEW r \in RingType, NEW x \in Elem, TailAgrees(r)
  PROVE  /\ RingPush(r, x) \in RingType
         /\ TailAgrees(RingPush(r, x))
         /\ Contents(RingPush(r, x)) =
              IF r.count < N THEN Append(Contents(r), x) ELSE Contents(r)
<1>1. CASE r.count >= N
  <2>1. RingPush(r, x) = r
    BY <1>1 DEF RingPush
  <2>2. ~ (r.count < N)
    BY <1>1, RingAssumption DEF RingType
  <2> QED
    BY <2>1, <2>2
<1>2. CASE r.count < N
  <2> DEFINE s == RingPush(r, x)
  <2>1. /\ s = [q |-> [r.q EXCEPT ![r.tail] = x], head |-> r.head,
                tail |-> (r.tail + 1) % N, count |-> r.count + 1]
        /\ s.q = [r.q EXCEPT ![r.tail] = x]
        /\ s.head = r.head
        /\ s.tail = (r.tail + 1) % N
        /\ s.count = r.count + 1
    BY <1>2, RingAssumption DEF RingPush, RingType
  <2>2. s \in RingType
    BY <1>2, <2>1, RingAssumption DEF RingType, Index
  <2> HIDE DEF s
  <2>3. TailAgrees(s)
    <3>1. r.count + 2 \in 1 .. (N + 1) /\ r.count + 1 \in 1 .. (N + 1)
      BY <1>2, RingFields
    <3>2. Slot(s, r.count + 2) = IF r.head + r.count + 1 < N
                                 THEN r.head + r.count + 1
                                 ELSE r.head + r.count + 1 - N
      BY <2>1, <2>2, <3>1, SlotPosition, RingFields
    <3>3. r.tail = IF r.head + r.count < N THEN r.head + r.count
                                           ELSE r.head + r.count - N
      BY <3>1, SlotPosition, RingFields DEF TailAgrees
    <3>4. s.tail = IF r.tail + 1 < N THEN r.tail + 1 ELSE 0
      BY <2>1, RingFields, Successor
    <3>5. s.tail = Slot(s, r.count + 2)
      BY <1>2, <3>2, <3>3, <3>4, RingFields
    <3>6. s.count + 1 = r.count + 2
      BY <2>1, RingFields
    <3> QED
      BY <3>5, <3>6 DEF TailAgrees
  <2>4. Contents(s) \in Seq(Elem) /\ Len(Contents(s)) = r.count + 1
    BY <2>1, <2>2, ContentsIsSeq
  <2>5. /\ Append(Contents(r), x) \in Seq(Elem)
        /\ Len(Append(Contents(r), x)) = r.count + 1
    BY ContentsIsSeq
  <2>6. ASSUME NEW i \in 1 .. (r.count + 1)
        PROVE  Contents(s)[i] = Append(Contents(r), x)[i]
    <3>1. Contents(s)[i] = s.q[Slot(r, i)]
      BY <2>1, <2>2, ContentsIsSeq DEF Slot
    <3>2. CASE i = r.count + 1
      <4>1. Slot(r, i) = r.tail
        BY <3>2 DEF TailAgrees
      <4>2. s.q[r.tail] = x
        BY <2>1 DEF RingType
      <4> QED
        BY <3>1, <3>2, <4>1, <4>2, ContentsIsSeq
    <3>3. CASE i \in 1 .. r.count
      <4>1. Slot(r, i) # r.tail /\ Slot(r, i) \in Index
        <5>1. i \in 1 .. (N + 1) /\ r.count + 1 \in 1 .. (N + 1)
          BY <1>2, <3>3, RingFields
        <5>2. /\ Slot(r, i) = IF r.head + i - 1 < N THEN r.head + i - 1
                                                    ELSE r.head + i - 1 - N
              /\ Slot(r, i) \in Index
          BY <5>1, SlotPosition
        <5>3. r.tail = IF r.head + r.count < N THEN r.head + r.count
                                               ELSE r.head + r.count - N
          BY <5>1, SlotPosition, RingFields DEF TailAgrees
        <5> QED
          BY <1>2, <3>3, <5>2, <5>3, RingFields
      <4>2. s.q[Slot(r, i)] = r.q[Slot(r, i)]
        BY <2>1, <4>1 DEF RingType
      <4> QED
        BY <3>1, <3>3, <4>2, ContentsIsSeq
    <3>4. i = r.count + 1 \/ i \in 1 .. r.count
      BY RingFields
    <3> QED
      BY <3>2, <3>3, <3>4
  <2>7. Contents(s) = Append(Contents(r), x)
    BY <2>4, <2>5, <2>6
  <2> QED
    BY <1>2, <2>2, <2>3, <2>7 DEF s
<1> QED
  BY <1>1, <1>2, RingAssumption DEF RingType

(* What a pop does to the contents: the oldest entry is the one returned,   *)
(* and the others keep their order.                                         *)
LEMMA PopContents ==
  ASSUME NEW r \in RingType, TailAgrees(r)
  PROVE  /\ RingPop(r) \in RingType
         /\ TailAgrees(RingPop(r))
         /\ r.count = 0 => RingPop(r) = r /\ Contents(r) = <<>>
         /\ r.count # 0 => /\ Contents(r) # <<>>
                           /\ RingFront(r) = Head(Contents(r))
                           /\ RingFront(r) \in Elem
                           /\ Contents(RingPop(r)) = Tail(Contents(r))
<1>1. CASE r.count = 0
  <2>1. RingPop(r) = r
    BY <1>1 DEF RingPop
  <2>2. Contents(r) = <<>>
    BY <1>1, ContentsIsSeq
  <2> QED
    BY <1>1, <2>1, <2>2
<1>2. CASE r.count # 0
  <2> DEFINE s == RingPop(r)
  <2>1. /\ s = [q |-> r.q, head |-> (r.head + 1) % N,
                tail |-> r.tail, count |-> r.count - 1]
        /\ s.q = r.q
        /\ s.head = (r.head + 1) % N
        /\ s.tail = r.tail
        /\ s.count = r.count - 1
    BY <1>2 DEF RingPop
  <2>2. s \in RingType
    BY <1>2, <2>1, RingAssumption DEF RingType, Index
  <2> HIDE DEF s
  <2>3. s.head = IF r.head + 1 < N THEN r.head + 1 ELSE 0
    BY <2>1, RingFields, Successor
  <2>4. ASSUME NEW i \in 1 .. N
        PROVE  Slot(s, i) = Slot(r, i + 1)
    <3>1. i \in 1 .. (N + 1) /\ i + 1 \in 1 .. (N + 1)
      BY RingFields
    <3>2. Slot(s, i) = IF s.head + i - 1 < N THEN s.head + i - 1
                                             ELSE s.head + i - 1 - N
      BY <2>2, <3>1, SlotPosition
    <3>3. Slot(r, i + 1) = IF r.head + (i + 1) - 1 < N
                           THEN r.head + (i + 1) - 1
                           ELSE r.head + (i + 1) - 1 - N
      BY <3>1, SlotPosition
    <3> QED
      BY <2>3, <3>2, <3>3, RingFields
  <2>5. TailAgrees(s)
    <3>1. r.count \in 1 .. N /\ s.count + 1 = r.count
      BY <1>2, <2>1, RingFields
    <3>2. Slot(s, r.count) = Slot(r, r.count + 1)
      BY <2>4, <3>1
    <3> QED
      BY <2>1, <3>1, <3>2 DEF TailAgrees
  <2>6. Contents(r) # <<>> /\ RingFront(r) = Head(Contents(r))
    <3>1. Slot(r, 1) = r.head
      BY RingAssumption, SlotPosition DEF RingType, Index
    <3> QED
      BY <1>2, <3>1, ContentsIsSeq DEF RingFront, RingType
  <2>7. RingFront(r) \in Elem
    BY DEF RingFront, RingType
  <2>8. Contents(s) \in Seq(Elem) /\ Len(Contents(s)) = r.count - 1
    BY <2>1, <2>2, ContentsIsSeq
  <2>9. Tail(Contents(r)) \in Seq(Elem) /\ Len(Tail(Contents(r))) = r.count - 1
    BY <1>2, <2>6, ContentsIsSeq DEF RingType
  <2>10. ASSUME NEW i \in 1 .. (r.count - 1)
         PROVE  Contents(s)[i] = Tail(Contents(r))[i]
    <3>1. Contents(s)[i] = r.q[Slot(s, i)]
      BY <2>1, <2>2, ContentsIsSeq
    <3>2. Tail(Contents(r))[i] = r.q[Slot(r, i + 1)]
      BY <1>2, <2>6, ContentsIsSeq DEF RingType
    <3>3. i \in 1 .. N
      BY RingFields
    <3> QED
      BY <2>4, <3>1, <3>2, <3>3
  <2>11. Contents(s) = Tail(Contents(r))
    BY <2>8, <2>9, <2>10
  <2> QED
    BY <1>2, <2>2, <2>5, <2>6, <2>7, <2>11 DEF s
<1> QED
  BY <1>1, <1>2

(* The three fields of every ring of the code agree forever (RingInv).      *)
THEOREM RingInvariant == RingSpec => []RingInv
<1>1. RingInit => RingInv
  <2> SUFFICES ASSUME RingInit
               PROVE  RingInv
    OBVIOUS
  <2>1. ring \in RingType /\ ring.head = 0 /\ ring.tail = 0 /\ ring.count = 0
    BY RingAssumption DEF RingInit, EmptyRings, RingType, Index
  <2>2. Slot(ring, 1) = 0
    BY <2>1, SlotPosition, RingAssumption
  <2> QED
    BY <2>1, <2>2 DEF RingInit, RingInv
<1>2. RingInv /\ [RingNext]_ringVars => RingInv'
  <2> SUFFICES ASSUME RingInv, [RingNext]_ringVars
               PROVE  RingInv'
    OBVIOUS
  <2>1. CASE Pop
    BY <2>1, PopContents DEF Pop, RingInv, TailAgrees
  <2>2. ASSUME NEW x \in Elem, Push(x)
        PROVE  RingInv'
    BY <2>2, PushContents DEF Push, RingInv, TailAgrees
  <2>3. CASE UNCHANGED ringVars
    BY <2>3 DEF ringVars, RingInv
  <2> QED
    BY <2>1, <2>2, <2>3 DEF RingNext
<1> QED
  BY <1>1, <1>2, PTL DEF RingSpec

(* Every ring of the code, of whatever size, implements the bounded FIFO    *)
(* queue its callers rely on (rq_push and rq_pop of the ready queues, the   *)
(* waiter queues, the item buffer of a message queue).                      *)
THEOREM RingImplementsFifo == RingSpec => ImplementsFifo
<1>1. RingInit => Fifo!Init
  <2> SUFFICES ASSUME RingInit
               PROVE  Fifo!Init
    OBVIOUS
  <2>1. ring \in RingType /\ ring.count = 0
    BY RingAssumption DEF RingInit, EmptyRings, RingType, Index
  <2>2. Contents(ring) = <<>>
    BY <2>1, ContentsIsSeq
  <2> QED
    BY <2>2 DEF RingInit, Fifo!Init
<1>2. RingInv /\ [RingNext]_ringVars => [Fifo!Next]_(Fifo!vars)
  <2> SUFFICES ASSUME RingInv, [RingNext]_ringVars
               PROVE  [Fifo!Next]_(Fifo!vars)
    OBVIOUS
  <2>1. CASE Pop
    <3>1. CASE ring.count = 0
      BY <2>1, <3>1, PopContents DEF Pop, RingInv, TailAgrees, Fifo!Next, Fifo!Pop
    <3>2. CASE ring.count # 0
      BY <2>1, <3>2, PopContents DEF Pop, RingInv, TailAgrees, Fifo!Next, Fifo!Pop
    <3> QED
      BY <3>1, <3>2
  <2>2. ASSUME NEW x \in Elem, Push(x)
        PROVE  Fifo!Push(x)
    BY <2>2, PushContents, ContentsIsSeq
    DEF Push, RingInv, TailAgrees, Fifo!Push
  <2>3. CASE UNCHANGED ringVars
    BY <2>3 DEF ringVars, Fifo!vars
  <2> QED
    BY <2>1, <2>2, <2>3 DEF RingNext, Fifo!Next
<1> QED
  BY <1>1, <1>2, RingInvariant, PTL DEF RingSpec, ImplementsFifo, Fifo!Spec

-----------------------------------------------------------------------------
(* The clock.                                                               *)

(* A quotient is at most, and its successor above, the dividend.            *)
LEMMA Quotient ==
  ASSUME NEW a \in Nat, NEW b \in Nat \ {0}
  PROVE  /\ a \div b \in Nat
         /\ (a \div b) * b <= a
         /\ a < ((a \div b) + 1) * b
OBVIOUS

(* hrt__ms_to_ticks: at least one tick; not less than ms and, but for       *)
(* ms = 0, less than one tick more, unless it saturates.                    *)
LEMMA MsToTicks ==
  ASSUME NEW m \in Nat, NEW hz \in Nat \ {0}, NEW word \in Nat \ {0, 1}
  PROVE  /\ hrt__ms_to_ticks(m, hz, word) \in Nat \ {0}
         /\ 1000 * hrt__ms_to_ticks(m, hz, word) <= m * hz + 1000
         /\ hrt__ms_to_ticks(m, hz, word) < word - 1 =>
              m * hz <= 1000 * hrt__ms_to_ticks(m, hz, word)
<1> DEFINE a == m * hz
<1>1. a \in Nat /\ (m > 0 => a > 0)
  OBVIOUS
<1>2. (m = 0) => a = 0
  OBVIOUS
<1> HIDE DEF a
<1> DEFINE q == (a + 999) \div 1000
<1>3. q \in Nat /\ q * 1000 <= a + 999 /\ a + 999 < (q + 1) * 1000
  BY <1>1
<1> HIDE DEF q
<1>4. hrt__ms_to_ticks(m, hz, word) = IF m = 0 THEN 1 ELSE Least(q, word - 1)
  BY DEF hrt__ms_to_ticks, q, a
<1>5. CASE m = 0
  BY <1>2, <1>4, <1>5 DEF a
<1>6. CASE m # 0
  <2>1. q > 0 /\ Least(q, word - 1) \in Nat /\ Least(q, word - 1) > 0
        /\ Least(q, word - 1) <= q
        /\ (Least(q, word - 1) < word - 1 => Least(q, word - 1) = q)
    BY <1>1, <1>3, <1>6 DEF Least
  <2>2. hrt__ms_to_ticks(m, hz, word) = Least(q, word - 1)
    BY <1>4, <1>6
  <2> HIDE DEF a
  <2> DEFINE n == hrt__ms_to_ticks(m, hz, word)
  <2>3. n \in Nat /\ n > 0 /\ n <= q /\ (n < word - 1 => n = q)
    BY <2>1, <2>2
  <2> HIDE DEF n
  <2>4. 1000 * n <= a + 1000 /\ (n < word - 1 => a <= 1000 * n)
    BY <1>1, <1>3, <2>3
  <2> QED BY <2>3, <2>4 DEF n, a
<1> QED BY <1>5, <1>6

-----------------------------------------------------------------------------
(* Modular arithmetic of the wrapping counter: a deadline k ticks ahead is  *)
(* found k ticks ahead by the difference of hrt__tick_isr.                  *)
LEMMA Ahead ==
  ASSUME NEW M \in Nat \ {0}, NEW g \in 0 .. (M - 1), NEW k \in Nat, k < M
  PROVE  (((g + k) % M) - g) % M = k
<1>1. CASE g + k < M
  <2>1. (g + k) % M = g + k
    BY <1>1
  <2>2. (g + k) - g = k /\ k % M = k
    OBVIOUS
  <2> QED BY <2>1, <2>2
<1>2. CASE g + k >= M
  <2>1. (g + k) % M = g + k - M
    BY <1>2
  <2>2. (g + k - M) - g = k - M /\ (k - M) % M = k
    OBVIOUS
  <2> QED BY <2>1, <2>2
<1> QED BY <1>1, <1>2

(* The next tick finds it one tick nearer, whether or not it wraps.         *)
LEMMA Nearer ==
  ASSUME NEW M \in Nat \ {0}, NEW g \in 0 .. (M - 1), NEW k \in Nat \ {0}, k < M
  PROVE  /\ (g + 1) % M \in 0 .. (M - 1)
         /\ (g + k) % M = (((g + 1) % M) + (k - 1)) % M
<1>1. CASE g + 1 < M
  <2>1. (g + 1) % M = g + 1
    BY <1>1
  <2>2. (g + 1) + (k - 1) = g + k
    OBVIOUS
  <2> QED BY <1>1, <2>1, <2>2
<1>2. CASE g + 1 = M
  <2>1. (g + 1) % M = 0 /\ (k - 1) % M = k - 1
    BY <1>2
  <2>2. (g + k) % M = k - 1
    BY <1>2
  <2> QED BY <2>1, <2>2
<1> QED BY <1>1, <1>2

(* The period of either timer is at least one unit and, unless the core     *)
(* clock is below the rate, not longer than was asked for.                  *)
LEMMA PeriodBounds ==
  ASSUME timer \in Timers
  PROVE  /\ timer.clock \in Nat \ {0} /\ timer.hz \in Nat \ {0}
         /\ period \in Nat \ {0}
         /\ timer.hz <= timer.clock => period * timer.hz <= timer.clock
         /\ ~ Clamped => timer.clock <= (period + 1) * timer.hz
<1>1. timer.clock \in Nat \ {0} /\ timer.hz \in Nat \ {0}
      /\ timer.kind \in {"systick", "sigalrm"} /\ ReloadMax \in Nat \ {0}
  BY ClockAssumption
<1> DEFINE q == timer.clock \div timer.hz
<1>2. q \in Nat /\ q * timer.hz <= timer.clock /\ timer.clock < (q + 1) * timer.hz
  BY <1>1, Quotient
<1>3. timer.hz <= timer.clock => q > 0
  BY <1>1, <1>2
<1> HIDE DEF q
<1>4. CASE timer.kind = "systick"
  <2>1. period = Least(Largest(q, 1), ReloadMax)
    BY <1>4 DEF period, systick_period, q
  <2>2. period \in Nat \ {0} /\ (q > 0 => period <= q)
    BY <1>1, <1>2, <2>1 DEF Least, Largest
  <2> HIDE DEF period
  <2>3. q > 0 => period * timer.hz <= q * timer.hz
    BY <1>1, <1>2, <2>2
  <2>4. ~ Clamped => q + 1 <= period + 1
    <3>1. ~ Clamped => q <= ReloadMax
      BY <1>1, <1>2, <1>4 DEF Clamped, q
    <3> QED BY <1>1, <1>2, <2>1, <3>1 DEF Least, Largest
  <2>5. ~ Clamped => (q + 1) * timer.hz <= (period + 1) * timer.hz
    BY <1>1, <1>2, <2>2, <2>4
  <2> QED BY <1>1, <1>2, <1>3, <2>2, <2>3, <2>5
<1>5. CASE timer.kind = "sigalrm"
  <2>1. period = q
    BY <1>5 DEF period, itimer_period, q
  <2>2. timer.hz <= timer.clock
    BY <1>5, TimerStarts
  <2> QED BY <1>1, <1>2, <1>3, <2>1, <2>2
<1> QED BY <1>1, <1>4, <1>5

-----------------------------------------------------------------------------
(* MsToTicks for the timer at hand.                                         *)
LEMMA TicksBounds ==
  ASSUME timer \in Timers, NEW m \in Nat
  PROVE  /\ Ticks(m) \in Nat \ {0}
         /\ 1000 * Ticks(m) <= m * timer.hz + 1000
         /\ Ticks(m) < Word - 1 => m * timer.hz <= 1000 * Ticks(m)
<1>1. timer.hz \in Nat \ {0} /\ Word \in Nat \ {0, 1}
  BY ClockAssumption
<1> DEFINE h == timer.hz
<1>2. Ticks(m) = hrt__ms_to_ticks(m, h, Word)
  BY DEF Ticks
<1>3. h \in Nat \ {0}
  BY <1>1
<1> HIDE DEF h
<1>4. /\ hrt__ms_to_ticks(m, h, Word) \in Nat \ {0}
      /\ 1000 * hrt__ms_to_ticks(m, h, Word) <= m * h + 1000
      /\ hrt__ms_to_ticks(m, h, Word) < Word - 1 =>
           m * h <= 1000 * hrt__ms_to_ticks(m, h, Word)
  BY <1>1, <1>3, MsToTicks
<1> QED BY <1>2, <1>4 DEF h

(* A tick ends the sleep exactly if one tick was left.                      *)
LEMMA DueAtLast ==
  ASSUME ClockInv, task_state = "SLEEP", NEW next, next = (g_tick + 1) % Word
  PROVE  /\ next \in 0 .. (Word - 1)
         /\ wake_tick = (next + (left - 1)) % Word
         /\ Due(next) <=> left = 1
<1>1. /\ Word \in Nat \ {0} /\ g_tick \in 0 .. (Word - 1) /\ left \in Nat \ {0}
      /\ 2 * left < Word /\ wake_tick = (g_tick + left) % Word
  <2>1. ms \in Nat /\ timer \in Timers
    BY DEF ClockInv
  <2>2. Ticks(ms) \in Nat
    BY <2>1, TicksBounds
  <2> QED BY <2>2, ClockAssumption DEF ClockInv
<1>2. left < Word /\ left - 1 < Word /\ left - 1 \in Nat /\ 2 * (left - 1) < Word
  BY <1>1
<1>3. next \in 0 .. (Word - 1) /\ wake_tick = (next + (left - 1)) % Word
  BY <1>1, <1>2, Nearer
<1>4. (wake_tick - next) % Word = left - 1
  BY <1>1, <1>2, <1>3, Ahead
<1>5. Due(next) <=> left - 1 = 0
  BY <1>1, <1>2, <1>4 DEF Due
<1> QED BY <1>1, <1>3, <1>5

(* What a sleep that ends has lasted: more than one tick less than its      *)
(* ticks, and not more than them.                                           *)
LEMMA Lasts ==
  ASSUME NEW n \in Nat, NEW p \in Nat \ {0}, NEW s \in Nat, NEW f \in Nat,
         n > 0, f + 1 = p,
         s <= (n - 1) * p + f, (n - 1) * p + f < s + p
  PROVE  s + 1 <= n * p /\ n * p < s + 1 + p
<1>1. (n - 1) * p + p = n * p
  OBVIOUS
<1> DEFINE x == n * p
           y == (n - 1) * p
<1>2. x \in Nat /\ y \in Nat /\ y + p = x
  BY <1>1
<1> HIDE DEF x, y
<1>3. s <= y + f /\ y + f < s + p
  BY DEF y
<1>4. s + 1 <= x /\ x < s + 1 + p
  BY <1>2, <1>3
<1> QED BY <1>4 DEF x

LEMMA ClockInvInit == ClockInit => ClockInv
<1> SUFFICES ASSUME ClockInit PROVE ClockInv
  OBVIOUS
<1>1. timer \in Timers /\ Word \in Nat \ {0}
  BY ClockAssumption DEF ClockInit
<1>2. period \in Nat \ {0}
  BY <1>1, PeriodBounds
<1>3. 0 \in 0 .. (period - 1) /\ 0 \in 0 .. (Word - 1)
  BY <1>1, <1>2
<1> QED BY <1>1, <1>3 DEF ClockInit, ClockInv

(* Every step keeps the invariant, one case per action; the step that ends  *)
(* a sleep is a tick, with one tick left.                                   *)
LEMMA ClockInvNext ==
  ASSUME ClockInv, [ClockNext]_clockVars
  PROVE  /\ ClockInv'
         /\ task_state = "SLEEP" /\ task_state' = "READY" =>
              /\ left = 1
              /\ phase + 1 = period
<1>1. /\ timer \in Timers /\ phase \in 0 .. (period - 1)
      /\ g_tick \in 0 .. (Word - 1) /\ task_state \in {"READY", "SLEEP"}
      /\ ms \in Nat /\ slept \in Nat /\ left \in Nat
      /\ Word \in Nat \ {0} /\ Sleeps \subseteq Nat
  BY ClockAssumption DEF ClockInv
<1>2. /\ timer.hz \in Nat \ {0} /\ period \in Nat \ {0}
  BY <1>1, PeriodBounds
<1>3. CASE hrt_sleep
  <2>1. PICK m \in Sleeps : /\ 2 * Ticks(m) < Word
                            /\ ms' = m
                            /\ wake_tick' = (g_tick + Ticks(m)) % Word
                            /\ left' = Ticks(m)
    BY <1>3 DEF hrt_sleep
  <2>2. /\ task_state' = "SLEEP" /\ slept' = 0 /\ task_state = "READY"
        /\ UNCHANGED <<timer, phase, g_tick>>
    BY <1>3 DEF hrt_sleep
  <2>3. Ticks(m) \in Nat \ {0}
    BY <1>1, TicksBounds
  <2>4. period' = period /\ Ticks(ms)' = Ticks(m)
    BY <2>1, <2>2 DEF period, Ticks
  <2>5. (Ticks(m) - Ticks(m)) * period = 0
    BY <1>2, <2>3
  <2>6. left' \in Nat /\ left' > 0 /\ left' <= Ticks(ms)' /\ 2 * Ticks(ms)' < Word
    BY <2>1, <2>3, <2>4
  <2>7. /\ slept' <= (Ticks(ms)' - left') * period' + phase'
        /\ (Ticks(ms)' - left') * period' + phase' < slept' + period'
    BY <1>1, <1>2, <2>1, <2>2, <2>4, <2>5
  <2>8. wake_tick' = (g_tick' + left') % Word
    BY <2>1, <2>2
  <2> QED BY <1>1, <2>1, <2>2, <2>4, <2>6, <2>7, <2>8 DEF ClockInv
<1>4. CASE Count
  <2>1. /\ phase' = phase + 1 /\ phase + 1 < period
        /\ UNCHANGED <<g_tick, task_state, left, timer, ms, wake_tick>>
        /\ slept' = IF task_state = "SLEEP" THEN slept + 1 ELSE 0
    BY <1>4 DEF Count, Elapse
  <2>2. period' = period /\ Ticks(ms)' = Ticks(ms)
    BY <2>1 DEF period, Ticks
  <2>3. CASE task_state = "READY"
    BY <1>1, <1>2, <2>1, <2>2, <2>3 DEF ClockInv
  <2>4. CASE task_state = "SLEEP"
    <3> DEFINE x == (Ticks(ms) - left) * period
    <3>1. x \in Int /\ slept <= x + phase /\ x + phase < slept + period
          /\ left > 0 /\ left <= Ticks(ms) /\ 2 * Ticks(ms) < Word
          /\ wake_tick = (g_tick + left) % Word
      <4>1. Ticks(ms) \in Nat
        BY <1>1, TicksBounds
      <4> QED BY <1>1, <1>2, <2>4, <4>1 DEF ClockInv
    <3>2. x' = x
      BY <2>1, <2>2
    <3> HIDE DEF x
    <3>3. slept' = slept + 1 /\ slept' <= x' + phase' /\ x' + phase' < slept' + period'
      BY <1>1, <1>2, <2>1, <2>2, <2>4, <3>1, <3>2
    <3>4. phase' \in 0 .. (period' - 1)
      BY <1>1, <1>2, <2>1, <2>2
    <3> QED BY <1>1, <2>1, <2>2, <3>1, <3>3, <3>4 DEF ClockInv, x
  <2> QED BY <1>1, <2>3, <2>4
<1>5. CASE Tick
  <2> DEFINE next == (g_tick + 1) % Word
  <2>1. /\ phase' = 0 /\ phase + 1 = period /\ g_tick' = next
        /\ UNCHANGED <<timer, ms, wake_tick>>
        /\ task_state' = IF task_state = "SLEEP" /\ Due(next) THEN "READY" ELSE task_state
        /\ left' = IF task_state = "SLEEP" THEN left - 1 ELSE left
        /\ slept' = IF task_state' = "SLEEP" THEN slept + 1 ELSE 0
    BY <1>5 DEF Tick, Elapse
  <2>2. period' = period /\ Ticks(ms)' = Ticks(ms)
    BY <2>1 DEF period, Ticks
  <2>3. next \in 0 .. (Word - 1) /\ 0 \in 0 .. (period - 1)
    BY <1>1, <1>2, Nearer
  <2> HIDE DEF next
  <2>4. CASE task_state = "READY"
    BY <1>1, <2>1, <2>2, <2>3, <2>4 DEF ClockInv
  <2>5. CASE task_state = "SLEEP"
    <3>1. /\ wake_tick = (next + (left - 1)) % Word
          /\ Due(next) <=> left = 1
      BY <2>5, DueAtLast DEF next
    <3>2. left > 0 /\ left <= Ticks(ms) /\ 2 * Ticks(ms) < Word
      BY <2>5 DEF ClockInv
    <3>3. CASE left = 1
      BY <1>1, <2>1, <2>2, <2>3, <2>5, <3>1, <3>3 DEF ClockInv
    <3>4. CASE left > 1
      <4>1. task_state' = "SLEEP" /\ left' = left - 1 /\ slept' = slept + 1
        BY <1>1, <2>1, <2>5, <3>1, <3>4
      <4>2. Ticks(ms) \in Nat
        BY <1>1, TicksBounds
      <4> DEFINE x == (Ticks(ms) - left) * period
                 y == (Ticks(ms) - (left - 1)) * period
      <4>3. y = x + period /\ x \in Int
        BY <1>1, <1>2, <4>2
      <4>4. slept <= x + phase /\ x + phase < slept + period
        BY <2>5 DEF ClockInv
      <4> HIDE DEF x, y
      <4>5. slept' <= y + 0 /\ y + 0 < slept' + period
        BY <1>1, <1>2, <2>1, <4>1, <4>3, <4>4
      <4>6. /\ slept' <= (Ticks(ms)' - left') * period' + phase'
            /\ (Ticks(ms)' - left') * period' + phase' < slept' + period'
        BY <2>1, <2>2, <4>1, <4>5 DEF y
      <4>7. /\ left' \in Nat /\ left' > 0 /\ left' <= Ticks(ms)' /\ 2 * Ticks(ms)' < Word
            /\ wake_tick' = (g_tick' + left') % Word /\ slept' \in Nat
        BY <1>1, <2>1, <2>2, <3>1, <3>2, <3>4, <4>1, <4>2
      <4> QED BY <1>1, <2>1, <2>2, <2>3, <4>1, <4>6, <4>7 DEF ClockInv
    <3> QED BY <1>1, <3>2, <3>3, <3>4
  <2> QED BY <1>1, <2>4, <2>5
<1>6. CASE UNCHANGED clockVars
  <2>1. UNCHANGED <<timer, phase, g_tick, task_state, wake_tick, ms, slept, left>>
    BY <1>6 DEF clockVars
  <2>2. period' = period /\ Ticks(ms)' = Ticks(ms)
    BY <2>1 DEF period, Ticks
  <2> QED BY <2>1, <2>2 DEF ClockInv
<1> QED BY <1>3, <1>4, <1>5, <1>6 DEF ClockNext

(* The window of a sleep, as SleepWindow states it of a step.               *)
LEMMA WindowStep ==
  ASSUME ClockInv, [ClockNext]_clockVars, task_state = "SLEEP", task_state' = "READY"
  PROVE  /\ timer.hz <= timer.clock =>
              1000 * timer.hz * (slept + 1) <= (ms * timer.hz + 1000) * timer.clock
         /\ ~ Clamped =>
              1000 * (slept + 1 + period + Truncation) > ms * timer.clock
<1> DEFINE n == Ticks(ms)
           hz == timer.hz
           clock == timer.clock
<1>1. left = 1 /\ phase + 1 = period
  BY ClockInvNext
<1>2. /\ timer \in Timers /\ phase \in Nat /\ ms \in Nat /\ slept \in Nat
      /\ 2 * n < Word /\ left <= n
      /\ slept <= (n - left) * period + phase
      /\ (n - left) * period + phase < slept + period
  <2>1. timer \in Timers
    BY DEF ClockInv
  <2>2. period \in Nat \ {0}
    BY <2>1, PeriodBounds
  <2> QED BY <2>2 DEF ClockInv
<1>3. /\ clock \in Nat \ {0} /\ hz \in Nat \ {0} /\ period \in Nat \ {0}
      /\ hz <= clock => period * hz <= clock
      /\ ~ Clamped => clock <= (period + 1) * hz
  BY <1>2, PeriodBounds
<1>4. n \in Nat \ {0} /\ 1000 * n <= ms * hz + 1000
      /\ (n < Word - 1 => ms * hz <= 1000 * n)
  BY <1>2, TicksBounds
<1>5. slept + 1 <= n * period /\ n * period < slept + 1 + period
  BY <1>1, <1>2, <1>3, <1>4, Lasts
<1>6. n < Word - 1
  BY <1>2, <1>4, ClockAssumption
<1> HIDE DEF n, hz, clock
<1>7. hz <= clock => 1000 * hz * (slept + 1) <= (ms * hz + 1000) * clock
  <2> SUFFICES ASSUME hz <= clock
               PROVE  1000 * hz * (slept + 1) <= (ms * hz + 1000) * clock
    OBVIOUS
  <2>1. hz * (slept + 1) <= hz * (n * period)
    BY <1>2, <1>3, <1>4, <1>5
  <2>2. hz * (n * period) = n * (period * hz)
    BY <1>3, <1>4
  <2>3. n * (period * hz) <= n * clock
    BY <1>3, <1>4
  <2>4. hz * (slept + 1) <= n * clock
    BY <1>2, <1>3, <1>4, <2>1, <2>2, <2>3
  <2>5. 1000 * (hz * (slept + 1)) <= 1000 * (n * clock)
    BY <1>2, <1>3, <1>4, <2>4
  <2>6. 1000 * (n * clock) = (1000 * n) * clock
    BY <1>3, <1>4
  <2>7. (1000 * n) * clock <= (ms * hz + 1000) * clock
    BY <1>2, <1>3, <1>4
  <2>8. 1000 * (hz * (slept + 1)) = 1000 * hz * (slept + 1)
    BY <1>2, <1>3
  <2> QED BY <1>2, <1>3, <1>4, <2>5, <2>6, <2>7, <2>8
<1>8. Exact => 1000 * (slept + 1 + period) > ms * clock
  <2> SUFFICES ASSUME period * hz = clock
               PROVE  1000 * (slept + 1 + period) > ms * clock
    BY DEF Exact, hz, clock
  <2>1. ms * clock = (ms * hz) * period
    BY <1>2, <1>3
  <2>2. (ms * hz) * period <= (1000 * n) * period
    BY <1>2, <1>3, <1>4, <1>6
  <2>3. (1000 * n) * period = 1000 * (n * period)
    BY <1>3, <1>4
  <2>4. 1000 * (n * period) < 1000 * (slept + 1 + period)
    BY <1>2, <1>3, <1>4, <1>5
  <2> QED BY <1>2, <1>3, <1>4, <2>1, <2>2, <2>3, <2>4
<1>9. ~ Clamped => 1000 * (slept + 1 + period + n) > ms * clock
  <2> SUFFICES ASSUME clock <= (period + 1) * hz
               PROVE  1000 * (slept + 1 + period + n) > ms * clock
    BY <1>3
  <2> DEFINE p == period + 1
  <2>0. p \in Nat /\ clock <= p * hz
    BY <1>3
  <2>1. n * p = n * period + n
    BY <1>3, <1>4
  <2> HIDE DEF p
  <2>2. ms * clock <= ms * (p * hz)
    BY <1>2, <1>3, <2>0
  <2>3. ms * (p * hz) = (ms * hz) * p
    BY <1>2, <1>3, <2>0
  <2>4. (ms * hz) * p <= (1000 * n) * p
    BY <1>2, <1>3, <1>4, <1>6, <2>0
  <2>5. (1000 * n) * p = 1000 * (n * p)
    BY <1>4, <2>0
  <2>6. 1000 * (n * p) < 1000 * (slept + 1 + period + n)
    BY <1>2, <1>3, <1>4, <1>5, <2>1
  <2> QED BY <1>2, <1>3, <1>4, <2>0, <2>2, <2>3, <2>4, <2>5, <2>6
<1>10. Truncation = IF Exact THEN 0 ELSE n
  BY DEF Truncation, n
<1>11. ~ Clamped => 1000 * (slept + 1 + period + Truncation) > ms * clock
  <2>1. CASE Exact
    BY <1>2, <1>3, <1>8, <1>10, <2>1
  <2>2. CASE ~ Exact
    BY <1>9, <1>10, <2>2
  <2> QED BY <2>1, <2>2
<1> QED BY <1>7, <1>11 DEF hz, clock

(* On either port, whatever the rate, a sleep of ms milliseconds ends no    *)
(* later than one tick after ms and, unless the reload register clamps the  *)
(* period, no earlier than one tick and one unit for each truncated period  *)
(* before (hrt_sleep, hrt__tick_isr and hrt_port_start_systick together,    *)
(* across the wrap of the tick counter).                                    *)
THEOREM SleepsInWindow == ClockSpec => SleepWindow
<1>1. ClockInit => ClockInv
  BY ClockInvInit
<1>2. ClockInv /\ [ClockNext]_clockVars => ClockInv'
  BY ClockInvNext
<1>3. ClockInv /\ [ClockNext]_clockVars =>
        [task_state = "SLEEP" /\ task_state' = "READY" =>
           /\ timer.hz <= timer.clock =>
                1000 * timer.hz * (slept + 1) <= (ms * timer.hz + 1000) * timer.clock
           /\ ~ Clamped =>
                1000 * (slept + 1 + period + Truncation) > ms * timer.clock]_clockVars
  BY WindowStep
<1> QED BY <1>1, <1>2, <1>3, PTL DEF ClockSpec, SleepWindow

-----------------------------------------------------------------------------
(* The tick counter against real time.  First, remainders.                  *)

LEMMA DivMod ==
  ASSUME NEW x \in Int, NEW m \in Nat \ {0}
  PROVE  /\ x \div m \in Int /\ x % m \in 0 .. (m - 1)
         /\ x = (x \div m) * m + (x % m)
OBVIOUS

(* The only multiple of m between -m and m is zero.                         *)
LEMMA SmallMultiple ==
  ASSUME NEW m \in Nat \ {0}, NEW d \in Int, d * m < m, -m < d * m
  PROVE  d = 0
<1>1. d >= 1 => d * m >= m
  OBVIOUS
<1>2. d <= -1 => d * m <= -m
  OBVIOUS
<1> QED BY <1>1, <1>2

LEMMA ModUnique ==
  ASSUME NEW m \in Nat \ {0}, NEW k \in Int, NEW r \in 0 .. (m - 1), NEW x \in Int,
         x = k * m + r
  PROVE  x % m = r
<1> DEFINE q == x \div m
           s == x % m
<1>1. q \in Int /\ s \in 0 .. (m - 1) /\ x = q * m + s
  BY DivMod
<1> HIDE DEF q, s
<1>2. (q - k) * m = q * m - k * m
  BY <1>1
<1>3. (q - k) * m = r - s
  BY <1>1, <1>2
<1>4. (q - k) * m < m /\ -m < (q - k) * m
  BY <1>1, <1>3
<1>5. q - k = 0
  BY <1>1, <1>4, SmallMultiple
<1>6. s = r
  BY <1>1, <1>3, <1>5
<1> QED BY <1>6 DEF s

(* Adding a multiple of m changes no remainder.                             *)
LEMMA ModShift ==
  ASSUME NEW m \in Nat \ {0}, NEW k \in Int, NEW x \in Int
  PROVE  (k * m + x) % m = x % m
<1> DEFINE q == x \div m
           s == x % m
           y == k * m + x
<1>1. q \in Int /\ s \in 0 .. (m - 1) /\ x = q * m + s
  BY DivMod
<1> HIDE DEF q, s
<1>2. k * m + q * m = (k + q) * m
  BY <1>1
<1>3. y = (k + q) * m + s /\ k + q \in Int /\ y \in Int
  BY <1>1, <1>2
<1> HIDE DEF y
<1>4. y % m = s
  BY <1>1, <1>3, ModUnique
<1> QED BY <1>4 DEF s, y

(* Reducing one summand first changes no remainder either.                  *)
LEMMA ModAdd ==
  ASSUME NEW m \in Nat \ {0}, NEW x \in Int, NEW y \in Int
  PROVE  ((x % m) + y) % m = (x + y) % m
<1> DEFINE q == x \div m
           s == x % m
           v == s + y
<1>1. q \in Int /\ s \in Int /\ x = q * m + s
  BY DivMod
<1> HIDE DEF q, s
<1>2. x + y = q * m + v /\ v \in Int
  BY <1>1
<1> HIDE DEF v
<1>3. q \in Int /\ v \in Int
  BY <1>1, <1>2
<1>4. (q * m + v) % m = v % m
  BY <1>3, ModShift, Zenon
<1>5. (x + y) % m = v % m
  BY <1>2, <1>4, Zenon
<1> QED BY <1>5 DEF s, v

(* A remainder is not larger than the number.                               *)
LEMMA ModLeq ==
  ASSUME NEW m \in Nat \ {0}, NEW x \in Nat
  PROVE  x % m <= x
<1> DEFINE q == x \div m
           s == x % m
<1>1. q \in Int /\ s \in 0 .. (m - 1) /\ x = q * m + s
  BY DivMod
<1>2. q \in Nat
  BY Quotient
<1> HIDE DEF q, s
<1>3. q * m >= 0
  BY <1>2
<1>4. s <= x
  BY <1>1, <1>3
<1> QED BY <1>4 DEF s

(* Named, so that a proof can use the equations without their arithmetic: a *)
(* timer with period p runs at the rate hz; r is the time of g ticks and f  *)
(* units; now is r in milliseconds, up to a tick and a millisecond.         *)
AtRate(p, hz, clock) == p * hz = clock
IsTime(r, g, f, p, clock, W) == r = (1000 * (g * p + f)) % (W * clock)
Follows(now, r, p, clock, W) == (r - now * clock) % (W * clock) < 1000 * p + clock

(* The tick that wraps the counter of an exact timer comes a multiple of    *)
(* Word milliseconds after the start, if the rate divides 1000.             *)
LEMMA WrapIsWhole ==
  ASSUME NEW W \in Nat \ {0}, NEW p \in Nat \ {0}, NEW hz \in Nat \ {0},
         NEW clock \in Nat \ {0}, AtRate(p, hz, clock), 1000 % hz = 0
  PROVE  IsTime(0, W, 0, p, clock, W)
<1> DEFINE k == 1000 \div hz
<1>1. k \in Int /\ 1000 = k * hz + (1000 % hz)
  BY DivMod
<1> HIDE DEF k
<1>2. 1000 = k * hz
  BY <1>1
<1>3. 1000 * (W * p) = (k * hz) * (W * p)
  BY <1>2
<1>4. (k * hz) * (W * p) = k * (W * (p * hz))
  BY <1>1
<1> DEFINE m == W * clock
           x == 1000 * (W * p + 0)
<1>5. x = k * m + 0 /\ m \in Nat \ {0} /\ x \in Int
  BY <1>1, <1>3, <1>4 DEF AtRate
<1> HIDE DEF m, x
<1>6. 0 \in 0 .. (m - 1)
  BY <1>5
<1>7. x % m = 0
  BY <1>1, <1>5, <1>6, ModUnique
<1> QED BY <1>7 DEF m, x, IsTime

LEMMA CountsTimeInit == ClockInit => CountsTime
<1> SUFFICES ASSUME ClockInit PROVE CountsTime
  OBVIOUS
<1>1. timer.clock \in Nat \ {0} /\ period \in Nat \ {0} /\ Word \in Nat \ {0}
  BY PeriodBounds, ClockAssumption DEF ClockInit
<1> DEFINE m == Word * timer.clock
           x == 1000 * (g_tick * period + phase)
<1>2. m \in Nat \ {0} /\ x = 0 /\ real = 0
  BY <1>1 DEF ClockInit
<1> HIDE DEF m, x
<1>3. 0 % m = 0
  BY <1>2
<1> QED BY <1>2, <1>3 DEF CountsTime, m, x

(* Every step keeps it: a unit of time is one more in phase, or a tick, and *)
(* the tick that wraps g_tick loses a multiple of the modulus.              *)
LEMMA CountsTimeNext ==
  ASSUME ClockInv, CountsTime, [ClockNext]_clockVars
  PROVE  CountsTime'
<1>1. /\ timer \in Timers /\ phase \in 0 .. (period - 1) /\ g_tick \in 0 .. (Word - 1)
      /\ Word \in Nat \ {0, 1}
  BY ClockAssumption DEF ClockInv
<1>2. timer.hz \in Nat \ {0} /\ timer.clock \in Nat \ {0} /\ period \in Nat \ {0}
  BY <1>1, PeriodBounds
<1> DEFINE m == Word * timer.clock
           x == 1000 * (g_tick * period + phase)
<1>3. m \in Nat \ {0} /\ x \in Int
  BY <1>1, <1>2
<1>4. CASE hrt_sleep \/ UNCHANGED clockVars
  <2>1. UNCHANGED <<timer, phase, g_tick, real, wrapped>>
    BY <1>4 DEF hrt_sleep, clockVars
  <2> QED BY <2>1 DEF CountsTime, Exact, period
<1>5. CASE Count \/ Tick
  <2> SUFFICES ASSUME Exact', (1000 % timer.hz = 0 \/ ~ wrapped)'
               PROVE  real' = x' % m'
    BY DEF CountsTime
  <2>1. /\ real' = (real + 1000) % m /\ timer' = timer
        /\ wrapped => wrapped'
    <3>1. Elapse /\ (wrapped' = wrapped \/ wrapped' = (wrapped \/ g_tick' = 0))
      BY <1>5, Zenon DEF Count, Tick
    <3>2. wrapped => wrapped'
      BY <3>1
    <3> QED BY <3>1, <3>2, Zenon DEF Elapse
  <2>2. period' = period /\ m' = m
    BY <2>1 DEF period
  <2>3. real = x % m /\ period * timer.hz = timer.clock
    BY <2>1, <2>2 DEF CountsTime, Exact
  <2>4. real' = (x + 1000) % m
    <3> HIDE DEF m, x
    <3>1. ((x % m) + 1000) % m = (x + 1000) % m
      <4>1. \A y \in Int : ((x % m) + y) % m = (x + y) % m
        BY <1>3, ModAdd, Zenon
      <4> QED BY <4>1
    <3> QED BY <2>1, <2>3, <3>1
  <2> DEFINE gp == g_tick * period
  <2>5. gp \in Nat /\ (g_tick + 1) * period = gp + period
    BY <1>1, <1>2
  <2>6. CASE Count
    <3>1. phase' = phase + 1 /\ g_tick' = g_tick
      BY <2>6 DEF Count
    <3>2. x' = 1000 * (gp + (phase + 1)) /\ x = 1000 * (gp + phase)
      BY <2>2, <3>1
    <3> HIDE DEF gp, x
    <3>3. x' = x + 1000
      BY <1>1, <2>5, <3>2
    <3> QED BY <2>2, <2>4, <3>3
  <2>7. CASE Tick
    <3>1. phase' = 0 /\ phase + 1 = period /\ g_tick' = (g_tick + 1) % Word
          /\ (g_tick' = 0 => wrapped')
      BY <2>7 DEF Tick
    <3>2. x = 1000 * (gp + phase)
      OBVIOUS
    <3>3. CASE g_tick + 1 < Word
      <4>1. g_tick' = g_tick + 1
        BY <1>1, <3>1, <3>3
      <4>2. x' = 1000 * (gp + period)
        BY <1>2, <2>2, <2>5, <3>1, <4>1
      <4> HIDE DEF gp, x
      <4>3. x' = x + 1000
        BY <1>1, <1>2, <2>5, <3>1, <3>2, <4>2
      <4> QED BY <2>2, <2>4, <4>3
    <3>4. CASE g_tick + 1 = Word
      <4>1. g_tick' = 0
        BY <1>1, <3>1, <3>4
      <4>2. 1000 % timer.hz = 0
        BY <2>1, <3>1, <4>1
      <4>3. x' = 0
        BY <1>2, <2>2, <3>1, <4>1
      <4>4. x + 1000 = 1000 * (Word * period + 0)
        <5> DEFINE wp == Word * period
        <5>1. wp = gp + period /\ wp \in Int
          BY <1>1, <1>2, <2>5, <3>4
        <5> HIDE DEF gp, x, wp
        <5>2. x + 1000 = 1000 * (wp + 0)
          BY <1>1, <1>2, <2>5, <3>1, <3>2, <5>1
        <5> QED BY <5>2 DEF wp
      <4>5. IsTime(0, Word, 0, period, timer.clock, Word)
        <5>1. AtRate(period, timer.hz, timer.clock) /\ Word \in Nat \ {0}
          BY <1>1, <2>3 DEF AtRate
        <5> QED BY <1>2, <4>2, <5>1, WrapIsWhole
      <4>6. 0 = (x + 1000) % m
        <5> DEFINE z == 1000 * (Word * period + 0)
        <5>1. 0 = z % (Word * timer.clock)
          BY <4>5, Zenon DEF IsTime
        <5> HIDE DEF z
        <5>2. x + 1000 = z
          BY <4>4 DEF z
        <5>3. z % m = 0
          BY <5>1, Zenon
        <5> HIDE DEF x, m
        <5>4. (x + 1000) % m = z % m
          BY <5>2, Zenon
        <5> QED BY <5>3, <5>4, Zenon
      <4> HIDE DEF m, x
      <4>7. 0 % m = 0
        BY <1>3
      <4> QED BY <2>2, <2>4, <4>3, <4>6, <4>7
    <3> QED BY <1>1, <3>3, <3>4
  <2> QED BY <1>5, <2>6, <2>7
<1> QED BY <1>4, <1>5 DEF ClockNext

(* What hrt_now_ms reports of g ticks of an exact timer, when t units of    *)
(* the tick in progress have passed.                                        *)
LEMMA NowBehind ==
  ASSUME NEW W \in Nat \ {0}, NEW p \in Nat \ {0}, NEW hz \in Nat \ {0},
         NEW clock \in Nat \ {0}, AtRate(p, hz, clock),
         NEW g \in Nat, NEW f \in 0 .. (p - 1), NEW r, IsTime(r, g, f, p, clock, W)
  PROVE  Follows(hrt_now_ms(g, hz, W), r, p, clock, W)
<1>0. clock \in Nat \ {0} /\ p * hz = clock
  BY DEF AtRate
<1> DEFINE q == (g * 1000) \div hz
           m == W * clock
           x == 1000 * (g * p + f)
           now == q % W
           c == now * clock
           y == x - q * clock
<1>1. g * 1000 \in Nat
  OBVIOUS
<1>2. q \in Nat /\ q * hz <= g * 1000 /\ g * 1000 < (q + 1) * hz
  BY <1>1, Quotient
<1>3. hrt_now_ms(g, hz, W) = now
  BY DEF hrt_now_ms
<1> HIDE DEF q
<1>4. m \in Nat \ {0} /\ x \in Nat
  BY <1>0
<1>5. (q * hz) * p <= (g * 1000) * p /\ (g * 1000) * p < ((q + 1) * hz) * p
  BY <1>1, <1>2
<1>6. /\ (q * hz) * p = q * clock
      /\ ((q + 1) * hz) * p = q * clock + clock
      /\ (g * 1000) * p = 1000 * (g * p)
  BY <1>0, <1>2
<1>7. y \in Nat /\ y < 1000 * p + clock
  <2> DEFINE a == q * clock
             b == g * p
  <2>1. a \in Nat /\ b \in Nat /\ y = 1000 * (b + f) - a
    BY <1>0, <1>2
  <2>2. a <= 1000 * b /\ 1000 * b < a + clock
    BY <1>5, <1>6
  <2> HIDE DEF a, b, y
  <2> QED BY <1>0, <2>1, <2>2
<1>8. ((x % m) - c) % m = (x - c) % m /\ c \in Int
  <2>1. now \in Int
    <3>1. q \in Int
      BY <1>2
    <3> QED BY <3>1, DivMod
  <2>2. c \in Int
    BY <1>0, <2>1
  <2> HIDE DEF m, x, c
  <2>3. ((x % m) + (-c)) % m = (x + (-c)) % m
    <3>1. -c \in Int /\ x \in Int /\ m \in Nat \ {0}
      BY <1>4, <2>2
    <3> QED BY <3>1, ModAdd, Zenon
  <2>4. x % m \in Int
    BY <1>4, DivMod
  <2> QED BY <1>4, <2>2, <2>3, <2>4
<1>9. (x - c) % m = y % m
  <2> DEFINE k == q \div W
  <2>1. k \in Int /\ now \in Int /\ q = k * W + now
    <3>1. q \in Int
      BY <1>2
    <3>2. \A a \in Int : a \div W \in Int /\ a % W \in Int /\ a = (a \div W) * W + (a % W)
      OBVIOUS
    <3> QED BY <3>1, <3>2, Zenon
  <2> HIDE DEF k, now
  <2>2. q * clock = (k * W + now) * clock
    BY <2>1
  <2>3. (k * W + now) * clock = k * (W * clock) + now * clock
    BY <1>0, <2>1
  <2>4. x - c = k * m + y
    <3> DEFINE km == k * m
               qc == q * clock
    <3>1. qc = km + c /\ km \in Int /\ c \in Int /\ qc \in Int
      BY <1>0, <1>2, <2>1, <2>2, <2>3
    <3>2. y = x - qc
      OBVIOUS
    <3> HIDE DEF km, qc, c, y, x
    <3>3. x - c = km + y
      BY <1>4, <3>1, <3>2
    <3> QED BY <3>3 DEF km
  <2> HIDE DEF m, x, c, y
  <2>5. y \in Int /\ k \in Int /\ m \in Nat \ {0}
    BY <1>4, <1>7, <2>1
  <2>6. (k * m + y) % m = y % m
    BY <2>5, ModShift, Zenon
  <2> QED BY <2>4, <2>6, Zenon
<1>10. y % m < 1000 * p + clock
  <2> HIDE DEF m, y
  <2>1. y \in Nat /\ m \in Nat \ {0}
    BY <1>4, <1>7
  <2>2. y % m <= y
    BY <2>1, ModLeq, Zenon
  <2>3. y % m \in Int
    BY <2>1
  <2> QED BY <1>0, <1>7, <2>2, <2>3
<1>11. r = x % m
  BY DEF IsTime
<1> HIDE DEF x, y, now
<1>12. (r - c) % m < 1000 * p + clock
  BY <1>8, <1>9, <1>10, <1>11
<1> QED BY <1>3, <1>12, Zenon DEF m, c, Follows

(* hrt_now_ms follows real time to within a tick and a millisecond for      *)
(* every exact rate, up to the wrap of the tick counter and, if the rate    *)
(* divides 1000, beyond it.                                                 *)
THEOREM NowFollowsTime == ClockSpec => []NowIsTime
<1>1. ASSUME ClockInv, CountsTime  PROVE NowIsTime
  <2> SUFFICES ASSUME Exact, 1000 % timer.hz = 0 \/ ~ wrapped
               PROVE  (real - hrt_now_ms(g_tick, timer.hz, Word) * timer.clock)
                        % (Word * timer.clock) < 1000 * period + timer.clock
    BY DEF NowIsTime
  <2>1. /\ timer \in Timers /\ phase \in 0 .. (period - 1) /\ g_tick \in Nat
        /\ Word \in Nat \ {0}
    BY <1>1, ClockAssumption DEF ClockInv
  <2>2. /\ timer.hz \in Nat \ {0} /\ timer.clock \in Nat \ {0} /\ period \in Nat \ {0}
        /\ period * timer.hz = timer.clock
    BY <2>1, PeriodBounds DEF Exact
  <2>3. /\ AtRate(period, timer.hz, timer.clock)
        /\ IsTime(real, g_tick, phase, period, timer.clock, Word)
    BY <1>1, <2>2, Zenon DEF CountsTime, AtRate, IsTime
  <2>4. Follows(hrt_now_ms(g_tick, timer.hz, Word), real, period, timer.clock, Word)
    <3>1. timer.hz \in Nat \ {0} /\ timer.clock \in Nat \ {0} /\ period \in Nat \ {0}
      BY <2>2
    <3> QED BY <2>1, <2>3, <3>1, NowBehind
  <2> QED BY <2>4, Zenon DEF Follows
<1>2. ClockInit => ClockInv /\ CountsTime
  BY ClockInvInit, CountsTimeInit
<1>3. ClockInv /\ CountsTime /\ [ClockNext]_clockVars => ClockInv' /\ CountsTime'
  BY ClockInvNext, CountsTimeNext
<1> QED BY <1>1, <1>2, <1>3, PTL DEF ClockSpec

-----------------------------------------------------------------------------
(* The semaphore.                                                           *)

Blocked == {t \in Task : state[t] = "BLOCKED"}

(* The inductive invariant: the properties of the semaphore together.       *)
SemInv ==
  /\ TypeOK
  /\ NoWaiterBesideToken
  /\ TokensConserved
  /\ WaitersBlocked

(* WaitersBlocked, in terms of the lemmas on waiter queues.                 *)
LEMMA WaitersEachOnce ==
  ASSUME waiters \in Seq(Task)
  PROVE  WaitersBlocked <=> /\ EachOnce(waiters, Blocked)
                            /\ \A t \in Blocked : at[t] = "wait"
<1>1. \A i \in 1 .. Len(waiters) : waiters[i] \in Task
  OBVIOUS
<1> QED BY <1>1 DEF WaitersBlocked, EachOnce, Blocked

(* The same of the next state.                                              *)
LEMMA WaitersEachOnceNext ==
  ASSUME waiters' \in Seq(Task), EachOnce(waiters', Blocked'),
         \A t \in Blocked' : at'[t] = "wait"
  PROVE  WaitersBlocked'
<1>1. \A i \in 1 .. Len(waiters') : waiters'[i] \in Task
  OBVIOUS
<1> QED BY <1>1 DEF WaitersBlocked, EachOnce, Blocked

(* The number of tasks that were given a token and have not resumed.        *)
LEMMA HandedCount ==
  ASSUME NEW t \in Task
  PROVE  /\ Cardinality(Handed) \in Nat
         /\ t \notin Handed => Cardinality(Handed \cup {t}) = Cardinality(Handed) + 1
         /\ t \in Handed => Cardinality(Handed \ {t}) = Cardinality(Handed) - 1
<1>1. Handed \in SUBSET (0 .. (MaxTasks - 1)) /\ t \in 0 .. (MaxTasks - 1)
  BY DEF Handed, Task
<1> QED BY <1>1, OneMore, SemaphoreAssumption

(* hrt_sem_init_counting establishes the invariant for every pair of        *)
(* arguments.                                                               *)
LEMMA InvInit == ASSUME Init  PROVE SemInv
<1>1. PICK i \in Inits : hrt_sem_init_counting(i.init, i.max)
  BY DEF Init
<1>2. i.init \in Nat /\ i.max \in Nat
  BY SemaphoreAssumption
<1>3. max_count \in Nat \ {0} /\ count \in 0 .. max_count /\ waiters = <<>>
  BY <1>1, <1>2 DEF hrt_sem_init_counting
<1>4. TypeOK
  BY <1>3, SemaphoreAssumption DEF Init, TypeOK
<1>5. Handed = {}
  BY DEF Init, Handed, At
<1>6. TokensConserved
  BY <1>3, <1>5, FS_EmptySet DEF Init, TokensConserved
<1> QED BY <1>3, <1>4, <1>6 DEF Init, SemInv, NoWaiterBesideToken, WaitersBlocked

(* A task takes a stored token, on the fast path or after looking again.    *)
LEMMA TakeTokenKeeps ==
  ASSUME SemInv, NEW t \in Task, At(t, "run") \/ At(t, "slow"), TakeToken,
         UNCHANGED at \/ Goto(t, "run")
  PROVE  SemInv'
<1>1. TypeOK /\ count > 0 /\ waiters = <<>>
  BY DEF SemInv, TakeToken, NoWaiterBesideToken, TypeOK
<1>2. /\ count' = count - 1 /\ credit' = credit - 1
      /\ UNCHANGED <<max_count, waiters, state>>
  BY DEF TakeToken
<1>3. /\ at' \in [Task -> {"run", "slow", "wait"}]
      /\ \A u \in Task : at'[u] = at[u] \/ (u = t /\ at'[u] # "wait" /\ at[u] # "wait")
  BY <1>1 DEF TypeOK, Goto, At
<1>4. TypeOK'
  BY <1>1, <1>2, <1>3 DEF TypeOK
<1>5. Handed' = Handed
  BY <1>2, <1>3 DEF Handed, At
<1>6. TokensConserved'
  <2>1. Cardinality(Handed) \in Nat /\ credit = count + Cardinality(Handed)
    BY HandedCount DEF SemInv, TokensConserved
  <2>2. credit' = count' + Cardinality(Handed)
    BY <1>1, <1>2, <2>1 DEF TypeOK
  <2> QED BY <1>5, <2>2 DEF TokensConserved
<1>7. WaitersBlocked'
  BY <1>2, <1>3 DEF SemInv, WaitersBlocked
<1> QED BY <1>1, <1>2, <1>4, <1>6, <1>7 DEF SemInv, NoWaiterBesideToken

(* A task that finds no token only moves on.                                *)
LEMMA NoTokenKeeps ==
  ASSUME SemInv, NEW t \in Task, At(t, "run"), NoToken,
         UNCHANGED at \/ Goto(t, "slow")
  PROVE  SemInv'
<1>1. TypeOK /\ UNCHANGED <<count, max_count, waiters, state, credit>>
  BY DEF SemInv, NoToken
<1>2. /\ at' \in [Task -> {"run", "slow", "wait"}]
      /\ \A u \in Task : at'[u] = at[u] \/ (u = t /\ at'[u] # "wait" /\ at[u] # "wait")
  BY <1>1 DEF TypeOK, Goto, At
<1>3. TypeOK'
  BY <1>1, <1>2 DEF TypeOK
<1>4. Handed' = Handed
  BY <1>1, <1>2 DEF Handed, At
<1>5. WaitersBlocked'
  BY <1>1, <1>2 DEF SemInv, WaitersBlocked
<1> QED BY <1>1, <1>3, <1>4, <1>5 DEF SemInv, NoWaiterBesideToken, TokensConserved

(* A task that still finds no token inside the critical section blocks.     *)
LEMMA EnqueueKeeps ==
  ASSUME SemInv, NEW t \in Task, At(t, "slow"), count = 0, Enqueue(t)
  PROVE  SemInv'
<1>1. TypeOK /\ WaitersBlocked /\ t \notin Blocked
  BY DEF SemInv, At, Blocked
<1>2. EachOnce(waiters, Blocked) /\ \A u \in Blocked : at[u] = "wait"
  BY <1>1, WaitersEachOnce DEF TypeOK
<1>3. Len(waiters) < MaxTasks
  BY <1>1, <1>2, HasRoom, SemaphoreAssumption DEF TypeOK, Task
<1>4. /\ waiters' = Append(waiters, t)
      /\ state' = [state EXCEPT ![t] = "BLOCKED"] /\ at' = [at EXCEPT ![t] = "wait"]
      /\ UNCHANGED <<count, max_count, credit>>
  BY <1>1, <1>3, SemaphoreAssumption DEF Enqueue, _waitq_push, Goto, TypeOK
<1>5. TypeOK'
  BY <1>1, <1>3, <1>4, SemaphoreAssumption DEF TypeOK
<1>6. Blocked' = Blocked \cup {t}
  BY <1>1, <1>4 DEF Blocked, TypeOK
<1>7. WaitersBlocked'
  <2>1. EachOnce(waiters', Blocked')
    BY <1>1, <1>2, <1>4, <1>6, AppendWaits DEF TypeOK
  <2>2. \A u \in Blocked' : at'[u] = "wait"
    BY <1>1, <1>2, <1>4, <1>6 DEF TypeOK, Blocked
  <2> QED BY <1>5, <2>1, <2>2, WaitersEachOnceNext DEF TypeOK
<1>8. Handed' = Handed
  BY <1>1, <1>4 DEF Handed, At, TypeOK
<1> QED BY <1>4, <1>5, <1>7, <1>8 DEF SemInv, NoWaiterBesideToken, TokensConserved

(* hrt_sem_take returns to a task that was given a token.                   *)
LEMMA TakeReturnsKeeps ==
  ASSUME SemInv, NEW t \in Task, TakeReturns(t)
  PROVE  SemInv'
<1>1. TypeOK /\ WaitersBlocked /\ t \in Handed
  BY DEF SemInv, TakeReturns, Handed
<1>2. /\ at' = [at EXCEPT ![t] = "run"] /\ credit' = credit - 1
      /\ UNCHANGED <<count, max_count, waiters, state>>
  BY DEF TakeReturns, Goto
<1>3. TypeOK'
  BY <1>1, <1>2 DEF TypeOK
<1>4. Handed' = Handed \ {t}
  BY <1>1, <1>2 DEF Handed, At, TypeOK
<1>5. TokensConserved'
  <2>1. Cardinality(Handed') = Cardinality(Handed) - 1 /\ Cardinality(Handed) \in Nat
    BY <1>1, <1>4, HandedCount
  <2> QED BY <1>1, <1>2, <2>1 DEF SemInv, TokensConserved, TypeOK
<1>6. WaitersBlocked'
  BY <1>1, <1>2 DEF WaitersBlocked, TypeOK, Handed, At
<1> QED BY <1>2, <1>3, <1>5, <1>6 DEF SemInv, NoWaiterBesideToken

(* A give, from a task or an interrupt: the token goes to the first waiter, *)
(* or is stored, or is not added.                                           *)
LEMMA GiveKeeps ==
  ASSUME SemInv, _give_common, UNCHANGED at
  PROVE  SemInv'
<1>1. TypeOK /\ WaitersBlocked /\ at' = at
  BY DEF SemInv
<1>2. CASE waiters # <<>>
  <2> DEFINE h == Head(waiters)
  <2>1. EachOnce(waiters, Blocked) /\ \A u \in Blocked : at[u] = "wait"
    BY <1>1, WaitersEachOnce DEF TypeOK
  <2>2. /\ h \in Blocked /\ h \in Task
        /\ Tail(waiters) \in Seq(Task) /\ Len(Tail(waiters)) = Len(waiters) - 1
        /\ EachOnce(Tail(waiters), Blocked \ {h})
    BY <1>1, <1>2, <2>1, TailWaits DEF TypeOK
  <2> HIDE DEF h
  <2>3. /\ waiters' = Tail(waiters) /\ state' = [state EXCEPT ![h] = "READY"]
        /\ credit' = credit + 1 /\ count' = count /\ max_count' = max_count
    BY <1>2 DEF _give_common, h
  <2>4. TypeOK'
    <3>1. Len(waiters') <= MaxTasks
      BY <1>1, <2>2, <2>3, SemaphoreAssumption DEF TypeOK
    <3>2. state' \in [Task -> {"READY", "BLOCKED"}]
      BY <1>1, <2>3 DEF TypeOK
    <3>3. credit' \in Int
      BY <1>1, <2>3 DEF TypeOK
    <3> QED BY <1>1, <2>2, <2>3, <3>1, <3>2, <3>3 DEF TypeOK
  <2>5. Blocked' = Blocked \ {h}
    BY <1>1, <2>2, <2>3 DEF Blocked, TypeOK
  <2>6. WaitersBlocked'
    BY <1>1, <2>1, <2>2, <2>3, <2>5, WaitersEachOnceNext
  <2>7. h \notin Handed /\ Handed' = Handed \cup {h}
    BY <1>1, <2>1, <2>2, <2>3 DEF Handed, At, TypeOK, Blocked
  <2>8. TokensConserved'
    <3>1. Cardinality(Handed') = Cardinality(Handed) + 1 /\ Cardinality(Handed) \in Nat
      BY <2>2, <2>7, HandedCount
    <3> QED BY <1>1, <2>3, <3>1 DEF SemInv, TokensConserved, TypeOK
  <2> QED BY <1>2, <2>3, <2>4, <2>6, <2>8 DEF SemInv, NoWaiterBesideToken
<1>3. CASE waiters = <<>>
  <2>1. /\ count' = IF count < max_count THEN count + 1 ELSE count
        /\ credit' = IF count < max_count THEN credit + 1 ELSE credit
        /\ UNCHANGED <<max_count, waiters, state>>
    BY <1>3 DEF _give_common
  <2>2. TypeOK'
    BY <1>1, <2>1 DEF TypeOK
  <2>3. Handed' = Handed /\ WaitersBlocked'
    BY <1>1, <2>1 DEF Handed, At, WaitersBlocked
  <2>4. TokensConserved'
    <3>1. Cardinality(Handed) \in Nat
      <4>1. Handed \in SUBSET (0 .. (MaxTasks - 1))
        BY DEF Handed, Task
      <4> QED BY <4>1, TasksFinite, SemaphoreAssumption
    <3> QED BY <1>1, <2>1, <2>3, <3>1 DEF SemInv, TokensConserved, TypeOK
  <2> QED BY <1>3, <2>1, <2>2, <2>3, <2>4 DEF SemInv, NoWaiterBesideToken
<1> QED BY <1>2, <1>3

(* Every step keeps the invariant.                                          *)
LEMMA InvNext == ASSUME SemInv, [Next]_vars  PROVE SemInv'
<1>1. CASE hrt_sem_give_from_isr
  BY <1>1, GiveKeeps DEF hrt_sem_give_from_isr
<1>2. ASSUME NEW t \in Task, hrt_sem_try_take(t)  PROVE SemInv'
  BY <1>2, TakeTokenKeeps, NoTokenKeeps DEF hrt_sem_try_take
<1>3. ASSUME NEW t \in Task, hrt_sem_take(t)  PROVE SemInv'
  BY <1>3, TakeTokenKeeps, NoTokenKeeps DEF hrt_sem_take
<1>4. ASSUME NEW t \in Task, TakeSlow(t)  PROVE SemInv'
  BY <1>4, TakeTokenKeeps, EnqueueKeeps DEF TakeSlow
<1>5. ASSUME NEW t \in Task, TakeReturns(t)  PROVE SemInv'
  BY <1>5, TakeReturnsKeeps
<1>6. ASSUME NEW t \in Task, hrt_sem_give(t)  PROVE SemInv'
  BY <1>6, GiveKeeps DEF hrt_sem_give
<1>7. CASE UNCHANGED vars
  <2>1. UNCHANGED <<count, max_count, waiters, state, at, credit>>
    BY <1>7 DEF vars
  <2>2. TypeOK' /\ Handed' = Handed /\ WaitersBlocked'
    BY <2>1 DEF SemInv, TypeOK, Handed, At, WaitersBlocked
  <2> QED BY <2>1, <2>2 DEF SemInv, NoWaiterBesideToken, TokensConserved
<1> QED BY <1>1, <1>2, <1>3, <1>4, <1>5, <1>6, <1>7 DEF Next

(* The invariant holds throughout every execution.                          *)
LEMMA SemaphoreInvariant == Spec => []SemInv
BY InvInit, InvNext, PTL DEF Spec

(* No task waits in hrt_sem_take while a token is stored.                   *)
THEOREM NoLostWakeUp == Spec => []NoWaiterBesideToken
<1>1. SemInv => NoWaiterBesideToken
  BY DEF SemInv
<1> QED BY <1>1, SemaphoreInvariant, PTL

(* Every token that a give adds is taken once, and none is invented.        *)
THEOREM Conservation == Spec => []TokensConserved
<1>1. SemInv => TokensConserved
  BY DEF SemInv
<1> QED BY <1>1, SemaphoreInvariant, PTL

(* The waiter queue is exactly the tasks blocked in hrt_sem_take, so that   *)
(* _waitq_push never drops a task.                                          *)
THEOREM WaitersAreBlocked == Spec => []WaitersBlocked
<1>1. SemInv => WaitersBlocked
  BY DEF SemInv
<1> QED BY <1>1, SemaphoreInvariant, PTL

(* `count' stays within 0 .. max_count, for any arguments of                *)
(* hrt_sem_init_counting and any number of gives.                           *)
THEOREM CountBounded == Spec => []TypeOK
<1>1. SemInv => TypeOK
  BY DEF SemInv
<1> QED BY <1>1, SemaphoreInvariant, PTL
=============================================================================
