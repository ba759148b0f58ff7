---------------------------- MODULE QueueProofs ----------------------------
(***************************************************************************)
(* What the waiter queues of mutexes, semaphores and message queues have   *)
(* in common: arrays of task ids with room for every task, appended to by  *)
(* a task that blocks and consumed from the front by the one that wakes it *)
(* (_waitq_push and _waitq_pop, _wq_push and _wq_pop).  Also what the      *)
(* ascending search loops of the kernel find, and the arithmetic of the    *)
(* wrapping tick counter.                                                  *)
(***************************************************************************)
EXTENDS Integers, Sequences, FiniteSets, FiniteSetTheorems,
        WellFoundedInduction, TLAPS

(* A set of natural numbers that is not empty has a least element: what the *)
(* first match of an ascending search loop is.                              *)
LEMMA LeastExists ==
  ASSUME NEW S \in SUBSET Nat, S # {}
  PROVE  \E m \in S : \A n \in S : m <= n
<1> DEFINE R == {xy \in Nat \X Nat : xy[1] < xy[2]}
<1>1. IsWellFoundedOn(R, Nat)
  BY NatLessThanWellFounded DEF OpToRel
<1>2. PICK m \in S : \A n \in S : ~ (<<n, m>> \in R)
  <2> HIDE DEF R
  <2> QED BY <1>1, WFMin
<1>3. ASSUME NEW n \in S  PROVE m <= n
  <2>1. CASE n < m
    <3>1. <<n, m>> \in Nat \X Nat /\ <<n, m>>[1] < <<n, m>>[2]
      BY <2>1
    <3>2. <<n, m>> \in R
      BY <3>1
    <3> QED BY <3>2, <1>2
  <2>2. CASE ~ (n < m)
    BY <2>2
  <2> QED BY <2>1, <2>2
<1> QED BY <1>3

-----------------------------------------------------------------------------

(* q holds the members of W, each once.                                     *)
EachOnce(q, W) ==
  /\ \A i \in 1 .. Len(q) :
       /\ q[i] \in W
       /\ \A j \in 1 .. Len(q) : q[i] = q[j] => i = j
  /\ \A t \in W : \E i \in 1 .. Len(q) : q[i] = t

(* A queue of distinct tasks out of N that lacks one of them has fewer than *)
(* N entries: _waitq_push never meets a full queue.                         *)
LEMMA HasRoom ==
  ASSUME NEW N \in Nat, NEW q \in Seq(0 .. (N - 1)), NEW W, EachOnce(q, W),
         NEW id \in 0 .. (N - 1), id \notin W
  PROVE  Len(q) < N
<1> DEFINE T == 0 .. (N - 1)
<1>1. Len(q) \in Nat /\ N > 0
  OBVIOUS
<1>2. IsFiniteSet(T) /\ Cardinality(T) = N
  BY <1>1, 0 \in Int, 1 \in Int, N - 1 \in Int, Len(q) \in Int, FS_Interval
<1>3. IsFiniteSet(T \ {id}) /\ Cardinality(T \ {id}) = N - 1
  BY <1>2, FS_RemoveElement
<1>4. q \in Injection(1 .. Len(q), T \ {id})
  <2>1. \A i \in 1 .. Len(q) : q[i] # id
    BY DEF EachOnce
  <2>2. q \in [1 .. Len(q) -> T \ {id}]
    BY <2>1
  <2> QED BY <2>2 DEF EachOnce, Injection, IsInjective
<1>5. Cardinality(1 .. Len(q)) <= N - 1
  BY <1>3, <1>4, FS_Injection
<1>6. Cardinality(1 .. Len(q)) = IF 1 > Len(q) THEN 0 ELSE Len(q) - 1 + 1
  BY <1>1, 0 \in Int, 1 \in Int, N - 1 \in Int, Len(q) \in Int, FS_Interval
<1> QED BY <1>1, <1>5, <1>6

(* A task that blocks is appended to the tasks that wait.                   *)
LEMMA AppendWaits ==
  ASSUME NEW S, NEW q \in Seq(S), NEW W, EachOnce(q, W), NEW id \in S, id \notin W
  PROVE  EachOnce(Append(q, id), W \cup {id})
<1> DEFINE r == Append(q, id)
<1>1. /\ Len(q) \in Nat /\ Len(r) = Len(q) + 1 /\ r[Len(q) + 1] = id
      /\ \A i \in 1 .. Len(q) : r[i] = q[i]
  OBVIOUS
<1> HIDE DEF r
<1>2. \A i \in 1 .. Len(r) : i \in 1 .. Len(q) \/ i = Len(q) + 1
  BY <1>1
<1>3. \A i \in 1 .. Len(q) : q[i] \in W /\ \A j \in 1 .. Len(q) : q[i] = q[j] => i = j
  BY DEF EachOnce
<1>4. ASSUME NEW i \in 1 .. Len(r)
      PROVE  /\ r[i] \in W \cup {id}
             /\ \A j \in 1 .. Len(r) : r[i] = r[j] => i = j
  BY <1>1, <1>2, <1>3
<1>5. ASSUME NEW t \in W \cup {id}  PROVE \E i \in 1 .. Len(r) : r[i] = t
  <2>1. CASE t = id
    BY <2>1, <1>1
  <2>2. CASE t \in W
    <3>1. PICK i \in 1 .. Len(q) : q[i] = t
      BY <2>2 DEF EachOnce
    <3> QED BY <3>1, <1>1
  <2> QED BY <2>1, <2>2
<1>6. EachOnce(r, W \cup {id})
  BY <1>4, <1>5 DEF EachOnce
<1> QED BY <1>6 DEF r

(* The task at the front waits, and the others stay.                        *)
LEMMA TailWaits ==
  ASSUME NEW S, NEW q \in Seq(S), NEW W, EachOnce(q, W), q # <<>>
  PROVE  /\ Head(q) \in W /\ Head(q) \in S
         /\ Tail(q) \in Seq(S) /\ Len(Tail(q)) = Len(q) - 1
         /\ EachOnce(Tail(q), W \ {Head(q)})
<1> DEFINE r == Tail(q)
           h == Head(q)
<1>1. /\ Len(q) \in Nat /\ Len(q) > 0 /\ h = q[1] /\ h \in S
      /\ r \in Seq(S) /\ Len(r) = Len(q) - 1
      /\ \A i \in 1 .. Len(r) : r[i] = q[i + 1]
  OBVIOUS
<1> HIDE DEF r, h
<1>2. 1 \in 1 .. Len(q) /\ \A i \in 1 .. Len(r) : i + 1 \in 1 .. Len(q) /\ i + 1 # 1
  BY <1>1
<1>3. \A i \in 1 .. Len(q) : q[i] \in W /\ \A j \in 1 .. Len(q) : q[i] = q[j] => i = j
  BY DEF EachOnce
<1>4. h \in W /\ \A j \in 1 .. Len(q) : h = q[j] => j = 1
  BY <1>1, <1>2, <1>3
<1>5. ASSUME NEW i \in 1 .. Len(r)
      PROVE  /\ r[i] \in W \ {h}
             /\ \A j \in 1 .. Len(r) : r[i] = r[j] => i = j
  <2>1. r[i] = q[i + 1] /\ i + 1 \in 1 .. Len(q) /\ i + 1 # 1
    BY <1>1, <1>2
  <2>2. r[i] \in W \ {h}
    BY <2>1, <1>3, <1>4
  <2>3. ASSUME NEW j \in 1 .. Len(r), r[i] = r[j]  PROVE i = j
    <3>1. r[j] = q[j + 1] /\ j + 1 \in 1 .. Len(q)
      BY <1>1, <1>2
    <3>2. i + 1 = j + 1
      BY <2>1, <2>3, <3>1, <1>3
    <3> QED BY <3>2
  <2> QED BY <2>2, <2>3
<1>6. ASSUME NEW t \in W \ {h}  PROVE \E i \in 1 .. Len(r) : r[i] = t
  <2>1. PICK k \in 1 .. Len(q) : q[k] = t
    BY DEF EachOnce
  <2>2. k # 1
    BY <2>1, <1>1
  <2>3. k - 1 \in 1 .. Len(r) /\ (k - 1) + 1 = k
    BY <2>1, <2>2, <1>1
  <2> QED BY <2>1, <2>3, <1>1
<1>7. EachOnce(r, W \ {h})
  BY <1>5, <1>6 DEF EachOnce
<1> QED BY <1>1, <1>4, <1>7 DEF r, h

(* A set of tasks is finite.                                                *)
LEMMA TasksFinite ==
  ASSUME NEW N \in Nat, NEW A \in SUBSET (0 .. (N - 1))
  PROVE  IsFiniteSet(A) /\ Cardinality(A) \in Nat
<1>1. IsFiniteSet(0 .. (N - 1))
  BY 0 \in Int, N - 1 \in Int, FS_Interval
<1>2. IsFiniteSet(A)
  BY <1>1, FS_Subset
<1> QED BY <1>2, FS_CardinalityType

(* One task more, or one less, in a set of tasks.                           *)
LEMMA OneMore ==
  ASSUME NEW N \in Nat, NEW A \in SUBSET (0 .. (N - 1)), NEW t \in 0 .. (N - 1)
  PROVE  /\ Cardinality(A) \in Nat
         /\ t \notin A => Cardinality(A \cup {t}) = Cardinality(A) + 1
         /\ t \in A => Cardinality(A \ {t}) = Cardinality(A) - 1
<1>1. IsFiniteSet(A) /\ Cardinality(A) \in Nat
  BY TasksFinite
<1> QED BY <1>1, FS_AddElement, FS_RemoveElement

-----------------------------------------------------------------------------
(* The tick counter wraps: a deadline k ticks ahead is k away, modulo M.    *)
LEMMA TickAhead ==
  ASSUME NEW M \in Nat \ {0}, NEW g \in 0 .. (M - 1), NEW k \in Nat, k < M
  PROVE  (((g + k) % M) - g) % M = k
<1>1. CASE g + k < M
  <2>1. (g + k) % M = g + k
    BY <1>1
  <2>2. (g + k) - g = k /\ k % M = k
    OBVIOUS
  <2> QED BY <2>1, <2>2
<1>2. CASE g + k >= M
  <2>1. (g + k) % M = g + k - M
    BY <1>2
  <2>2. (g + k - M) - g = k - M /\ (k - M) % M = k
    OBVIOUS
  <2> QED BY <2>1, <2>2
<1> QED BY <1>1, <1>2

(* A deadline k ticks ahead is k - 1 ticks ahead after hrt__inc_tick,       *)
(* whether or not the counter wraps.                                        *)
LEMMA TickPassed ==
  ASSUME NEW M \in Nat \ {0}, NEW g \in 0 .. (M - 1), NEW k \in Nat \ {0}, k < M
  PROVE  (g + k) % M = (((g + 1) % M) + (k - 1)) % M
<1>1. CASE g + 1 < M
  <2>1. (g + 1) % M = g + 1
    BY <1>1
  <2>2. (g + 1) + (k - 1) = g + k
    OBVIOUS
  <2> QED BY <2>1, <2>2
<1>2. CASE g + 1 = M
  <2>1. (g + 1) % M = 0 /\ (k - 1) % M = k - 1
    BY <1>2
  <2>2. (g + k) % M = k - 1
    BY <1>2
  <2> QED BY <2>1, <2>2
<1> QED BY <1>1, <1>2
=============================================================================
