--------------------------- MODULE MsgQueueProofs ---------------------------
(***************************************************************************)
(* Nobody is stranded in hrt_queue_t, for any number of tasks and any      *)
(* capacity, and its item buffer fits its operations.                      *)
(***************************************************************************)
EXTENDS MsgBuffer, QueueProofs

Places == {"run", "send", "sendSlow", "recv", "recvSlow"}

ParkedAt(pc) == {t \in Task : Parked(t) /\ at[t] = pc}

(* The inductive invariant: the properties of the queue together.           *)
QueueInv ==
  /\ TypeOK
  /\ NoStrandedReceiver
  /\ NoStrandedSender
  /\ WaitersParked

(* WaitersParked, in terms of the lemmas on waiter queues.                  *)
LEMMA ParkedEachOnce ==
  ASSUME rx_q \in Seq(Task), tx_q \in Seq(Task)
  PROVE  WaitersParked <=> /\ EachOnce(rx_q, ParkedAt("recv"))
                           /\ EachOnce(tx_q, ParkedAt("send"))
                           /\ \A t \in Task : Parked(t) => at[t] \in {"send", "recv"}
<1>1. /\ \A i \in 1 .. Len(rx_q) : rx_q[i] \in Task
      /\ \A i \in 1 .. Len(tx_q) : tx_q[i] \in Task
  OBVIOUS
<1>2. HoldsParked(rx_q, "recv") <=> EachOnce(rx_q, ParkedAt("recv"))
  BY <1>1 DEF HoldsParked, EachOnce, ParkedAt
<1>3. HoldsParked(tx_q, "send") <=> EachOnce(tx_q, ParkedAt("send"))
  BY <1>1 DEF HoldsParked, EachOnce, ParkedAt
<1> QED BY <1>2, <1>3 DEF WaitersParked

(* The same of the next state.                                              *)
LEMMA ParkedEachOnceNext ==
  ASSUME rx_q' \in Seq(Task), tx_q' \in Seq(Task),
         EachOnce(rx_q', ParkedAt("recv")'), EachOnce(tx_q', ParkedAt("send")'),
         \A t \in Task : Parked(t)' => at'[t] \in {"send", "recv"}
  PROVE  WaitersParked'
<1>1. /\ \A i \in 1 .. Len(rx_q') : rx_q'[i] \in Task
      /\ \A i \in 1 .. Len(tx_q') : tx_q'[i] \in Task
  OBVIOUS
<1>2. HoldsParked(rx_q, "recv")'
  BY <1>1 DEF HoldsParked, EachOnce, ParkedAt
<1>3. HoldsParked(tx_q, "send")'
  BY <1>1 DEF HoldsParked, EachOnce, ParkedAt
<1> QED BY <1>2, <1>3 DEF WaitersParked

(* Sets of tasks that gain one member, or lose at most one.                 *)
LEMMA TaskCount ==
  ASSUME NEW A \in SUBSET Task, NEW B \in SUBSET Task
  PROVE  /\ Cardinality(A) \in Nat /\ Cardinality(B) \in Nat
         /\ A \subseteq B => Cardinality(A) <= Cardinality(B)
         /\ \A t \in Task \ A : B = A \cup {t} => Cardinality(B) = Cardinality(A) + 1
         /\ \A t \in Task : A \ {t} \subseteq B => Cardinality(A) - 1 <= Cardinality(B)
<1>1. A \in SUBSET (0 .. (MaxTasks - 1)) /\ B \in SUBSET (0 .. (MaxTasks - 1))
  BY DEF Task
<1>2. /\ IsFiniteSet(A) /\ Cardinality(A) \in Nat
      /\ IsFiniteSet(B) /\ Cardinality(B) \in Nat
  BY <1>1, TasksFinite, MsgQueueAssumption
<1>3. A \subseteq B => Cardinality(A) <= Cardinality(B)
  BY <1>2, FS_Subset
<1>4. ASSUME NEW t \in Task \ A, B = A \cup {t}
      PROVE  Cardinality(B) = Cardinality(A) + 1
  BY <1>2, <1>4, FS_AddElement
<1>5. ASSUME NEW t \in Task, A \ {t} \subseteq B
      PROVE  Cardinality(A) - 1 <= Cardinality(B)
  <2>1. Cardinality(A \ {t}) <= Cardinality(B)
    BY <1>2, <1>5, FS_Subset
  <2>2. CASE t \in A
    <3>1. Cardinality(A \ {t}) = Cardinality(A) - 1
      BY <1>2, <2>2, FS_RemoveElement
    <3> QED BY <2>1, <3>1
  <2>3. CASE t \notin A
    <3>1. A \ {t} = A
      BY <2>3
    <3> QED BY <1>2, <2>1, <3>1
  <2> QED BY <2>2, <2>3
<1> QED BY <1>2, <1>3, <1>4, <1>5

(* hrt_queue_init establishes the invariant.                                *)
LEMMA InvInit == ASSUME Init  PROVE QueueInv
<1>1. rx_q \in Seq(Task) /\ tx_q \in Seq(Task) /\ Len(rx_q) = 0 /\ Len(tx_q) = 0
  BY DEF Init, hrt_queue_init
<1>2. TypeOK
  BY <1>1, MsgQueueAssumption DEF Init, hrt_queue_init, TypeOK
<1> QED BY <1>2 DEF Init, hrt_queue_init, QueueInv, NoStrandedReceiver, NoStrandedSender,
                    WaitersParked, HoldsParked, Parked

(* The tasks that leave an operation, or the interrupt that is in none.     *)
Leaves(L, from) ==
  /\ L = {} \/ \E t \in Task : L = {t}
  /\ \A u \in L : state[u] = "READY" /\ at[u] \in from /\ at'[u] = "run"
  /\ at' \in [Task -> Places]
  /\ \A u \in Task \ L : at'[u] = at[u]

(* An item is added: one more receiver is awake for it, and at most one     *)
(* sender fewer is awake for one place fewer.                               *)
LEMMA EnqueuedKeeps ==
  ASSUME QueueInv, Enqueued, NEW L \in SUBSET Task, Leaves(L, {"run", "send", "sendSlow"})
  PROVE  QueueInv'
<1>1. TypeOK /\ WaitersParked /\ NoStrandedReceiver /\ NoStrandedSender
  BY DEF QueueInv
<1>2. /\ EachOnce(rx_q, ParkedAt("recv")) /\ EachOnce(tx_q, ParkedAt("send"))
      /\ \A t \in Task : Parked(t) => at[t] \in {"send", "recv"}
  BY <1>1, ParkedEachOnce DEF TypeOK
<1>3. count < capacity /\ count' = count + 1 /\ tx_q' = tx_q
  BY DEF Enqueued
<1>4. /\ at' \in [Task -> Places]
      /\ \A u \in L : state[u] = "READY" /\ at[u] \notin {"recv", "recvSlow"} /\ at'[u] = "run"
      /\ \A u \in Task \ L : at'[u] = at[u]
  BY DEF Leaves
<1>5. /\ Receiving \in SUBSET Task /\ Receiving' \in SUBSET Task
      /\ Sending \in SUBSET Task /\ Sending' \in SUBSET Task
  BY DEF Receiving, Sending
<1>6. /\ Cardinality(Receiving) \in Nat /\ Cardinality(Sending) \in Nat
      /\ Cardinality(Receiving') \in Nat /\ Cardinality(Sending') \in Nat
  BY <1>5, TaskCount
<1>7. ASSUME \A u \in Task : state[u] = "READY" => state'[u] = "READY"
      PROVE  Cardinality(Sending) - 1 <= Cardinality(Sending')
  <2>1. Sending \ L \subseteq Sending'
    BY <1>4, <1>7 DEF Sending, At
  <2>2. CASE L = {}
    <3>1. Cardinality(Sending) <= Cardinality(Sending')
      BY <1>5, <2>1, <2>2, TaskCount
    <3> QED BY <1>6, <3>1
  <2>3. ASSUME NEW t \in Task, L = {t}
        PROVE  Cardinality(Sending) - 1 <= Cardinality(Sending')
    BY <1>5, <2>1, <2>3, TaskCount
  <2> QED BY <2>2, <2>3 DEF Leaves
<1>8. ASSUME Cardinality(Sending) - 1 <= Cardinality(Sending')
      PROVE  NoStrandedSender'
  BY <1>1, <1>3, <1>6, <1>8, MsgQueueAssumption DEF NoStrandedSender, TypeOK
<1>9. CASE rx_q = <<>>
  <2>1. rx_q' = rx_q /\ state' = state
    BY <1>9 DEF Enqueued, _wq_pop, MakeReady
  <2>2. TypeOK'
    BY <1>1, <1>3, <1>4, <2>1, MsgQueueAssumption DEF TypeOK, Places
  <2>3. NoStrandedReceiver' /\ NoStrandedSender'
    BY <1>7, <1>8, <1>9, <2>1 DEF NoStrandedReceiver
  <2>4. /\ ParkedAt("recv")' = ParkedAt("recv") /\ ParkedAt("send")' = ParkedAt("send")
        /\ \A t \in Task : Parked(t)' => at'[t] \in {"send", "recv"}
    BY <1>2, <1>4, <2>1 DEF ParkedAt, Parked
  <2>5. WaitersParked'
    BY <1>1, <1>2, <1>3, <2>1, <2>4, ParkedEachOnceNext DEF TypeOK
  <2> QED BY <2>2, <2>3, <2>5 DEF QueueInv
<1>10. CASE rx_q # <<>>
  <2> DEFINE h == Head(rx_q)
  <2>1. /\ h \in ParkedAt("recv") /\ h \in Task
        /\ Tail(rx_q) \in Seq(Task) /\ Len(Tail(rx_q)) = Len(rx_q) - 1
        /\ EachOnce(Tail(rx_q), ParkedAt("recv") \ {h})
    BY <1>1, <1>2, <1>10, TailWaits DEF TypeOK
  <2>2. rx_q' = Tail(rx_q) /\ state' = [state EXCEPT ![h] = "READY"]
    BY <1>10 DEF Enqueued, _wq_pop, MakeReady
  <2> HIDE DEF h
  <2>3. state[h] = "BLOCKED" /\ at[h] = "recv" /\ h \notin L
    BY <1>4, <2>1 DEF ParkedAt, Parked
  <2>4. /\ state' \in [Task -> {"READY", "BLOCKED"}] /\ state'[h] = "READY"
        /\ \A u \in Task : u # h => state'[u] = state[u]
    BY <1>1, <2>1, <2>2 DEF TypeOK
  <2>5. TypeOK'
    <3>1. Len(rx_q') <= MaxTasks
      BY <1>1, <2>1, <2>2, MsgQueueAssumption DEF TypeOK
    <3>2. count' \in 0 .. capacity
      BY <1>1, <1>3, MsgQueueAssumption DEF TypeOK
    <3> QED BY <1>1, <1>3, <1>4, <2>1, <2>2, <2>4, <3>1, <3>2 DEF TypeOK, Places
  <2>6. h \notin Receiving /\ Receiving' = Receiving \cup {h}
    BY <1>4, <2>1, <2>3, <2>4 DEF Receiving, At
  <2>7. NoStrandedReceiver'
    <3>1. Cardinality(Receiving') = Cardinality(Receiving) + 1
      BY <1>5, <2>1, <2>6, TaskCount
    <3> QED BY <1>1, <1>3, <1>6, <1>10, <3>1 DEF NoStrandedReceiver, TypeOK
  <2>8. NoStrandedSender'
    BY <1>7, <1>8, <2>4
  <2>9. /\ ParkedAt("recv")' = ParkedAt("recv") \ {h} /\ ParkedAt("send")' = ParkedAt("send")
        /\ \A t \in Task : Parked(t)' => at'[t] \in {"send", "recv"}
    BY <1>2, <1>4, <2>3, <2>4 DEF ParkedAt, Parked
  <2>10. WaitersParked'
    BY <1>1, <1>2, <1>3, <2>1, <2>2, <2>9, ParkedEachOnceNext DEF TypeOK
  <2> QED BY <2>5, <2>7, <2>8, <2>10 DEF QueueInv
<1> QED BY <1>9, <1>10
(* An item is taken: one more sender is awake for the place, and at most    *)
(* one receiver fewer for one item fewer.                                   *)
LEMMA DequeuedKeeps ==
  ASSUME QueueInv, Dequeued, NEW L \in SUBSET Task, Leaves(L, {"run", "recv", "recvSlow"})
  PROVE  QueueInv'
<1>1. TypeOK /\ WaitersParked /\ NoStrandedSender /\ NoStrandedReceiver
  BY DEF QueueInv
<1>2. /\ EachOnce(tx_q, ParkedAt("send")) /\ EachOnce(rx_q, ParkedAt("recv"))
      /\ \A t \in Task : Parked(t) => at[t] \in {"send", "recv"}
  BY <1>1, ParkedEachOnce DEF TypeOK
<1>3. count > 0 /\ count' = count - 1 /\ rx_q' = rx_q
  BY DEF Dequeued
<1>4. /\ at' \in [Task -> Places]
      /\ \A u \in L : state[u] = "READY" /\ at[u] \notin {"send", "sendSlow"} /\ at'[u] = "run"
      /\ \A u \in Task \ L : at'[u] = at[u]
  BY DEF Leaves
<1>5. /\ Sending \in SUBSET Task /\ Sending' \in SUBSET Task
      /\ Receiving \in SUBSET Task /\ Receiving' \in SUBSET Task
  BY DEF Sending, Receiving
<1>6. /\ Cardinality(Sending) \in Nat /\ Cardinality(Receiving) \in Nat
      /\ Cardinality(Sending') \in Nat /\ Cardinality(Receiving') \in Nat
  BY <1>5, TaskCount
<1>7. ASSUME \A u \in Task : state[u] = "READY" => state'[u] = "READY"
      PROVE  Cardinality(Receiving) - 1 <= Cardinality(Receiving')
  <2>1. Receiving \ L \subseteq Receiving'
    BY <1>4, <1>7 DEF Receiving, At
  <2>2. CASE L = {}
    <3>1. Cardinality(Receiving) <= Cardinality(Receiving')
      BY <1>5, <2>1, <2>2, TaskCount
    <3> QED BY <1>6, <3>1
  <2>3. ASSUME NEW t \in Task, L = {t}
        PROVE  Cardinality(Receiving) - 1 <= Cardinality(Receiving')
    BY <1>5, <2>1, <2>3, TaskCount
  <2> QED BY <2>2, <2>3 DEF Leaves
<1>8. ASSUME Cardinality(Receiving) - 1 <= Cardinality(Receiving')
      PROVE  NoStrandedReceiver'
  BY <1>1, <1>3, <1>6, <1>8, MsgQueueAssumption DEF NoStrandedReceiver, TypeOK
<1>9. CASE tx_q = <<>>
  <2>1. tx_q' = tx_q /\ state' = state
    BY <1>9 DEF Dequeued, _wq_pop, MakeReady
  <2>2. TypeOK'
    BY <1>1, <1>3, <1>4, <2>1, MsgQueueAssumption DEF TypeOK, Places
  <2>3. NoStrandedSender' /\ NoStrandedReceiver'
    BY <1>7, <1>8, <1>9, <2>1 DEF NoStrandedSender
  <2>4. /\ ParkedAt("send")' = ParkedAt("send") /\ ParkedAt("recv")' = ParkedAt("recv")
        /\ \A t \in Task : Parked(t)' => at'[t] \in {"send", "recv"}
    BY <1>2, <1>4, <2>1 DEF ParkedAt, Parked
  <2>5. WaitersParked'
    BY <1>1, <1>2, <1>3, <2>1, <2>4, ParkedEachOnceNext DEF TypeOK
  <2> QED BY <2>2, <2>3, <2>5 DEF QueueInv
<1>10. CASE tx_q # <<>>
  <2> DEFINE h == Head(tx_q)
  <2>1. /\ h \in ParkedAt("send") /\ h \in Task
        /\ Tail(tx_q) \in Seq(Task) /\ Len(Tail(tx_q)) = Len(tx_q) - 1
        /\ EachOnce(Tail(tx_q), ParkedAt("send") \ {h})
    BY <1>1, <1>2, <1>10, TailWaits DEF TypeOK
  <2>2. tx_q' = Tail(tx_q) /\ state' = [state EXCEPT ![h] = "READY"]
    BY <1>10 DEF Dequeued, _wq_pop, MakeReady
  <2> HIDE DEF h
  <2>3. state[h] = "BLOCKED" /\ at[h] = "send" /\ h \notin L
    BY <1>4, <2>1 DEF ParkedAt, Parked
  <2>4. /\ state' \in [Task -> {"READY", "BLOCKED"}] /\ state'[h] = "READY"
        /\ \A u \in Task : u # h => state'[u] = state[u]
    BY <1>1, <2>1, <2>2 DEF TypeOK
  <2>5. TypeOK'
    <3>1. Len(tx_q') <= MaxTasks
      BY <1>1, <2>1, <2>2, MsgQueueAssumption DEF TypeOK
    <3>2. count' \in 0 .. capacity
      BY <1>1, <1>3, MsgQueueAssumption DEF TypeOK
    <3> QED BY <1>1, <1>3, <1>4, <2>1, <2>2, <2>4, <3>1, <3>2 DEF TypeOK, Places
  <2>6. h \notin Sending /\ Sending' = Sending \cup {h}
    BY <1>4, <2>1, <2>3, <2>4 DEF Sending, At
  <2>7. NoStrandedSender'
    <3>1. Cardinality(Sending') = Cardinality(Sending) + 1
      BY <1>5, <2>1, <2>6, TaskCount
    <3> QED BY <1>1, <1>3, <1>6, <1>10, <3>1, MsgQueueAssumption DEF NoStrandedSender, TypeOK
  <2>8. NoStrandedReceiver'
    BY <1>7, <1>8, <2>4
  <2>9. /\ ParkedAt("send")' = ParkedAt("send") \ {h} /\ ParkedAt("recv")' = ParkedAt("recv")
        /\ \A t \in Task : Parked(t)' => at'[t] \in {"send", "recv"}
    BY <1>2, <1>4, <2>3, <2>4 DEF ParkedAt, Parked
  <2>10. WaitersParked'
    BY <1>1, <1>2, <1>3, <2>1, <2>2, <2>9, ParkedEachOnceNext DEF TypeOK
  <2> QED BY <2>5, <2>7, <2>8, <2>10 DEF QueueInv
<1> QED BY <1>9, <1>10

(* A task moves on without touching the queue: it calls an operation, or    *)
(* found the queue full or empty.                                           *)
LEMMA MoveKeeps ==
  ASSUME QueueInv, UNCHANGED <<count, rx_q, tx_q, state>>, NEW t \in Task,
         NEW from, NEW to \in Places, state[t] = "READY", at[t] = from,
         from = "send" => count >= capacity, from = "recv" => count = 0,
         at' = [at EXCEPT ![t] = to]
  PROVE  QueueInv'
<1>1. TypeOK /\ WaitersParked /\ NoStrandedReceiver /\ NoStrandedSender
  BY DEF QueueInv
<1>2. TypeOK'
  BY <1>1 DEF TypeOK, Places
<1>3. /\ Receiving \in SUBSET Task /\ Receiving' \in SUBSET Task
      /\ Sending \in SUBSET Task /\ Sending' \in SUBSET Task
  BY DEF Receiving, Sending
<1>4. /\ Cardinality(Receiving) \in Nat /\ Cardinality(Sending) \in Nat
      /\ Cardinality(Receiving') \in Nat /\ Cardinality(Sending') \in Nat
  BY <1>3, TaskCount
<1>5. NoStrandedReceiver'
  <2>1. CASE from = "recv"
    BY <1>4, <2>1 DEF NoStrandedReceiver
  <2>2. CASE from # "recv"
    <3>1. Receiving \subseteq Receiving'
      BY <1>1, <2>2 DEF Receiving, At, TypeOK
    <3>2. Cardinality(Receiving) <= Cardinality(Receiving')
      BY <1>3, <3>1, TaskCount
    <3> QED BY <1>1, <1>4, <3>2 DEF NoStrandedReceiver, TypeOK
  <2> QED BY <2>1, <2>2
<1>6. NoStrandedSender'
  <2>1. CASE from = "send"
    BY <1>1, <1>4, <2>1, MsgQueueAssumption DEF NoStrandedSender, TypeOK
  <2>2. CASE from # "send"
    <3>1. Sending \subseteq Sending'
      BY <1>1, <2>2 DEF Sending, At, TypeOK
    <3>2. Cardinality(Sending) <= Cardinality(Sending')
      BY <1>3, <3>1, TaskCount
    <3> QED BY <1>1, <1>4, <3>2, MsgQueueAssumption DEF NoStrandedSender, TypeOK
  <2> QED BY <2>1, <2>2
<1>7. WaitersParked'
  <2>1. /\ EachOnce(rx_q, ParkedAt("recv")) /\ EachOnce(tx_q, ParkedAt("send"))
        /\ \A u \in Task : Parked(u) => at[u] \in {"send", "recv"}
    BY <1>1, ParkedEachOnce DEF TypeOK
  <2>2. /\ ParkedAt("recv")' = ParkedAt("recv") /\ ParkedAt("send")' = ParkedAt("send")
        /\ \A u \in Task : Parked(u)' => at'[u] \in {"send", "recv"}
    BY <1>1, <2>1 DEF ParkedAt, Parked, TypeOK
  <2> QED BY <1>1, <2>1, <2>2, ParkedEachOnceNext DEF TypeOK
<1> QED BY <1>2, <1>5, <1>6, <1>7 DEF QueueInv

(* Nothing happens: a try form in a task or an interrupt fails.             *)
LEMMA StutterKeeps ==
  ASSUME QueueInv, UNCHANGED <<count, rx_q, tx_q, state, at>>
  PROVE  QueueInv'
<1>1. TypeOK'
  BY DEF QueueInv, TypeOK
<1>2. WaitersParked'
  BY DEF QueueInv, WaitersParked, HoldsParked, Parked
<1>3. Receiving' = Receiving /\ Sending' = Sending
  BY DEF Receiving, Sending, At
<1> QED BY <1>1, <1>2, <1>3 DEF QueueInv, NoStrandedReceiver, NoStrandedSender

(* A receiver that still finds the queue empty inside the critical section  *)
(* parks.                                                                   *)
LEMMA ParkReceiverKeeps ==
  ASSUME QueueInv, NEW t \in Task, At(t, "recvSlow"), count = 0, ParkReceiver(t)
  PROVE  QueueInv'
<1>1. TypeOK /\ WaitersParked /\ NoStrandedReceiver /\ NoStrandedSender
      /\ t \notin ParkedAt("recv") /\ t \notin ParkedAt("send")
  BY DEF QueueInv, At, ParkedAt, Parked
<1>2. /\ EachOnce(rx_q, ParkedAt("recv")) /\ EachOnce(tx_q, ParkedAt("send"))
      /\ \A u \in Task : Parked(u) => at[u] \in {"send", "recv"}
  BY <1>1, ParkedEachOnce DEF TypeOK
<1>3. Len(rx_q) < MaxTasks
  BY <1>1, <1>2, HasRoom, MsgQueueAssumption DEF TypeOK, Task
<1>4. /\ rx_q' = Append(rx_q, t) /\ tx_q' = tx_q /\ count' = count
      /\ state' = [state EXCEPT ![t] = "BLOCKED"] /\ at' = [at EXCEPT ![t] = "recv"]
  BY <1>1, <1>3, MsgQueueAssumption DEF ParkReceiver, _wq_push, Goto, TypeOK
<1>5. TypeOK'
  BY <1>1, <1>3, <1>4, MsgQueueAssumption DEF TypeOK
<1>6. Receiving' = Receiving /\ Sending' = Sending
  BY <1>1, <1>4 DEF Receiving, Sending, At, TypeOK
<1>7. Cardinality(Receiving) \in Nat /\ Cardinality(Sending) \in Nat
  <2>1. Receiving \in SUBSET Task /\ Sending \in SUBSET Task
    BY DEF Receiving, Sending
  <2> QED BY <2>1, TaskCount
<1>8. NoStrandedReceiver'
  BY <1>1, <1>4, <1>6, <1>7, MsgQueueAssumption DEF NoStrandedReceiver, TypeOK
<1>9. NoStrandedSender'
  BY <1>1, <1>4, <1>6, <1>7, MsgQueueAssumption DEF NoStrandedSender, TypeOK
<1>10. /\ ParkedAt("recv")' = ParkedAt("recv") \cup {t} /\ ParkedAt("send")' = ParkedAt("send")
       /\ \A u \in Task : Parked(u)' => at'[u] \in {"send", "recv"}
  BY <1>1, <1>2, <1>4 DEF ParkedAt, Parked, TypeOK
<1>11. EachOnce(rx_q', ParkedAt("recv")')
  BY <1>1, <1>2, <1>4, <1>10, AppendWaits DEF TypeOK
<1>12. WaitersParked'
  BY <1>2, <1>4, <1>5, <1>10, <1>11, ParkedEachOnceNext DEF TypeOK
<1> QED BY <1>5, <1>8, <1>9, <1>12 DEF QueueInv

(* A sender that still finds it full parks.                                 *)
LEMMA ParkSenderKeeps ==
  ASSUME QueueInv, NEW t \in Task, At(t, "sendSlow"), count >= capacity, ParkSender(t)
  PROVE  QueueInv'
<1>1. TypeOK /\ WaitersParked /\ NoStrandedReceiver /\ NoStrandedSender
      /\ t \notin ParkedAt("send") /\ t \notin ParkedAt("recv")
  BY DEF QueueInv, At, ParkedAt, Parked
<1>2. /\ EachOnce(tx_q, ParkedAt("send")) /\ EachOnce(rx_q, ParkedAt("recv"))
      /\ \A u \in Task : Parked(u) => at[u] \in {"send", "recv"}
  BY <1>1, ParkedEachOnce DEF TypeOK
<1>3. Len(tx_q) < MaxTasks
  BY <1>1, <1>2, HasRoom, MsgQueueAssumption DEF TypeOK, Task
<1>4. /\ tx_q' = Append(tx_q, t) /\ rx_q' = rx_q /\ count' = count
      /\ state' = [state EXCEPT ![t] = "BLOCKED"] /\ at' = [at EXCEPT ![t] = "send"]
  BY <1>1, <1>3, MsgQueueAssumption DEF ParkSender, _wq_push, Goto, TypeOK
<1>5. TypeOK'
  BY <1>1, <1>3, <1>4, MsgQueueAssumption DEF TypeOK
<1>6. Receiving' = Receiving /\ Sending' = Sending
  BY <1>1, <1>4 DEF Receiving, Sending, At, TypeOK
<1>7. Cardinality(Receiving) \in Nat /\ Cardinality(Sending) \in Nat
  <2>1. Receiving \in SUBSET Task /\ Sending \in SUBSET Task
    BY DEF Receiving, Sending
  <2> QED BY <2>1, TaskCount
<1>8. NoStrandedReceiver'
  BY <1>1, <1>4, <1>6, <1>7, MsgQueueAssumption DEF NoStrandedReceiver, TypeOK
<1>9. NoStrandedSender'
  BY <1>1, <1>4, <1>6, <1>7, MsgQueueAssumption DEF NoStrandedSender, TypeOK
<1>10. /\ ParkedAt("send")' = ParkedAt("send") \cup {t} /\ ParkedAt("recv")' = ParkedAt("recv")
       /\ \A u \in Task : Parked(u)' => at'[u] \in {"send", "recv"}
  BY <1>1, <1>2, <1>4 DEF ParkedAt, Parked, TypeOK
<1>11. EachOnce(tx_q', ParkedAt("send")')
  BY <1>1, <1>2, <1>4, <1>10, AppendWaits DEF TypeOK
<1>12. WaitersParked'
  BY <1>2, <1>4, <1>5, <1>10, <1>11, ParkedEachOnceNext DEF TypeOK
<1> QED BY <1>5, <1>8, <1>9, <1>12 DEF QueueInv

(* Nobody, or t, leaves an operation.                                       *)
LEMMA LeavesNobody == ASSUME TypeOK, UNCHANGED at, NEW from  PROVE Leaves({}, from)
BY DEF Leaves, TypeOK, Places

LEMMA LeavesOne ==
  ASSUME TypeOK, NEW t \in Task, NEW pc, At(t, pc), NEW from, pc \in from, Goto(t, "run")
  PROVE  Leaves({t}, from)
BY DEF Leaves, TypeOK, Places, At, Goto

(* Every step keeps the invariant.                                          *)
LEMMA InvNext == ASSUME QueueInv, [Next]_vars  PROVE QueueInv'
<1> DEFINE fromSend == {"run", "send", "sendSlow"}
           fromRecv == {"run", "recv", "recvSlow"}
<1>1. TypeOK
  BY DEF QueueInv
<1>2. ASSUME Enqueued, UNCHANGED at  PROVE QueueInv'
  BY <1>1, <1>2, LeavesNobody, EnqueuedKeeps
<1>3. ASSUME Dequeued, UNCHANGED at  PROVE QueueInv'
  BY <1>1, <1>3, LeavesNobody, DequeuedKeeps
<1>4. ASSUME Full \/ Empty, UNCHANGED at  PROVE QueueInv'
  BY <1>4, StutterKeeps DEF Full, Empty, queueVars
<1>5. CASE hrt_queue_try_send_from_isr \/ hrt_queue_try_recv_from_isr
  BY <1>2, <1>3, <1>4, <1>5 DEF hrt_queue_try_send_from_isr, hrt_queue_try_recv_from_isr
<1>6. ASSUME NEW t \in Task, hrt_queue_try_send(t) \/ hrt_queue_try_recv(t)  PROVE QueueInv'
  BY <1>2, <1>3, <1>4, <1>6 DEF hrt_queue_try_send, hrt_queue_try_recv
<1>7. ASSUME NEW t \in Task, hrt_queue_send(t) \/ hrt_queue_recv(t)  PROVE QueueInv'
  <2>1. \E to \in Places : at' = [at EXCEPT ![t] = to]
    BY <1>7 DEF hrt_queue_send, hrt_queue_recv, Call, Goto, Places
  <2>2. state[t] = "READY" /\ at[t] = "run" /\ UNCHANGED <<count, rx_q, tx_q, state>>
    BY <1>7 DEF hrt_queue_send, hrt_queue_recv, Call, At, queueVars
  <2> QED BY <2>1, <2>2, MoveKeeps
<1>8. ASSUME NEW t \in Task, SendTry(t)  PROVE QueueInv'
  <2>1. CASE Enqueued /\ Goto(t, "run")
    <3>1. Leaves({t}, fromSend)
      BY <1>1, <1>8, <2>1, LeavesOne DEF SendTry
    <3> QED BY <2>1, <3>1, EnqueuedKeeps
  <2>2. CASE Full /\ Goto(t, "sendSlow")
    <3>1. /\ state[t] = "READY" /\ at[t] = "send" /\ count >= capacity
          /\ UNCHANGED <<count, rx_q, tx_q, state>> /\ at' = [at EXCEPT ![t] = "sendSlow"]
      BY <1>8, <2>2 DEF SendTry, At, Full, queueVars, Goto
    <3>2. "sendSlow" \in Places
      BY DEF Places
    <3> QED BY <3>1, <3>2, MoveKeeps
  <2> QED BY <1>8, <2>1, <2>2 DEF SendTry
<1>9. ASSUME NEW t \in Task, RecvTry(t)  PROVE QueueInv'
  <2>1. CASE Dequeued /\ Goto(t, "run")
    <3>1. Leaves({t}, fromRecv)
      BY <1>1, <1>9, <2>1, LeavesOne DEF RecvTry
    <3> QED BY <2>1, <3>1, DequeuedKeeps
  <2>2. CASE Empty /\ Goto(t, "recvSlow")
    <3>1. /\ state[t] = "READY" /\ at[t] = "recv" /\ count = 0
          /\ UNCHANGED <<count, rx_q, tx_q, state>> /\ at' = [at EXCEPT ![t] = "recvSlow"]
      BY <1>9, <2>2 DEF RecvTry, At, Empty, queueVars, Goto
    <3>2. "recvSlow" \in Places
      BY DEF Places
    <3> QED BY <3>1, <3>2, MoveKeeps
  <2> QED BY <1>9, <2>1, <2>2 DEF RecvTry
<1>10. ASSUME NEW t \in Task, SendSlow(t)  PROVE QueueInv'
  <2>1. CASE Enqueued /\ Goto(t, "run")
    <3>1. Leaves({t}, fromSend)
      BY <1>1, <1>10, <2>1, LeavesOne DEF SendSlow
    <3> QED BY <2>1, <3>1, EnqueuedKeeps
  <2> QED BY <1>10, <2>1, ParkSenderKeeps DEF SendSlow
<1>11. ASSUME NEW t \in Task, RecvSlow(t)  PROVE QueueInv'
  <2>1. CASE Dequeued /\ Goto(t, "run")
    <3>1. Leaves({t}, fromRecv)
      BY <1>1, <1>11, <2>1, LeavesOne DEF RecvSlow
    <3> QED BY <2>1, <3>1, DequeuedKeeps
  <2> QED BY <1>11, <2>1, ParkReceiverKeeps DEF RecvSlow
<1>12. CASE UNCHANGED vars
  BY <1>12, StutterKeeps DEF vars, queueVars
<1> QED BY <1>5, <1>6, <1>7, <1>8, <1>9, <1>10, <1>11, <1>12 DEF Next

(* The invariant holds throughout every execution.                          *)
LEMMA QueueInvariant == Spec => []QueueInv
BY InvInit, InvNext, PTL DEF Spec

(* The number of items stays between zero and the capacity, and neither     *)
(* waiter queue outgrows the HARDRT_MAX_TASKS places _wq_push has for it.   *)
THEOREM TypeCorrect == Spec => []TypeOK
<1>1. QueueInv => TypeOK
  BY DEF QueueInv
<1> QED BY <1>1, QueueInvariant, PTL

(* No receiver stays parked in hrt_queue_recv beside an item that nobody    *)
(* awake is about to take.                                                  *)
THEOREM ReceiversNotStranded == Spec => []NoStrandedReceiver
<1>1. QueueInv => NoStrandedReceiver
  BY DEF QueueInv
<1> QED BY <1>1, QueueInvariant, PTL

(* No sender stays parked in hrt_queue_send beside a place that nobody      *)
(* awake is about to fill.                                                  *)
THEOREM SendersNotStranded == Spec => []NoStrandedSender
<1>1. QueueInv => NoStrandedSender
  BY DEF QueueInv
<1> QED BY <1>1, QueueInvariant, PTL

(* The two waiter queues are exactly the parked receivers and senders, so   *)
(* that _wq_push never drops a task.                                        *)
THEOREM WaitersAreParked == Spec => []WaitersParked
<1>1. QueueInv => WaitersParked
  BY DEF QueueInv
<1> QED BY <1>1, QueueInvariant, PTL

(* Receivers and senders never all wait for each other.                     *)
THEOREM NoDeadlock == Spec => []NoMutualWait
<1>1. ASSUME QueueInv  PROVE NoMutualWait
  <2> SUFFICES ASSUME rx_q # <<>>, tx_q # <<>>, Receiving = {}, Sending = {}  PROVE FALSE
    BY DEF NoMutualWait
  <2>1. count <= 0 /\ capacity - count <= 0
    BY <1>1, FS_EmptySet DEF QueueInv, NoStrandedReceiver, NoStrandedSender
  <2> QED BY <1>1, <2>1, MsgQueueAssumption DEF QueueInv, TypeOK
<1> QED BY <1>1, QueueInvariant, PTL

-----------------------------------------------------------------------------
(* The queue with its buffer.                                               *)

(* Each critical section of an operation is one step of the operations and  *)
(* at most one of the ring.                                                 *)
LEMMA BufferStep ==
  ASSUME [BufferNext]_bufferVars
  PROVE  [Next]_vars /\ [RingNext]_ringVars
BY DEF BufferNext, bufferVars, TrySends, TryRecvs, SlowSends, SlowRecvs, Calls, Next,
       _enqueue_cs, _dequeue_cs, RingNext

(* The item buffer of hrt_queue_t goes through the states of a ring, and    *)
(* the rest of it through those of MsgQueue: what is proved of either holds *)
(* for the two together, the order of the items included.                   *)
THEOREM BufferIsBoth == BufferSpec => Spec /\ RingSpec
<1>1. BufferInit => Init /\ RingInit
  BY DEF BufferInit
<1>2. [BufferNext]_bufferVars => [Next]_vars /\ [RingNext]_ringVars
  BY BufferStep
<1> QED BY <1>1, <1>2, PTL DEF BufferSpec, Spec, RingSpec

(* q->count as the operations see it is the number of items in the buffer:  *)
(* _enqueue_cs drops none that was reported as sent, _dequeue_cs invents    *)
(* none.                                                                    *)
THEOREM BufferCounts == BufferSpec => []BufferAgrees
<1>1. BufferInit => BufferAgrees
  BY DEF BufferInit, RingInit, EmptyRings, Init, hrt_queue_init, BufferAgrees
<1>2. TypeOK /\ BufferAgrees /\ [BufferNext]_bufferVars => BufferAgrees'
  <2> SUFFICES ASSUME TypeOK, BufferAgrees, [BufferNext]_bufferVars
               PROVE  BufferAgrees'
    OBVIOUS
  <2>1. count \in 0 .. capacity /\ capacity \in Nat /\ N = capacity /\ ring.count = count
    BY MsgQueueAssumption, BufferAssumption DEF TypeOK, BufferAgrees
  <2>2. Enqueued /\ _enqueue_cs => BufferAgrees'
    BY <2>1 DEF Enqueued, _enqueue_cs, Push, RingPush, BufferAgrees
  <2>3. count >= capacity /\ count' = count /\ _enqueue_cs => BufferAgrees'
    BY <2>1 DEF _enqueue_cs, Push, RingPush, BufferAgrees
  <2>4. Dequeued /\ _dequeue_cs => BufferAgrees'
    BY <2>1 DEF Dequeued, _dequeue_cs, Pop, RingPop, BufferAgrees
  <2>5. count = 0 /\ count' = count /\ _dequeue_cs => BufferAgrees'
    BY <2>1 DEF _dequeue_cs, Pop, RingPop, BufferAgrees
  <2>6. count' = count /\ UNCHANGED ringVars => BufferAgrees'
    BY <2>1 DEF ringVars, BufferAgrees
  <2>7. CASE TrySends
    BY <2>2, <2>3, <2>7 DEF TrySends, hrt_queue_try_send_from_isr, hrt_queue_try_send,
                            SendTry, Full, queueVars
  <2>8. CASE TryRecvs
    BY <2>4, <2>5, <2>8 DEF TryRecvs, hrt_queue_try_recv_from_isr, hrt_queue_try_recv,
                            RecvTry, Empty, queueVars
  <2>9. CASE SlowSends
    <3>1. CASE count < capacity
      BY <2>1, <2>2, <2>9, <3>1 DEF SlowSends, SendSlow
    <3>2. CASE ~ (count < capacity)
      BY <2>6, <2>9, <3>2 DEF SlowSends, SendSlow, Enqueued, ParkSender
    <3> QED BY <3>1, <3>2
  <2>10. CASE SlowRecvs
    <3>1. CASE count > 0
      BY <2>1, <2>4, <2>10, <3>1 DEF SlowRecvs, RecvSlow
    <3>2. CASE ~ (count > 0)
      BY <2>6, <2>10, <3>2 DEF SlowRecvs, RecvSlow, Dequeued, ParkReceiver
    <3> QED BY <3>1, <3>2
  <2>11. CASE Calls \/ UNCHANGED bufferVars
    BY <2>6, <2>11 DEF Calls, hrt_queue_send, hrt_queue_recv, Call, bufferVars, vars, queueVars
  <2> QED BY <2>7, <2>8, <2>9, <2>10, <2>11 DEF BufferNext
<1>3. BufferSpec => []TypeOK
  BY BufferIsBoth, TypeCorrect, PTL
<1> QED BY <1>1, <1>2, <1>3, PTL DEF BufferSpec
=============================================================================
