---------------------------- MODULE QueueProofs -----------------------------
(***************************************************************************)
(* What holds of module Queue for any finite set of producers, any         *)
(* capacity and any set of overflow policies, proved with TLAPS.           *)
(***************************************************************************)
EXTENDS Queue, FiniteSetTheorems, TLAPS

-----------------------------------------------------------------------------
(* Type correctness *)

LEMMA InitTypeOK == QueueInit => QueueTypeOK
<1> SUFFICES ASSUME QueueInit PROVE QueueTypeOK
  OBVIOUS
<1> USE DEF QueueInit
<1>1. m_buffer \in [Slot -> Record \cup {NoRecord}]
  OBVIOUS
<1>2. m_head \in Index /\ m_tail \in Index
  BY DEF Index
<1>3. m_size \in 0 .. m_capacity
  BY QueueAssumption
<1>4. /\ pc \in [Thread -> ProducerPC \cup ConsumerPC \cup CloserPC]
      /\ \A p \in Producers : pc[p] \in ProducerPC
      /\ pc[Consumer] \in ConsumerPC
      /\ pc[Closer] \in CloserPC
  BY DEF Thread, ProducerPC, ConsumerPC, CloserPC
<1>5. /\ record \in [Producers \cup {Consumer} -> Record \cup {NoRecord}]
      /\ calls \in [Producers -> 0 .. MaxPush]
  BY QueueAssumption
<1> QED
  BY <1>1, <1>2, <1>3, <1>4, <1>5 DEF QueueTypeOK, RingTypeOK, PcTypeOK

\* Only producers wait on m_not_full, and only the consumer on m_not_empty.
LEMMA Sleepers ==
  ASSUME PcTypeOK
  PROVE  /\ WaitersAt("waitNotFull") \subseteq Producers
         /\ WaitersAt("waitNotEmpty") \subseteq {Consumer}
BY DEF PcTypeOK, WaitersAt, Thread, ProducerPC, ConsumerPC, CloserPC

\* to is a control point of thread t.
Belongs(t, to) == \/ t \in Producers /\ to \in ProducerPC
                  \/ t = Consumer /\ to \in ConsumerPC
                  \/ t = Closer /\ to \in CloserPC

\* point and woken are the two ends of one of the waits.
Wait(point, woken) == \/ point = "waitNotFull" /\ woken = "push"
                      \/ point = "waitNotEmpty" /\ woken = "pop"

LEMMA MoveTypeOK ==
  ASSUME PcTypeOK, NEW t, NEW to, Belongs(t, to),
         pc' = [pc EXCEPT ![t] = to]
  PROVE  PcTypeOK'
BY QueueAssumption DEF PcTypeOK, Belongs, Thread

LEMMA NotifyOneTypeOK ==
  ASSUME PcTypeOK, NEW t, NEW to, NEW point, NEW woken,
         Belongs(t, to), Wait(point, woken), NotifyOne(t, to, point, woken)
  PROVE  PcTypeOK'
<1>1. CASE pc' = [pc EXCEPT ![t] = to]
  BY <1>1, MoveTypeOK
<1>2. ASSUME NEW w \in WaitersAt(point), pc' = [pc EXCEPT ![t] = to, ![w] = woken]
      PROVE  PcTypeOK'
  <2>1. Belongs(w, woken)
    BY Sleepers DEF Belongs, Wait, ProducerPC, ConsumerPC
  <2> QED
    BY <1>2, <2>1, QueueAssumption DEF PcTypeOK, Belongs, Thread
<1> QED
  BY <1>1, <1>2 DEF NotifyOne

LEMMA NotifyAllTypeOK ==
  ASSUME PcTypeOK, NEW t \in Thread, NEW to, NEW point, NEW woken,
         Belongs(t, to), Wait(point, woken), NotifyAll(t, to, point, woken)
  PROVE  PcTypeOK'
<1>1. \A w \in WaitersAt(point) : Belongs(w, woken)
  BY Sleepers DEF Belongs, Wait, ProducerPC, ConsumerPC
<1>2. \A s \in Thread : pc'[s] = IF s = t THEN to
                                ELSE IF s \in WaitersAt(point) THEN woken ELSE pc[s]
  BY DEF NotifyAll, WaitersAt
<1>3. pc' \in [Thread -> ProducerPC \cup ConsumerPC \cup CloserPC]
  BY <1>1 DEF NotifyAll, WaitersAt, Belongs, PcTypeOK
<1> QED
  BY <1>1, <1>2, <1>3, QueueAssumption DEF PcTypeOK, Belongs, Thread

LEMMA NextIndex ==
  ASSUME NEW i \in Index, m_capacity \in Nat, m_capacity # 0
  PROVE  (i + 1) % m_capacity \in Index
BY DEF Index, Slot

\* m_capacity and m_policy are constant, so Slot and Index are too.
LEMMA StepTypeOK == QueueTypeOK /\ [QueueNext]_queueVars => QueueTypeOK'
<1> SUFFICES ASSUME QueueTypeOK, [QueueNext]_queueVars PROVE QueueTypeOK'
  OBVIOUS
<1> USE DEF QueueTypeOK, ring, built
<1>cap. m_capacity \in Nat
  BY QueueAssumption
<1>own. Consumer \notin Producers /\ Closer \notin Producers \cup {Consumer}
  BY QueueAssumption
<1>idx. UNCHANGED built => Slot' = Slot /\ Index' = Index
  BY DEF Slot, Index
<1>ring. UNCHANGED <<ring, built>> => RingTypeOK'
  BY <1>idx DEF RingTypeOK
\* Every action moves one thread, and wakes others from the two waits only.
<1>pc. ASSUME NEW t \in Thread, NEW from, NEW to, Belongs(t, to), Step(t, from, to)
       PROVE  PcTypeOK'
  BY <1>pc, MoveTypeOK DEF Step
<1>1. ASSUME NEW p \in Producers, PushCall(p)
      PROVE  QueueTypeOK'
  <2>1. PcTypeOK'
    BY <1>1, <1>pc DEF PushCall, Belongs, ProducerPC, Thread
  <2>2. <<p, calls[p] + 1>> \in Record /\ calls[p] + 1 \in 0 .. MaxPush
    BY <1>1, QueueAssumption DEF PushCall, Record
  <2> QED
    BY <1>1, <2>1, <2>2, <1>ring DEF PushCall
<1>2. ASSUME NEW p \in Producers, PushWait(p) \/ PushRefuse(p) \/ PushTrap(p)
      PROVE  QueueTypeOK'
  <2>1. PcTypeOK'
    BY <1>2, <1>pc DEF PushWait, PushRefuse, PushTrap, Belongs, ProducerPC, Thread
  <2> QED
    BY <1>2, <2>1, <1>ring DEF PushWait, PushRefuse, PushTrap
<1>3. ASSUME NEW p \in Producers, PushStore(p)
      PROVE  QueueTypeOK'
  <2>1. PcTypeOK'
    BY <1>3, <1>pc DEF PushStore, Belongs, ProducerPC, Thread
  <2>2. RingTypeOK'
    <3>1. m_capacity # 0 /\ (m_tail + 1) % m_capacity \in Index
      BY <1>3, <1>cap, NextIndex DEF PushStore, RingTypeOK
    <3>2. m_buffer' \in [Slot -> Record \cup {NoRecord}]
      BY <1>3 DEF PushStore, StoreAtTail, RingTypeOK
    <3>3. m_size' \in 0 .. m_capacity
      BY <1>3, <1>cap DEF PushStore, RingTypeOK
    <3> QED
      BY <1>3, <1>idx, <3>1, <3>2, <3>3 DEF PushStore, StoreAtTail, RingTypeOK
  <2> QED
    BY <1>3, <2>1, <2>2 DEF PushStore, StoreAtTail
<1>4. ASSUME NEW p \in Producers, PushEvict(p)
      PROVE  QueueTypeOK'
  <2>1. PcTypeOK'
    BY <1>4, <1>pc DEF PushEvict, Belongs, ProducerPC, Thread
  <2>2. RingTypeOK'
    <3>1. (m_head + 1) % m_capacity \in Index /\ (m_tail + 1) % m_capacity \in Index
      BY <1>4, <1>cap, NextIndex DEF PushEvict, RingTypeOK
    <3>2. m_buffer' \in [Slot -> Record \cup {NoRecord}]
      BY <1>4 DEF PushEvict, StoreAtTail, RingTypeOK
    <3> QED
      BY <1>4, <1>idx, <3>1, <3>2 DEF PushEvict, StoreAtTail, RingTypeOK
  <2> QED
    BY <1>4, <2>1, <2>2 DEF PushEvict, StoreAtTail
<1>5. ASSUME NEW p \in Producers, PushNotify(p)
      PROVE  QueueTypeOK'
  <2>1. PcTypeOK'
    BY <1>5, NotifyOneTypeOK DEF PushNotify, Belongs, Wait, ProducerPC
  <2> QED
    BY <1>5, <2>1, <1>ring DEF PushNotify
<1>6. ASSUME NEW p \in Producers, PushReturn(p)
      PROVE  QueueTypeOK'
  <2>1. PcTypeOK'
    BY <1>6, MoveTypeOK DEF PushReturn, Belongs, ProducerPC
  <2> QED
    BY <1>6, <2>1, <1>ring DEF PushReturn
<1>7. ASSUME PopCall \/ PopWait \/ PopEnd
      PROVE  QueueTypeOK'
  <2>1. PcTypeOK'
    BY <1>7, <1>pc DEF PopCall, PopWait, PopEnd, Belongs, ConsumerPC, Thread
  <2> QED
    BY <1>7, <2>1, <1>ring DEF PopCall, PopWait, PopEnd
<1>8. ASSUME PopTake
      PROVE  QueueTypeOK'
  <2>1. PcTypeOK'
    BY <1>8, <1>pc DEF PopTake, Belongs, ConsumerPC, Thread
  <2>2. m_capacity # 0 /\ m_head \in Slot
    BY <1>8, <1>cap DEF PopTake, RingTypeOK, Index, Slot
  <2>3. RingTypeOK'
    <3>1. (m_head + 1) % m_capacity \in Index
      BY <1>cap, <2>2, NextIndex DEF RingTypeOK
    <3>2. m_buffer' \in [Slot -> Record \cup {NoRecord}]
      BY <1>8 DEF PopTake, RingTypeOK
    <3>3. m_size' \in 0 .. m_capacity
      BY <1>8, <1>cap DEF PopTake, RingTypeOK
    <3> QED
      BY <1>8, <1>idx, <3>1, <3>2, <3>3 DEF PopTake, RingTypeOK
  <2>4. m_buffer[m_head] \in Record \cup {NoRecord}
    BY <2>2 DEF RingTypeOK
  <2> QED
    BY <1>8, <2>1, <2>3, <2>4 DEF PopTake
<1>9. ASSUME PopNotify
      PROVE  QueueTypeOK'
  <2>1. PcTypeOK'
    BY <1>9, NotifyOneTypeOK DEF PopNotify, Belongs, Wait, ConsumerPC
  <2> QED
    BY <1>9, <2>1, <1>ring DEF PopNotify
<1>10. ASSUME PopReturn
       PROVE  QueueTypeOK'
  <2>1. PcTypeOK'
    BY <1>10, MoveTypeOK DEF PopReturn, Belongs, ConsumerPC
  <2> QED
    BY <1>10, <2>1, <1>ring DEF PopReturn
<1>11. ASSUME ShutdownFlag
       PROVE  QueueTypeOK'
  <2>1. PcTypeOK'
    BY <1>11, <1>pc DEF ShutdownFlag, Belongs, CloserPC, Thread
  <2> QED
    BY <1>11, <2>1, <1>ring DEF ShutdownFlag
<1>12. ASSUME Shutdown
       PROVE  QueueTypeOK'
  <2>1. PcTypeOK'
    BY <1>12, NotifyAllTypeOK
    DEF Shutdown, ShutdownNotifyEmpty, ShutdownNotifyFull, Belongs, Wait, CloserPC, Thread
  <2> QED
    BY <1>12, <2>1, <1>ring DEF Shutdown, ShutdownNotifyEmpty, ShutdownNotifyFull
<1>13. ASSUME NEW t \in Thread, SpuriousWake(t)
       PROVE  QueueTypeOK'
  <2>1. PcTypeOK'
    BY <1>13, <1>own, <1>pc
    DEF SpuriousWake, Step, Belongs, PcTypeOK, Thread, ProducerPC, ConsumerPC, CloserPC
  <2> QED
    BY <1>13, <2>1, <1>ring DEF SpuriousWake
<1>14. CASE UNCHANGED queueVars
  BY <1>14, <1>ring DEF queueVars, PcTypeOK
<1> QED
  BY <1>1, <1>2, <1>3, <1>4, <1>5, <1>6, <1>7, <1>8, <1>9, <1>10, <1>11, <1>12,
     <1>13, <1>14
  DEF QueueNext, Push, Pop

\* Every variable of the queue keeps its type; in particular m_head and m_tail
\* stay inside the buffer and m_size within the capacity.
THEOREM TypeCorrect == QueueSpec => []QueueTypeOK
BY InitTypeOK, StepTypeOK, PTL DEF QueueSpec

-----------------------------------------------------------------------------
(* No lost wakeup *)

LEMMA TestingFinite ==
  ASSUME PcTypeOK
  PROVE  /\ Testing \subseteq Producers
         /\ IsFiniteSet(Testing)
         /\ Cardinality(Testing) \in Nat
         /\ Cardinality(Testing) = 0 <=> Testing = {}
<1>1. Testing \subseteq Producers
  BY DEF PcTypeOK, Testing, WaitersAt, Thread, ProducerPC, ConsumerPC, CloserPC
<1>2. IsFiniteSet(Testing)
  BY <1>1, FS_Subset, QueueAssumption
<1> QED
  BY <1>1, <1>2, FS_CardinalityType, FS_EmptySet

LEMMA OneMoreTesting ==
  ASSUME PcTypeOK, PcTypeOK', NEW p \in Producers,
         pc[p] # "push", Testing' = Testing \cup {p}
  PROVE  Cardinality(Testing') = Cardinality(Testing) + 1
BY TestingFinite, FS_AddElement DEF Testing, WaitersAt

LEMMA OneLessTesting ==
  ASSUME PcTypeOK, PcTypeOK', NEW p \in Producers,
         pc[p] = "push", Testing' = Testing \ {p}
  PROVE  Cardinality(Testing') = Cardinality(Testing) - 1 /\ Cardinality(Testing) # 0
<1>1. p \in Testing
  BY DEF Testing, WaitersAt, Thread
<1> QED
  BY <1>1, TestingFinite, FS_RemoveElement

\* The inductive invariant: only Block makes producers wait, the flag and the
\* closer agree, and every sleeper is covered by a wakeup on its way.
WakeupInv ==
  /\ QueueTypeOK
  /\ Waiting # {} => m_policy = "Block"
  /\ m_shutdown <=> pc[Closer] # "idle"
  /\ WakeupsCoverFreeSlots
  /\ RecordAnnounced
  /\ ShutdownAnnounced

LEMMA WakeupInit == QueueInit => WakeupInv
<1> SUFFICES ASSUME QueueInit PROVE WakeupInv
  OBVIOUS
<1>1. QueueTypeOK
  BY InitTypeOK
<1>2. Waiting = {}
  BY DEF QueueInit, Waiting, WaitersAt
<1> QED
  BY <1>1, <1>2
  DEF WakeupInv, QueueInit, WakeupsCoverFreeSlots, RecordAnnounced, ShutdownAnnounced, Thread

LEMMA WakeupStep == WakeupInv /\ [QueueNext]_queueVars => WakeupInv'
<1> SUFFICES ASSUME WakeupInv, [QueueNext]_queueVars PROVE WakeupInv'
  OBVIOUS
<1>type. QueueTypeOK /\ QueueTypeOK' /\ PcTypeOK /\ PcTypeOK'
  BY StepTypeOK DEF WakeupInv, QueueTypeOK
<1>own. /\ Consumer \notin Producers /\ Closer \notin Producers \cup {Consumer}
        /\ Thread = Producers \cup {Consumer, Closer}
  BY QueueAssumption DEF Thread
<1>num. m_capacity \in Nat /\ m_size \in 0 .. m_capacity
  BY <1>type, QueueAssumption DEF QueueTypeOK, RingTypeOK
<1>card. Cardinality(Testing) \in Nat
  BY <1>type, TestingFinite
<1> USE DEF WakeupInv, Waiting, ring, built
\* Steps of a producer up to its return move that producer only.
<1>1. ASSUME NEW p \in Producers, PushCall(p)
      PROVE  WakeupInv'
  <2>1. pc[p] = "idle" /\ pc'[p] = "push" /\ \A t \in Thread : t # p => pc'[t] = pc[t]
    BY <1>1, <1>type, <1>own DEF PushCall, Step, PcTypeOK
  <2>2. Waiting' = Waiting /\ Testing' = Testing \cup {p}
    BY <1>own, <2>1 DEF WaitersAt, Testing
  <2>3. Cardinality(Testing') = Cardinality(Testing) + 1
    BY <1>type, <2>1, <2>2, OneMoreTesting
  <2>4. \A q \in Producers : pc[q] = "notifyNotEmpty" => pc'[q] = "notifyNotEmpty"
    BY <1>own, <2>1
  <2> QED
    BY <1>1, <1>type, <1>own, <1>num, <1>card, <2>1, <2>2, <2>3, <2>4
    DEF PushCall, WakeupsCoverFreeSlots, RecordAnnounced, ShutdownAnnounced
<1>2. ASSUME NEW p \in Producers, PushWait(p)
      PROVE  WakeupInv'
  <2>1. \A t \in Thread : t # p => pc'[t] = pc[t]
    BY <1>2, <1>type DEF PushWait, Step, PcTypeOK
  <2>2. \A q \in Producers : pc[q] = "notifyNotEmpty" => pc'[q] = "notifyNotEmpty"
    BY <1>2, <1>own, <2>1 DEF PushWait, Step
  <2>3. Testing' = Testing \ {p} /\ pc[p] = "push"
    BY <1>2, <1>own, <1>type, <2>1 DEF PushWait, Step, WaitersAt, Testing, PcTypeOK
  <2>4. Cardinality(Testing') = Cardinality(Testing) - 1 /\ Cardinality(Testing) # 0
    BY <1>type, <2>3, OneLessTesting
  <2> QED
    BY <1>2, <1>type, <1>own, <1>num, <1>card, <2>1, <2>2, <2>4
    DEF PushWait, WakeupsCoverFreeSlots, RecordAnnounced, ShutdownAnnounced
<1>3. ASSUME NEW p \in Producers, PushRefuse(p) \/ PushTrap(p)
      PROVE  WakeupInv'
  <2>1. /\ pc[p] = "push" /\ pc'[p] # "waitNotFull"
        /\ \A t \in Thread : t # p => pc'[t] = pc[t]
    BY <1>3, <1>type, <1>own DEF PushRefuse, PushTrap, Step, PcTypeOK
  <2>2. Waiting' = Waiting
    BY <1>own, <2>1 DEF WaitersAt
  <2>3. \A q \in Producers : pc[q] = "notifyNotEmpty" => pc'[q] = "notifyNotEmpty"
    BY <1>own, <2>1
  <2> QED
    BY <1>3, <1>type, <1>own, <2>1, <2>2, <2>3
    DEF PushRefuse, PushTrap, WakeupsCoverFreeSlots, RecordAnnounced, ShutdownAnnounced
<1>4. ASSUME NEW p \in Producers, PushStore(p) \/ PushEvict(p)
      PROVE  WakeupInv'
  <2>1. /\ pc[p] = "push" /\ pc'[p] = "notifyNotEmpty"
        /\ \A t \in Thread : t # p => pc'[t] = pc[t]
    BY <1>4, <1>type, <1>own DEF PushStore, PushEvict, Step, PcTypeOK
  <2>2. Waiting' = Waiting /\ Testing' = Testing \ {p}
    BY <1>own, <2>1 DEF WaitersAt, Testing
  <2>3. Cardinality(Testing') = Cardinality(Testing) - 1
    BY <1>type, <2>1, <2>2, OneLessTesting
  <2>4. UNCHANGED <<m_capacity, m_policy, m_shutdown>>
    BY <1>4 DEF PushStore, PushEvict, StoreAtTail
  <2>5. m_size' = m_size + 1 \/ m_policy = "DropOldest"
    BY <1>4 DEF PushStore, PushEvict
  <2> QED
    BY <1>own, <1>num, <1>card, <1>type, <2>1, <2>2, <2>3, <2>4, <2>5
    DEF WakeupsCoverFreeSlots, RecordAnnounced, ShutdownAnnounced
<1>5. ASSUME NEW p \in Producers, PushNotify(p)
      PROVE  WakeupInv'
  <2>1. /\ pc'[p] = "returnTrue" /\ pc'[Consumer] # "waitNotEmpty"
        /\ pc[Consumer] = "notifyNotFull" => pc'[Consumer] = "notifyNotFull"
        /\ pc'[Closer] = pc[Closer]
        /\ \A t \in Producers : t # p => pc'[t] = pc[t]
    BY <1>5, <1>type, <1>own, Sleepers DEF PushNotify, NotifyOne, WaitersAt, PcTypeOK
  <2>2. Waiting' = Waiting /\ Testing' = Testing
    BY <1>5, <1>type, <1>own, <2>1, Sleepers, TestingFinite
    DEF PushNotify, WaitersAt, Testing, PcTypeOK, Thread, ConsumerPC
  <2> QED
    BY <1>5, <1>type, <1>own, <1>num, <1>card, <2>1, <2>2
    DEF PushNotify, WakeupsCoverFreeSlots, RecordAnnounced, ShutdownAnnounced
<1>6. ASSUME NEW p \in Producers, PushReturn(p)
      PROVE  WakeupInv'
  <2>1. /\ pc[p] \in {"returnTrue", "returnFalse"} /\ pc'[p] = "idle"
        /\ \A t \in Thread : t # p => pc'[t] = pc[t]
    BY <1>6, <1>type, <1>own DEF PushReturn, PcTypeOK
  <2>2. Waiting' = Waiting /\ Testing' = Testing
    BY <1>own, <2>1 DEF WaitersAt, Testing
  <2>3. \A q \in Producers : pc[q] = "notifyNotEmpty" => pc'[q] = "notifyNotEmpty"
    BY <1>own, <2>1
  <2> QED
    BY <1>6, <1>type, <1>own, <2>1, <2>2, <2>3
    DEF PushReturn, WakeupsCoverFreeSlots, RecordAnnounced, ShutdownAnnounced
<1>7. ASSUME PopCall \/ PopWait \/ PopEnd \/ PopTake \/ PopReturn
      PROVE  WakeupInv'
  <2>1. pc[Consumer] # "notifyNotFull" /\ \E to : pc' = [pc EXCEPT ![Consumer] = to]
    BY <1>7 DEF PopCall, PopWait, PopEnd, PopTake, PopReturn, Step
  <2>2. \A t \in Thread : t # Consumer => pc'[t] = pc[t]
    BY <2>1, <1>type DEF PcTypeOK
  <2>3. Waiting' = Waiting /\ Testing' = Testing
    BY <1>type, <1>own, <2>2 DEF WaitersAt, Testing, PcTypeOK, ConsumerPC
  <2>4. UNCHANGED <<m_capacity, m_policy, m_shutdown>>
    BY <1>7 DEF PopCall, PopWait, PopEnd, PopTake, PopReturn
  <2>5. \/ m_size' = m_size
        \/ m_size' = m_size - 1 /\ pc'[Consumer] = "notifyNotFull"
    BY <1>7, <1>type, <1>own DEF PopCall, PopWait, PopEnd, PopTake, PopReturn, Step, PcTypeOK
  <2>6. WakeupsCoverFreeSlots'
    BY <1>num, <1>card, <2>1, <2>3, <2>4, <2>5 DEF WakeupsCoverFreeSlots
  <2>7. pc'[Consumer] = "waitNotEmpty" => m_size' = 0 /\ ~m_shutdown
    BY <1>7, <1>type, <1>own, <1>num
    DEF PopCall, PopWait, PopEnd, PopTake, PopReturn, Step, PcTypeOK
  <2> QED
    BY <1>type, <1>own, <2>2, <2>3, <2>4, <2>6, <2>7 DEF RecordAnnounced, ShutdownAnnounced
<1>8. ASSUME PopNotify
      PROVE  WakeupInv'
  <2>1. CASE Waiting = {}
    <3>1. pc'[Consumer] = "returnTrue" /\ \A t \in Thread : t # Consumer => pc'[t] = pc[t]
      BY <1>8, <1>type, <1>own, <2>1 DEF PopNotify, NotifyOne, PcTypeOK
    <3>2. Waiting' = {}
      BY <1>own, <2>1, <3>1 DEF WaitersAt
    <3> QED
      BY <1>8, <1>type, <1>own, <3>1, <3>2
      DEF PopNotify, WakeupsCoverFreeSlots, RecordAnnounced, ShutdownAnnounced
  <2>2. ASSUME NEW w \in Waiting, pc' = [pc EXCEPT ![Consumer] = "returnTrue", ![w] = "push"]
        PROVE  WakeupInv'
    <3>1. w \in Producers /\ pc[w] = "waitNotFull"
      BY <1>type, Sleepers DEF WaitersAt
    <3>2. pc'[Consumer] = "returnTrue" /\ pc'[w] = "push"
          /\ \A t \in Thread : t \notin {Consumer, w} => pc'[t] = pc[t]
      BY <1>type, <1>own, <2>2, <3>1 DEF PcTypeOK
    <3>3. Testing' = Testing \cup {w} /\ Waiting' \subseteq Waiting
      BY <1>8, <1>own, <3>1, <3>2 DEF PopNotify, Testing, WaitersAt
    <3>4. Cardinality(Testing') = Cardinality(Testing) + 1
      BY <1>type, <3>1, <3>3, OneMoreTesting
    <3> QED
      BY <1>8, <1>type, <1>own, <1>num, <1>card, <3>1, <3>2, <3>3, <3>4
      DEF PopNotify, WakeupsCoverFreeSlots, RecordAnnounced, ShutdownAnnounced
  <2> QED
    BY <1>8, <2>1, <2>2 DEF PopNotify, NotifyOne
<1>9. ASSUME ShutdownFlag
      PROVE  WakeupInv'
  <2>1. /\ pc[Closer] = "idle" /\ pc'[Closer] = "notifyAllNotEmpty"
        /\ \A t \in Thread : t # Closer => pc'[t] = pc[t]
    BY <1>9, <1>type, <1>own DEF ShutdownFlag, Step, PcTypeOK
  <2>2. Waiting' = Waiting
    BY <1>own, <2>1 DEF WaitersAt
  <2> QED
    BY <1>9, <1>type, <1>own, <2>1, <2>2
    DEF ShutdownFlag, WakeupsCoverFreeSlots, RecordAnnounced, ShutdownAnnounced
<1>10. ASSUME ShutdownNotifyEmpty
       PROVE  WakeupInv'
  <2>1. /\ pc'[Closer] = "notifyAllNotFull"
        /\ pc'[Consumer] # "waitNotEmpty"
        /\ \A t \in Producers : pc'[t] = pc[t]
    BY <1>10, <1>type, <1>own DEF ShutdownNotifyEmpty, NotifyAll, PcTypeOK, ProducerPC
  <2>2. Waiting' = Waiting
    BY <1>type, <1>own, <2>1, Sleepers DEF WaitersAt, PcTypeOK, ConsumerPC, CloserPC
  <2> QED
    BY <1>10, <1>type, <1>own, <2>1, <2>2
    DEF ShutdownNotifyEmpty, WakeupsCoverFreeSlots, RecordAnnounced, ShutdownAnnounced
<1>11. ASSUME ShutdownNotifyFull
       PROVE  WakeupInv'
  <2>1. /\ pc'[Closer] = "closed"
        /\ pc'[Consumer] = pc[Consumer]
        /\ \A t \in Thread : pc'[t] # "waitNotFull"
    BY <1>11, <1>type, <1>own DEF ShutdownNotifyFull, NotifyAll, PcTypeOK, ConsumerPC
  <2>2. Waiting' = {}
    BY <2>1 DEF WaitersAt
  <2> QED
    BY <1>11, <1>type, <1>own, <2>1, <2>2
    DEF ShutdownNotifyFull, WakeupsCoverFreeSlots, RecordAnnounced, ShutdownAnnounced
<1>12. ASSUME NEW t \in Thread, SpuriousWake(t)
       PROVE  WakeupInv'
  <2>1. CASE Step(t, "waitNotFull", "push")
    <3>1. t \in Producers
      BY <1>type, <2>1, Sleepers DEF Step, WaitersAt
    <3>2. pc'[t] = "push" /\ \A s \in Thread : s # t => pc'[s] = pc[s]
      BY <1>type, <2>1 DEF Step, PcTypeOK
    <3>3. Testing' = Testing \cup {t} /\ Waiting' \subseteq Waiting /\ pc[t] # "push"
      BY <2>1, <3>2 DEF Step, Testing, WaitersAt
    <3>4. Cardinality(Testing') = Cardinality(Testing) + 1
      BY <1>type, <3>1, <3>3, OneMoreTesting
    <3>5. \A q \in Producers : pc[q] = "notifyNotEmpty" => pc'[q] = "notifyNotEmpty"
      BY <1>own, <2>1, <3>2 DEF Step
    <3> QED
      BY <1>12, <1>type, <1>own, <1>num, <1>card, <3>1, <3>2, <3>3, <3>4, <3>5
      DEF SpuriousWake, WakeupsCoverFreeSlots, RecordAnnounced, ShutdownAnnounced
  <2>2. CASE Step(t, "waitNotEmpty", "pop")
    <3>1. t = Consumer
      BY <1>type, <2>2, Sleepers DEF Step, WaitersAt
    <3>2. pc'[Consumer] = "pop" /\ \A s \in Thread : s # Consumer => pc'[s] = pc[s]
      BY <1>type, <1>own, <2>2, <3>1 DEF Step, PcTypeOK
    <3>3. Waiting' = Waiting /\ Testing' = Testing /\ pc[Consumer] = "waitNotEmpty"
      BY <2>2, <3>1, <3>2 DEF Step, Testing, WaitersAt
    <3> QED
      BY <1>12, <1>type, <1>own, <3>2, <3>3
      DEF SpuriousWake, WakeupsCoverFreeSlots, RecordAnnounced, ShutdownAnnounced
  <2> QED
    BY <1>12, <2>1, <2>2 DEF SpuriousWake
<1>13. CASE UNCHANGED queueVars
  BY <1>13, <1>type
  DEF queueVars, WaitersAt, Testing, WakeupsCoverFreeSlots, RecordAnnounced, ShutdownAnnounced
<1> QED
  BY <1>1, <1>2, <1>3, <1>4, <1>5, <1>6, <1>7, <1>8, <1>9, <1>10, <1>11, <1>12, <1>13
  DEF QueueNext, Push, Pop, Shutdown

\* What NoLostWakeup says of producers follows from the count.
LEMMA CoverImpliesAnnounced == WakeupInv => NoLostWakeup
<1> SUFFICES ASSUME WakeupInv PROVE FreeSlotAnnounced
  BY DEF WakeupInv, NoLostWakeup
<1>1. Cardinality(Testing) = 0 <=> Testing = {}
  BY TestingFinite DEF WakeupInv, QueueTypeOK
<1>2. m_capacity \in Nat /\ m_size \in 0 .. m_capacity
  BY QueueAssumption DEF WakeupInv, QueueTypeOK, RingTypeOK
<1> QED
  BY <1>1, <1>2 DEF WakeupInv, WakeupsCoverFreeSlots, FreeSlotAnnounced

LEMMA WakeupInvariant == QueueSpec => []WakeupInv
BY WakeupInit, WakeupStep, PTL DEF QueueSpec

\* The producers about to test the predicate and the notification the consumer
\* owes cover the free slots (push and pop, queue.cpp).
THEOREM FreeSlotsCovered == QueueSpec => []WakeupsCoverFreeSlots
<1>1. WakeupInv => WakeupsCoverFreeSlots
  BY DEF WakeupInv
<1> QED
  BY <1>1, WakeupInvariant, PTL

\* No wakeup of push, pop or shutdown is lost, for any number of producers and
\* any capacity, although each notification is sent after the unlock.
THEOREM WakeupsNotLost == QueueSpec => []NoLostWakeup
BY CoverImpliesAnnounced, WakeupInvariant, PTL

-----------------------------------------------------------------------------
(* The ring *)

\* Walking round the ring: from h, the k-th slot for k below the capacity.
LEMMA Around ==
  ASSUME NEW C \in Nat \ {0}, NEW h \in 0 .. C - 1, NEW k \in 0 .. C
  PROVE  (h + k) % C = IF h + k < C THEN h + k ELSE h + k - C
OBVIOUS

LEMMA AroundNext ==
  ASSUME NEW C \in Nat \ {0}, NEW h \in 0 .. C - 1, NEW k \in 0 .. C - 1
  PROVE  /\ (((h + k) % C) + 1) % C = (h + (k + 1)) % C
         /\ (((h + 1) % C) + k) % C = (h + (k + 1)) % C
OBVIOUS

\* Different steps lead to different slots ...
LEMMA AroundInjective ==
  ASSUME NEW C \in Nat \ {0}, NEW h \in 0 .. C - 1,
         NEW j \in 0 .. C - 1, NEW k \in 0 .. C - 1
  PROVE  /\ (h + j) % C = (h + k) % C => j = k
         /\ (h + k) % C \in 0 .. C - 1
OBVIOUS

\* ... and the full circle leads back.
LEMMA FullCircle ==
  ASSUME NEW C \in Nat \ {0}, NEW h \in 0 .. C - 1
  PROVE  /\ (h + C) % C = h /\ (h + 0) % C = h
         /\ (h + 1) % C \in 0 .. C - 1
         /\ \A k \in 1 .. C - 1 : (h + k) % C # h
OBVIOUS

\* The full circle visits every slot.
LEMMA AroundSurjective ==
  ASSUME NEW C \in Nat \ {0}, NEW h \in 0 .. C - 1, NEW i \in 0 .. C - 1
  PROVE  \E k \in 0 .. C - 1 : i = (h + k) % C
<1> DEFINE k == IF i >= h THEN i - h ELSE i - h + C
<1>1. k \in 0 .. C - 1 /\ i = (h + k) % C
  OBVIOUS
<1> QED
  BY <1>1

\* A producer that has not stored its record yet still holds it, and it is the
\* record of its latest call.
Pushing == {"push", "waitNotFull", "trap"}

PushersHold == \A p \in Producers :
  pc[p] \in Pushing => record[p] \in Record /\ record[p] = <<p, calls[p]>>

\* A producer begins to push only in PushCall; otherwise it keeps its record,
\* and stays outside push if it is.
LEMMA PushingStep ==
  ASSUME QueueTypeOK, [QueueNext]_queueVars, NEW q \in Producers
  PROVE  /\ \/ PushCall(q)
            \/ /\ calls'[q] = calls[q]
               /\ pc[q] = "idle" => pc'[q] = "idle"
               /\ pc'[q] \in Pushing => pc[q] \in Pushing /\ record'[q] = record[q]
         /\ PushCall(q) => /\ pc[q] \notin Pushing
                           /\ calls'[q] = calls[q] + 1
                           /\ record'[q] = <<q, calls'[q]>> /\ record'[q] \in Record
<1> DEFINE Keeps == /\ calls'[q] = calls[q]
                    /\ pc[q] = "idle" => pc'[q] = "idle"
                    /\ pc'[q] \in Pushing => pc[q] \in Pushing /\ record'[q] = record[q]
<1> USE DEF Pushing
<1>type. /\ PcTypeOK
         /\ record \in [Producers \cup {Consumer} -> Record \cup {NoRecord}]
         /\ calls \in [Producers -> 0 .. MaxPush]
  BY DEF QueueTypeOK
<1>own. /\ Consumer \notin Producers /\ Closer \notin Producers \cup {Consumer}
        /\ Thread = Producers \cup {Consumer, Closer}
  BY QueueAssumption DEF Thread
<1>1. ASSUME PushCall(q)
      PROVE  /\ pc[q] \notin Pushing
             /\ calls'[q] = calls[q] + 1
             /\ record'[q] = <<q, calls'[q]>> /\ record'[q] \in Record
  <2>1. <<q, calls[q] + 1>> \in Record
    BY <1>1, <1>type, QueueAssumption DEF PushCall, Record
  <2>2. pc[q] = "idle" /\ calls'[q] = calls[q] + 1 /\ record'[q] = <<q, calls[q] + 1>>
    BY <1>1, <1>type DEF PushCall, Step
  <2> QED
    BY <2>1, <2>2
<1>2. ASSUME NEW p \in Producers, PushCall(p), p # q
      PROVE  Keeps
  BY <1>2, <1>type DEF PushCall, Step, PcTypeOK
<1>3. ASSUME NEW p \in Producers, Push(p) \/ PushReturn(p)
      PROVE  Keeps
  <2>1. CASE PushWait(p) \/ PushRefuse(p) \/ PushTrap(p)
    BY <1>type, <1>own, <2>1 DEF PushWait, PushRefuse, PushTrap, Step, PcTypeOK
  <2>2. CASE PushStore(p) \/ PushEvict(p)
    BY <1>type, <1>own, <2>2 DEF PushStore, PushEvict, StoreAtTail, Step, PcTypeOK
  <2>3. CASE PushNotify(p)
    BY <1>type, <1>own, <2>3, Sleepers DEF PushNotify, NotifyOne, PcTypeOK
  <2>4. CASE PushReturn(p)
    BY <1>type, <2>4 DEF PushReturn, PcTypeOK
  <2> QED
    BY <1>3, <2>1, <2>2, <2>3, <2>4 DEF Push
<1>4. ASSUME PopCall \/ Pop \/ PopReturn
      PROVE  Keeps
  <2>1. CASE PopCall \/ PopWait \/ PopEnd \/ PopTake \/ PopReturn
    BY <1>type, <1>own, <2>1
    DEF PopCall, PopWait, PopEnd, PopTake, PopReturn, Step, PcTypeOK
  <2>2. CASE PopNotify
    BY <1>type, <1>own, <2>2 DEF PopNotify, NotifyOne, WaitersAt, PcTypeOK
  <2> QED
    BY <1>4, <2>1, <2>2 DEF Pop
<1>5. ASSUME ShutdownFlag \/ Shutdown
      PROVE  Keeps
  BY <1>5, <1>type, <1>own
  DEF ShutdownFlag, Shutdown, ShutdownNotifyEmpty, ShutdownNotifyFull, NotifyAll, Step,
      PcTypeOK, ProducerPC
<1>6. ASSUME NEW t \in Thread, SpuriousWake(t)
      PROVE  Keeps
  BY <1>6, <1>type, <1>own DEF SpuriousWake, Step, PcTypeOK, ProducerPC
<1>7. ASSUME UNCHANGED queueVars
      PROVE  Keeps
  BY <1>7 DEF queueVars
<1>8. PushCall(q) \/ Keeps
  BY <1>2, <1>3, <1>4, <1>5, <1>6, <1>7 DEF QueueNext
<1> QED
  BY <1>1, <1>8

LEMMA PushersHoldStep ==
  QueueTypeOK /\ PushersHold /\ [QueueNext]_queueVars => PushersHold'
BY PushingStep DEF PushersHold

RingInv == QueueTypeOK /\ PushersHold /\ RingCoherent

LEMMA RingInit == QueueInit => RingInv
<1> SUFFICES ASSUME QueueInit PROVE RingInv
  OBVIOUS
<1>1. QueueTypeOK
  BY InitTypeOK
<1>2. PushersHold
  BY DEF QueueInit, PushersHold, Pushing, Thread
<1>3. RingCoherent
  BY <1>1, QueueAssumption DEF QueueInit, QueueTypeOK, RingCoherent, Live, Slot
<1> QED
  BY <1>1, <1>2, <1>3 DEF RingInv

LEMMA RingStep == RingInv /\ [QueueNext]_queueVars => RingInv'
<1> SUFFICES ASSUME RingInv, [QueueNext]_queueVars PROVE RingCoherent'
  BY StepTypeOK, PushersHoldStep DEF RingInv
<1> USE DEF ring, built
<1>type. QueueTypeOK /\ RingTypeOK /\ m_capacity \in Nat /\ NoRecord \notin Record
  BY QueueAssumption DEF RingInv, QueueTypeOK, Record
<1>same. ASSUME UNCHANGED <<ring, built>> PROVE RingCoherent'
  BY <1>same DEF RingInv, RingCoherent, Live, Slot
\* With at least one slot, in the notation of the lemmas above.
<1>coh. ASSUME m_capacity # 0
        PROVE  /\ m_capacity \in Nat \ {0}
               /\ m_head \in 0 .. m_capacity - 1 /\ m_tail \in 0 .. m_capacity - 1
               /\ m_size \in 0 .. m_capacity
               /\ m_buffer \in [0 .. m_capacity - 1 -> Record \cup {NoRecord}]
               /\ m_tail = (m_head + m_size) % m_capacity
               /\ \A i \in 0 .. m_capacity - 1 : m_buffer[i] # NoRecord <=> Live(i)
  BY <1>coh, <1>type DEF RingInv, RingTypeOK, RingCoherent, Slot, Index
<1>1. ASSUME NEW p \in Producers, PushStore(p)
      PROVE  RingCoherent'
  <2>1. m_capacity # 0 /\ m_size \in 0 .. m_capacity - 1
    BY <1>1, <1>type DEF PushStore, RingTypeOK
  <2>2. record[p] # NoRecord
    BY <1>1, <1>type DEF PushStore, Step, RingInv, PushersHold, Pushing
  <2>3. /\ m_buffer' = [m_buffer EXCEPT ![m_tail] = record[p]]
        /\ m_tail' = (m_tail + 1) % m_capacity
        /\ m_head' = m_head /\ m_size' = m_size + 1 /\ m_capacity' = m_capacity
    BY <1>1 DEF PushStore, StoreAtTail
  <2>4. m_tail' = (m_head' + m_size') % m_capacity'
    BY <1>coh, <2>1, <2>3, AroundNext
  <2>5. ASSUME NEW i \in 0 .. m_capacity - 1
        PROVE  m_buffer'[i] # NoRecord <=> Live(i)'
    <3>1. Live(i)' <=> \E k \in 0 .. m_size : i = (m_head + k) % m_capacity
      <4>1. (m_size + 1) - 1 = m_size
        BY <2>1
      <4> QED
        BY <2>3, <4>1 DEF Live
    <3>2. 0 .. m_size = (0 .. m_size - 1) \cup {m_size}
      BY <2>1
    <3>3. Live(i)' <=> Live(i) \/ i = m_tail
      BY <1>coh, <3>1, <3>2 DEF Live
    <3> QED
      BY <1>coh, <2>1, <2>2, <2>3, <3>3
  <2> QED
    BY <2>3, <2>4, <2>5 DEF RingCoherent, Slot
<1>2. ASSUME NEW p \in Producers, PushEvict(p)
      PROVE  RingCoherent'
  <2>1. m_capacity # 0 /\ m_size = m_capacity
    BY <1>2 DEF PushEvict
  <2>2. record[p] # NoRecord
    BY <1>2, <1>type DEF PushEvict, Step, RingInv, PushersHold, Pushing
  <2>3. /\ m_buffer' = [m_buffer EXCEPT ![m_tail] = record[p]]
        /\ m_tail' = (m_tail + 1) % m_capacity
        /\ m_head' = (m_head + 1) % m_capacity
        /\ m_size' = m_size /\ m_capacity' = m_capacity
    BY <1>2 DEF PushEvict, StoreAtTail
  <2>4. m_tail = m_head /\ m_head' \in 0 .. m_capacity - 1
    BY <1>coh, <2>1, <2>3, FullCircle
  <2>5. m_tail' = (m_head' + m_size') % m_capacity'
    BY <1>coh, <2>1, <2>3, <2>4, FullCircle
  <2>6. ASSUME NEW i \in 0 .. m_capacity - 1
        PROVE  m_buffer'[i] # NoRecord /\ Live(i)'
    <3>1. Live(i)
      BY <1>coh, <2>1, AroundSurjective DEF Live
    <3>2. \E k \in 0 .. m_capacity - 1 : i = (m_head' + k) % m_capacity
      BY <1>coh, <2>1, <2>4, AroundSurjective
    <3>3. Live(i)'
      BY <2>1, <2>3, <3>2 DEF Live
    <3> QED
      BY <1>coh, <2>1, <2>2, <2>3, <3>1, <3>3
  <2> QED
    BY <2>3, <2>5, <2>6 DEF RingCoherent, Slot
<1>3. ASSUME PopTake
      PROVE  RingCoherent'
  <2>1. m_capacity # 0 /\ m_size \in 1 .. m_capacity
    BY <1>3, <1>type DEF PopTake, RingTypeOK
  <2>2. /\ m_buffer' = [m_buffer EXCEPT ![m_head] = NoRecord]
        /\ m_head' = (m_head + 1) % m_capacity
        /\ m_tail' = m_tail /\ m_size' = m_size - 1 /\ m_capacity' = m_capacity
    BY <1>3 DEF PopTake
  <2>3. \A k \in 0 .. m_capacity - 1 :
          (m_head' + k) % m_capacity = (m_head + (k + 1)) % m_capacity
    BY <1>coh, <2>1, <2>2, AroundNext
  <2>4. m_tail' = (m_head' + m_size') % m_capacity'
    BY <1>coh, <2>1, <2>2, <2>3
  <2>5. ASSUME NEW i \in 0 .. m_capacity - 1
        PROVE  m_buffer'[i] # NoRecord <=> Live(i)'
    <3>1. Live(i)' <=> \E k \in 1 .. m_size - 1 : i = (m_head + k) % m_capacity
      <4>1. ASSUME Live(i)'
            PROVE  \E k \in 1 .. m_size - 1 : i = (m_head + k) % m_capacity
        <5>1. PICK k \in 0 .. m_size - 2 : i = (m_head' + k) % m_capacity
          BY <2>1, <2>2, <4>1 DEF Live
        <5>2. k + 1 \in 1 .. m_size - 1 /\ i = (m_head + (k + 1)) % m_capacity
          BY <1>coh, <2>1, <2>3, <5>1
        <5> QED
          BY <5>2
      <4>2. ASSUME NEW k \in 1 .. m_size - 1, i = (m_head + k) % m_capacity
            PROVE  Live(i)'
        <5>1. k - 1 \in 0 .. m_size' - 1 /\ i = (m_head' + (k - 1)) % m_capacity'
          BY <1>coh, <2>1, <2>2, <2>3, <4>2
        <5> QED
          BY <5>1 DEF Live
      <4> QED
        BY <4>1, <4>2
    <3>2. Live(i) <=> i = m_head \/ Live(i)'
      <4>1. (m_head + 0) % m_capacity = m_head
        BY <1>coh, <2>1, FullCircle
      <4>2. \A k : k \in 0 .. m_size - 1 <=> k = 0 \/ k \in 1 .. m_size - 1
        BY <2>1
      <4>3. Live(i) <=> i = m_head \/ \E k \in 1 .. m_size - 1 : i = (m_head + k) % m_capacity
        BY <4>1, <4>2 DEF Live
      <4> QED
        BY <3>1, <4>3
    <3>3. i = m_head => ~Live(i)'
      <4>1. \A k \in 1 .. m_capacity - 1 : (m_head + k) % m_capacity # m_head
        BY <1>coh, <2>1, FullCircle
      <4>2. \A k \in 1 .. m_size - 1 : k \in 1 .. m_capacity - 1
        BY <1>type, <2>1
      <4> QED
        BY <3>1, <4>1, <4>2
    <3> QED
      BY <1>coh, <2>1, <2>2, <3>2, <3>3
  <2> QED
    BY <2>2, <2>4, <2>5 DEF RingCoherent, Slot
<1>4. ASSUME NEW p \in Producers, PushCall(p) \/ PushWait(p) \/ PushRefuse(p)
                \/ PushTrap(p) \/ PushNotify(p) \/ PushReturn(p)
      PROVE  RingCoherent'
  BY <1>4, <1>same DEF PushCall, PushWait, PushRefuse, PushTrap, PushNotify, PushReturn
<1>5. ASSUME PopCall \/ PopWait \/ PopEnd \/ PopNotify \/ PopReturn
      PROVE  RingCoherent'
  BY <1>5, <1>same DEF PopCall, PopWait, PopEnd, PopNotify, PopReturn
<1>6. ASSUME ShutdownFlag \/ Shutdown
      PROVE  RingCoherent'
  BY <1>6, <1>same DEF ShutdownFlag, Shutdown, ShutdownNotifyEmpty, ShutdownNotifyFull
<1>7. ASSUME NEW t \in Thread, SpuriousWake(t)
      PROVE  RingCoherent'
  BY <1>7, <1>same DEF SpuriousWake
<1>8. CASE UNCHANGED queueVars
  BY <1>8, <1>same DEF queueVars
<1> QED
  BY <1>1, <1>2, <1>3, <1>4, <1>5, <1>6, <1>7, <1>8 DEF QueueNext, Push, Pop

LEMMA RingInvariant == QueueSpec => []RingInv
BY RingInit, RingStep, PTL DEF QueueSpec

\* For every capacity, the ring's indexes agree and exactly the m_size slots
\* from m_head on hold records: push overwrites no queued record and pop reads
\* no empty slot (push and pop, queue.cpp).
THEOREM RingStaysCoherent == QueueSpec => []RingCoherent
<1>1. RingInv => RingCoherent
  BY DEF RingInv
<1> QED
  BY <1>1, RingInvariant, PTL

=============================================================================
