-------------------------- MODULE QueueRefinement ---------------------------
(***************************************************************************)
(* Module Queue implements module LogChannel: every step of the ring, the  *)
(* mutex and the condition variables is a step of the abstract channel or  *)
(* leaves what its callers see unchanged.                                  *)
(***************************************************************************)
EXTENDS QueueProofs, SequenceTheorems

-----------------------------------------------------------------------------
(* The queued records as a sequence *)

ContentsIsSeq ==
  /\ Contents \in Seq(Record \cup {NoRecord})
  /\ Len(Contents) = m_size
  /\ \A i \in 1 .. m_size : Contents[i] = m_buffer[(m_head + (i - 1)) % m_capacity]

LEMMA ContentsSeq == RingInv => ContentsIsSeq
<1> SUFFICES ASSUME RingInv PROVE ContentsIsSeq
  OBVIOUS
<1>1. m_size \in Nat /\ m_capacity \in Nat
  BY QueueAssumption DEF RingInv, QueueTypeOK, RingTypeOK
<1>2. ASSUME NEW i \in 1 .. m_size
      PROVE  /\ m_head + i - 1 = m_head + (i - 1)
             /\ m_buffer[(m_head + (i - 1)) % m_capacity] \in Record \cup {NoRecord}
  <2>1. m_capacity \in Nat \ {0} /\ m_head \in 0 .. m_capacity - 1 /\ i - 1 \in 0 .. m_capacity - 1
    BY <1>1, <1>2 DEF RingInv, QueueTypeOK, RingTypeOK, Index, Slot
  <2>2. (m_head + (i - 1)) % m_capacity \in Slot
    BY <2>1, AroundInjective DEF Slot
  <2> QED
    BY <2>1, <2>2 DEF RingInv, QueueTypeOK, RingTypeOK
<1>3. Contents \in [1 .. m_size -> Record \cup {NoRecord}]
  BY <1>2 DEF Contents
<1> QED
  BY <1>1, <1>2, <1>3 DEF Contents, ContentsIsSeq

\* The ring invariant of a queue with slots, in plain terms.
LEMMA RingFacts ==
  ASSUME RingInv, m_capacity # 0
  PROVE  /\ m_capacity \in Nat \ {0} /\ m_size \in 0 .. m_capacity
         /\ m_head \in 0 .. m_capacity - 1
         /\ m_tail = (m_head + m_size) % m_capacity
         /\ m_buffer \in [0 .. m_capacity - 1 -> Record \cup {NoRecord}]
         /\ record \in [Producers \cup {Consumer} -> Record \cup {NoRecord}]
<1>1. QueueTypeOK /\ RingCoherent
  BY DEF RingInv
<1>2. m_capacity \in Nat \ {0}
  BY <1>1, QueueAssumption DEF QueueTypeOK
<1>3. Slot = 0 .. m_capacity - 1 /\ Index = Slot
  BY <1>2 DEF Slot, Index
<1>4. m_tail = (m_head + m_size) % m_capacity
  BY <1>1 DEF RingCoherent
<1> QED
  BY <1>1, <1>2, <1>3, <1>4 DEF QueueTypeOK, RingTypeOK

LEMMA StoreAppends ==
  ASSUME RingInv, RingInv', NEW p \in Producers, PushStore(p)
  PROVE  Contents' = Append(Contents, record[p])
<1> DEFINE S == Record \cup {NoRecord}
<1>1. /\ m_capacity \in Nat \ {0} /\ m_size \in 0 .. m_capacity - 1
      /\ m_head \in 0 .. m_capacity - 1
      /\ m_tail = (m_head + m_size) % m_capacity
      /\ m_buffer \in [0 .. m_capacity - 1 -> S]
      /\ record[p] \in S
  <2>1. m_size < m_capacity /\ m_size \in Nat /\ m_capacity \in Nat
    BY QueueAssumption DEF PushStore, RingInv, QueueTypeOK, RingTypeOK
  <2>2. m_capacity # 0
    BY <2>1
  <2> QED
    BY <2>1, <2>2, RingFacts
<1>2. /\ m_buffer' = [m_buffer EXCEPT ![m_tail] = record[p]]
      /\ m_head' = m_head /\ m_size' = m_size + 1 /\ m_capacity' = m_capacity
  BY DEF PushStore, StoreAtTail, built
<1>3. ContentsIsSeq /\ ContentsIsSeq'
  BY ContentsSeq, PTL
<1>4. /\ Contents \in Seq(S) /\ Len(Contents) = m_size
      /\ \A i \in 1 .. m_size :
           Contents[i] = m_buffer[(m_head + (i - 1)) % m_capacity]
      /\ Contents' \in Seq(S) /\ Len(Contents') = m_size + 1
      /\ \A i \in 1 .. m_size + 1 :
           Contents'[i] = m_buffer'[(m_head + (i - 1)) % m_capacity]
  BY <1>2, <1>3 DEF ContentsIsSeq
<1>5. ASSUME NEW i \in 1 .. m_size
      PROVE  Contents'[i] = Contents[i]
  <2>1. i - 1 \in 0 .. m_capacity - 1 /\ i - 1 # m_size
    BY <1>1
  <2>2. m_size \in 0 .. m_capacity - 1
    BY <1>1
  <2>3. /\ (m_head + (i - 1)) % m_capacity # m_tail
        /\ (m_head + (i - 1)) % m_capacity \in 0 .. m_capacity - 1
    <3>1. /\ (m_head + (i - 1)) % m_capacity = (m_head + m_size) % m_capacity
               => i - 1 = m_size
          /\ (m_head + (i - 1)) % m_capacity \in 0 .. m_capacity - 1
      BY <1>1, <2>1, <2>2, AroundInjective
    <3> QED
      BY <1>1, <2>1, <3>1
  <2>4. i \in 1 .. m_size + 1
    BY <1>1
  <2> QED
    BY <1>1, <1>2, <1>4, <2>3, <2>4
<1>6. Contents'[m_size + 1] = record[p]
  <2>1. m_size + 1 \in 1 .. m_size + 1 /\ (m_size + 1) - 1 = m_size
    BY <1>1
  <2>2. m_tail \in 0 .. m_capacity - 1
    BY <1>1, AroundInjective
  <2> QED
    BY <1>1, <1>2, <1>4, <2>1, <2>2
<1>7. /\ Append(Contents, record[p]) \in Seq(S)
      /\ Len(Append(Contents, record[p])) = m_size + 1
      /\ \A i \in 1 .. m_size : Append(Contents, record[p])[i] = Contents[i]
      /\ Append(Contents, record[p])[m_size + 1] = record[p]
  BY <1>1, <1>4, AppendProperties
<1>8. \A i \in 1 .. m_size + 1 : Contents'[i] = Append(Contents, record[p])[i]
  BY <1>1, <1>5, <1>6, <1>7
<1> QED
  BY <1>4, <1>7, <1>8, SeqEqual

LEMMA TakeIsHead ==
  ASSUME RingInv, RingInv', PopTake
  PROVE  /\ Contents # <<>>
         /\ record'[Consumer] = Head(Contents)
         /\ Contents' = Tail(Contents)
<1> DEFINE S == Record \cup {NoRecord}
<1>1. /\ m_capacity \in Nat \ {0} /\ m_size \in 1 .. m_capacity
      /\ m_head \in 0 .. m_capacity - 1
      /\ m_buffer \in [0 .. m_capacity - 1 -> S]
      /\ record \in [Producers \cup {Consumer} -> S]
  <2>1. m_size > 0 /\ m_size \in 0 .. m_capacity /\ m_capacity \in Nat
    BY QueueAssumption DEF PopTake, RingInv, QueueTypeOK, RingTypeOK
  <2>2. m_capacity # 0
    BY <2>1
  <2> QED
    BY <2>1, <2>2, RingFacts
<1>2. /\ record'[Consumer] = m_buffer[m_head]
      /\ m_buffer' = [m_buffer EXCEPT ![m_head] = NoRecord]
      /\ m_head' = (m_head + 1) % m_capacity
      /\ m_size' = m_size - 1 /\ m_capacity' = m_capacity
  BY <1>1 DEF PopTake, built
<1>3. ContentsIsSeq /\ ContentsIsSeq'
  BY ContentsSeq, PTL
<1>4. /\ Contents \in Seq(S) /\ Len(Contents) = m_size
      /\ \A i \in 1 .. m_size :
           Contents[i] = m_buffer[(m_head + (i - 1)) % m_capacity]
      /\ Contents' \in Seq(S) /\ Len(Contents') = m_size - 1
      /\ \A i \in 1 .. m_size - 1 :
           Contents'[i] = m_buffer'[(m_head' + (i - 1)) % m_capacity]
  BY <1>2, <1>3 DEF ContentsIsSeq
<1>5. Contents # <<>>
  BY <1>1, <1>4, EmptySeq
<1>6. Head(Contents) = m_buffer[m_head]
  <2>1. m_head + (1 - 1) = m_head /\ 1 \in 1 .. m_size
    BY <1>1
  <2>2. m_head % m_capacity = m_head
    BY <1>1
  <2>3. Contents[1] = m_buffer[m_head]
    BY <1>4, <2>1, <2>2
  <2> QED
    BY <1>4, <1>5, <2>3
<1>7. ASSUME NEW i \in 1 .. m_size - 1
      PROVE  Contents'[i] = Contents[i + 1]
  <2>1. i - 1 \in 0 .. m_capacity - 1 /\ i \in 1 .. m_capacity - 1
        /\ i + 1 \in 1 .. m_size /\ (i - 1) + 1 = i /\ (i + 1) - 1 = i
    BY <1>1
  <2>2. (m_head' + (i - 1)) % m_capacity = (m_head + i) % m_capacity
    BY <1>1, <1>2, <2>1, AroundNext
  <2>3. (m_head + i) % m_capacity # m_head
    <3>1. \A k \in 1 .. m_capacity - 1 : (m_head + k) % m_capacity # m_head
      BY <1>1, FullCircle
    <3> QED
      BY <2>1, <3>1
  <2>4. (m_head + i) % m_capacity \in 0 .. m_capacity - 1
    BY <1>1, <2>1, Around
  <2>5. Contents[i + 1] = m_buffer[(m_head + i) % m_capacity]
    BY <1>4, <2>1
  <2>6. Contents'[i] = m_buffer'[(m_head + i) % m_capacity]
    BY <1>4, <2>2
  <2> QED
    BY <1>1, <1>2, <2>3, <2>4, <2>5, <2>6
<1>8. /\ Tail(Contents) \in Seq(S) /\ Len(Tail(Contents)) = m_size - 1
      /\ \A i \in 1 .. m_size - 1 : Tail(Contents)[i] = Contents[i + 1]
  BY <1>4, <1>5, HeadTailProperties
<1>9. Contents' = Tail(Contents)
  BY <1>4, <1>7, <1>8, SeqEqual
<1> QED
  BY <1>2, <1>5, <1>6, <1>9

LEMMA EvictReplaces ==
  ASSUME RingInv, RingInv', NEW p \in Producers, PushEvict(p)
  PROVE  /\ Contents # <<>>
         /\ Contents' = Append(Tail(Contents), record[p])
<1> DEFINE S == Record \cup {NoRecord}
<1>1. /\ m_capacity \in Nat \ {0} /\ m_size = m_capacity
      /\ m_head \in 0 .. m_capacity - 1
      /\ m_tail = (m_head + m_size) % m_capacity
      /\ m_buffer \in [0 .. m_capacity - 1 -> S]
      /\ record[p] \in S
  <2>1. m_capacity # 0 /\ m_size = m_capacity
    BY DEF PushEvict
  <2> QED
    BY <2>1, RingFacts
<1>2. m_tail = m_head
  BY <1>1, FullCircle
<1>3. /\ m_buffer' = [m_buffer EXCEPT ![m_head] = record[p]]
      /\ m_head' = (m_head + 1) % m_capacity
      /\ m_size' = m_size /\ m_capacity' = m_capacity
  BY <1>2 DEF PushEvict, StoreAtTail, built
<1>4. ContentsIsSeq /\ ContentsIsSeq'
  BY ContentsSeq, PTL
<1>5. /\ Contents \in Seq(S) /\ Len(Contents) = m_size
      /\ \A i \in 1 .. m_size :
           Contents[i] = m_buffer[(m_head + (i - 1)) % m_capacity]
      /\ Contents' \in Seq(S) /\ Len(Contents') = m_size
      /\ \A i \in 1 .. m_size :
           Contents'[i] = m_buffer'[(m_head' + (i - 1)) % m_capacity]
  BY <1>3, <1>4 DEF ContentsIsSeq
<1>6. Contents # <<>>
  BY <1>1, <1>5, EmptySeq
<1>7. ASSUME NEW i \in 1 .. m_size
      PROVE  (m_head' + (i - 1)) % m_capacity = (m_head + i) % m_capacity
  <2>1. i - 1 \in 0 .. m_capacity - 1 /\ (i - 1) + 1 = i
    BY <1>1
  <2> QED
    BY <1>1, <1>3, <2>1, AroundNext
<1>8. ASSUME NEW i \in 1 .. m_size - 1
      PROVE  Contents'[i] = Contents[i + 1]
  <2>1. i \in 1 .. m_size /\ i \in 1 .. m_capacity - 1 /\ i + 1 \in 1 .. m_size /\ (i + 1) - 1 = i
    BY <1>1
  <2>2. (m_head + i) % m_capacity # m_head
    <3>1. \A k \in 1 .. m_capacity - 1 : (m_head + k) % m_capacity # m_head
      BY <1>1, FullCircle
    <3> QED
      BY <2>1, <3>1
  <2>3. (m_head + i) % m_capacity \in 0 .. m_capacity - 1
    <3>1. i \in 0 .. m_capacity - 1
      BY <1>1, <2>1
    <3> QED
      BY <1>1, <3>1, AroundInjective
  <2>4. Contents[i + 1] = m_buffer[(m_head + i) % m_capacity]
    BY <1>5, <2>1
  <2>5. Contents'[i] = m_buffer'[(m_head + i) % m_capacity]
    BY <1>5, <1>7, <2>1
  <2> QED
    BY <1>1, <1>3, <2>2, <2>3, <2>4, <2>5
<1>9. Contents'[m_size] = record[p]
  <2>1. m_size \in 1 .. m_size /\ (m_head + m_size) % m_capacity = m_head
    BY <1>1, <1>2
  <2>2. Contents'[m_size] = m_buffer'[(m_head' + (m_size - 1)) % m_capacity]
    BY <1>5, <2>1
  <2>3. Contents'[m_size] = m_buffer'[m_head]
    BY <1>7, <2>1, <2>2
  <2> QED
    BY <1>1, <1>3, <2>3
<1>10. /\ Tail(Contents) \in Seq(S) /\ Len(Tail(Contents)) = m_size - 1
       /\ \A i \in 1 .. m_size - 1 : Tail(Contents)[i] = Contents[i + 1]
  BY <1>5, <1>6, HeadTailProperties
<1> DEFINE A == Append(Tail(Contents), record[p])
<1>11. /\ A \in Seq(S) /\ Len(A) = m_size
       /\ \A i \in 1 .. m_size - 1 : A[i] = Tail(Contents)[i]
       /\ A[m_size] = record[p]
  <2>1. (m_size - 1) + 1 = m_size
    BY <1>1
  <2> QED
    BY <1>1, <1>10, <2>1, AppendProperties
<1>12. \A i \in 1 .. m_size : Contents'[i] = A[i]
  BY <1>1, <1>8, <1>9, <1>10, <1>11
<1> QED
  BY <1>5, <1>6, <1>11, <1>12, SeqEqual

-----------------------------------------------------------------------------
(* The callers' view *)

\* A step that changes nothing of producer q changes nothing of its view.
LEMMA ProducerView ==
  ASSUME NEW p \in Producers,
         \A q \in Producers : q # p => pc'[q] = pc[q] /\ record'[q] = record[q]
  PROVE  /\ Offers' = [Offers EXCEPT ![p] = Offers'[p]]
         /\ Verdicts' = [Verdicts EXCEPT ![p] = Verdicts'[p]]
BY DEF Offers, Verdicts

\* Nor does a wakeup: a sleeper and a thread testing its predicate look alike.
LEMMA SameView ==
  ASSUME \A q \in Producers : /\ record'[q] = record[q]
                              /\ \/ pc'[q] = pc[q]
                                 \/ pc[q] = "waitNotFull" /\ pc'[q] = "push"
  PROVE  Offers' = Offers /\ Verdicts' = Verdicts
BY DEF Offers, Verdicts

\* notify_one moves its caller and at most one sleeper.
LEMMA NotifyOneEffect ==
  ASSUME PcTypeOK, NEW t \in Thread, NEW to, NEW point, NEW woken,
         pc[t] # point, NotifyOne(t, to, point, woken)
  PROVE  /\ pc'[t] = to
         /\ \A s \in Thread : s # t => \/ pc'[s] = pc[s]
                                       \/ pc[s] = point /\ pc'[s] = woken
<1> DEFINE PC == ProducerPC \cup ConsumerPC \cup CloserPC
<1>1. pc \in [Thread -> PC]
  BY DEF PcTypeOK
<1> HIDE DEF PC
<1>2. CASE pc' = [pc EXCEPT ![t] = to]
  BY <1>1, <1>2
<1>3. ASSUME NEW w \in Thread, pc[w] = point, pc' = [pc EXCEPT ![t] = to, ![w] = woken]
      PROVE  /\ pc'[t] = to
             /\ \A s \in Thread : s # t => \/ pc'[s] = pc[s]
                                           \/ pc[s] = point /\ pc'[s] = woken
  BY <1>1, <1>3
<1> QED
  BY <1>2, <1>3 DEF NotifyOne, WaitersAt

LEMMA ImplementsInit == QueueInit => Channel!Init
<1> SUFFICES ASSUME QueueInit PROVE Channel!Init
  OBVIOUS
<1>1. Contents = <<>>
  BY DEF QueueInit, Contents
<1>2. Offers = [p \in Producers |-> NoRecord] /\ Verdicts = [p \in Producers |-> "none"]
  BY DEF QueueInit, Offers, Verdicts, Thread
<1>3. Outcome = "none" /\ record[Consumer] = NoRecord
  BY DEF QueueInit, Outcome, Thread
<1> QED
  BY <1>1, <1>2, <1>3 DEF QueueInit, Channel!Init

LEMMA ImplementsStep ==
  RingInv /\ RingInv' /\ WakeupInv /\ [QueueNext]_queueVars
    => [Channel!Next]_(Channel!vars)
<1> SUFFICES ASSUME RingInv, RingInv', WakeupInv, [QueueNext]_queueVars
             PROVE  Channel!Next \/ UNCHANGED Channel!vars
  OBVIOUS
<1> USE DEF ring, built
<1>type. /\ QueueTypeOK /\ PcTypeOK
         /\ record \in [Producers \cup {Consumer} -> Record \cup {NoRecord}]
         /\ NoRecord \notin Record
  BY QueueAssumption DEF RingInv, QueueTypeOK, Record
<1>own. /\ Consumer \notin Producers /\ Closer \notin Producers \cup {Consumer}
        /\ Thread = Producers \cup {Consumer, Closer}
  BY QueueAssumption DEF Thread
<1>len. Len(Contents) = m_size
  BY ContentsSeq DEF ContentsIsSeq
<1>same. UNCHANGED <<ring, built>> => Contents' = Contents
  BY DEF Contents
<1>out. pc'[Consumer] = pc[Consumer] => Outcome' = Outcome
  BY DEF Outcome
\* A producer moves; the others and the consumer keep their view.
<1>move. ASSUME NEW p \in Producers, NEW to, pc' = [pc EXCEPT ![p] = to],
                \A t \in Producers \cup {Consumer} : t # p => record'[t] = record[t]
         PROVE  /\ pc'[p] = to
                /\ Offers' = [Offers EXCEPT ![p] = Offers'[p]]
                /\ Verdicts' = [Verdicts EXCEPT ![p] = Verdicts'[p]]
                /\ Outcome' = Outcome /\ record'[Consumer] = record[Consumer]
  <2>1. pc'[p] = to /\ \A t \in Thread : t # p => pc'[t] = pc[t]
    BY <1>move, <1>type, <1>own DEF PcTypeOK
  <2> QED
    BY <1>move, <1>own, <1>out, <2>1, ProducerView
<1>1. ASSUME NEW p \in Producers, PushCall(p)
      PROVE  Channel!Next
  <2> DEFINE r == <<p, calls[p] + 1>>
  <2>1. r \in Record
    BY <1>1, QueueAssumption, <1>type DEF PushCall, Record, QueueTypeOK
  <2>2. /\ pc[p] = "idle" /\ pc' = [pc EXCEPT ![p] = "push"] /\ record'[p] = r
        /\ \A t \in Producers \cup {Consumer} : t # p => record'[t] = record[t]
    BY <1>1, <1>type, <1>own DEF PushCall, Step
  <2>3. /\ pc'[p] = "push"
        /\ Offers' = [Offers EXCEPT ![p] = Offers'[p]]
        /\ Verdicts' = [Verdicts EXCEPT ![p] = Verdicts'[p]]
        /\ Outcome' = Outcome /\ record'[Consumer] = record[Consumer]
    BY <1>move, <2>2
  <2>4. Offers[p] = NoRecord /\ Offers'[p] = r /\ Verdicts[p] = "none" /\ Verdicts'[p] = "none"
    BY <2>2, <2>3 DEF Offers, Verdicts
  <2>5. Offers' = [Offers EXCEPT ![p] = r] /\ Verdicts' = Verdicts
    BY <2>3, <2>4 DEF Verdicts
  <2>6. Channel!Offer(p, r)
    BY <1>1, <1>same, <2>3, <2>4, <2>5 DEF PushCall, Channel!Offer
  <2> QED
    BY <2>1, <2>6 DEF Channel!Next
<1>2. ASSUME NEW p \in Producers, PushWait(p) \/ PushTrap(p)
      PROVE  UNCHANGED Channel!vars
  <2>1. PICK to \in {"waitNotFull", "trap"} : pc[p] = "push" /\ pc' = [pc EXCEPT ![p] = to]
    BY <1>2 DEF PushWait, PushTrap, Step
  <2>2. record' = record
    BY <1>2 DEF PushWait, PushTrap
  <2>3. /\ pc'[p] = to
        /\ Offers' = [Offers EXCEPT ![p] = Offers'[p]]
        /\ Verdicts' = [Verdicts EXCEPT ![p] = Verdicts'[p]]
        /\ Outcome' = Outcome /\ record'[Consumer] = record[Consumer]
    BY <1>move, <2>1, <2>2
  <2>4. Offers'[p] = Offers[p] /\ Verdicts'[p] = Verdicts[p]
    BY <2>1, <2>2, <2>3 DEF Offers, Verdicts
  <2>5. Offers' = Offers
    BY <2>3, <2>4 DEF Offers
  <2>6. Verdicts' = Verdicts
    BY <2>3, <2>4 DEF Verdicts
  <2> QED
    BY <1>2, <1>same, <2>3, <2>5, <2>6 DEF PushWait, PushTrap, Channel!vars
<1>3. ASSUME NEW p \in Producers, PushRefuse(p)
      PROVE  Channel!Next
  <2>1. pc[p] = "push" /\ pc' = [pc EXCEPT ![p] = "returnFalse"] /\ record' = record
    BY <1>3 DEF PushRefuse, Step
  <2>2. /\ pc'[p] = "returnFalse"
        /\ Offers' = [Offers EXCEPT ![p] = Offers'[p]]
        /\ Verdicts' = [Verdicts EXCEPT ![p] = Verdicts'[p]]
        /\ Outcome' = Outcome /\ record'[Consumer] = record[Consumer]
    BY <1>move, <2>1
  <2>3. Offers[p] # NoRecord /\ Offers'[p] = NoRecord /\ Verdicts'[p] = "refused"
    BY <1>type, <2>1, <2>2 DEF Offers, Verdicts, RingInv, PushersHold, Pushing
  <2>4. Channel!Refuse(p)
    BY <1>3, <1>len, <1>same, <2>2, <2>3 DEF PushRefuse, Channel!Refuse, Channel!Answer
  <2> QED
    BY <2>4 DEF Channel!Next
<1>4. ASSUME NEW p \in Producers, PushStore(p) \/ PushEvict(p)
      PROVE  Channel!Next
  <2>1. pc[p] = "push" /\ pc' = [pc EXCEPT ![p] = "notifyNotEmpty"]
        /\ \A t \in Producers \cup {Consumer} : t # p => record'[t] = record[t]
    BY <1>4, <1>type DEF PushStore, PushEvict, StoreAtTail, Step
  <2>2. /\ pc'[p] = "notifyNotEmpty"
        /\ Offers' = [Offers EXCEPT ![p] = Offers'[p]]
        /\ Verdicts' = [Verdicts EXCEPT ![p] = Verdicts'[p]]
        /\ Outcome' = Outcome /\ record'[Consumer] = record[Consumer]
    BY <1>move, <2>1
  <2>3. /\ Offers[p] = record[p] /\ Offers[p] # NoRecord
        /\ Offers'[p] = NoRecord /\ Verdicts'[p] = "accepted"
    BY <1>type, <2>1, <2>2 DEF Offers, Verdicts, RingInv, PushersHold, Pushing
  <2>4. Channel!Answer(p, "accepted")
    BY <1>4, <2>2, <2>3 DEF PushStore, PushEvict, StoreAtTail, Channel!Answer
  <2>5. CASE PushStore(p)
    <3>1. Contents' = Append(Contents, Offers[p])
      BY <2>3, <2>5, StoreAppends
    <3>2. Channel!Accept(p)
      BY <1>len, <2>4, <2>5, <3>1 DEF PushStore, Channel!Accept
    <3> QED
      BY <3>2 DEF Channel!Next
  <2>6. CASE PushEvict(p)
    <3>1. Contents' = Append(Tail(Contents), Offers[p])
      BY <2>3, <2>6, EvictReplaces
    <3>2. Channel!Replace(p)
      BY <1>len, <2>4, <2>6, <3>1 DEF PushEvict, Channel!Replace
    <3> QED
      BY <3>2 DEF Channel!Next
  <2> QED
    BY <1>4, <2>5, <2>6
<1>5. ASSUME NEW p \in Producers, PushNotify(p)
      PROVE  UNCHANGED Channel!vars
  <2>1. /\ pc[p] = "notifyNotEmpty" /\ pc'[p] = "returnTrue"
        /\ \A q \in Producers : q # p => pc'[q] = pc[q]
        /\ \/ pc'[Consumer] = pc[Consumer]
           \/ pc[Consumer] = "waitNotEmpty" /\ pc'[Consumer] = "pop"
    BY <1>5, <1>type, <1>own, Sleepers DEF PushNotify, NotifyOne, WaitersAt, PcTypeOK
  <2>2. record' = record
    BY <1>5 DEF PushNotify
  <2>3. Offers' = Offers /\ Verdicts' = Verdicts
    BY <2>1, <2>2 DEF Offers, Verdicts
  <2>4. Outcome' = Outcome
    BY <2>1 DEF Outcome
  <2> QED
    BY <1>5, <1>same, <2>2, <2>3, <2>4 DEF PushNotify, Channel!vars
<1>6. ASSUME NEW p \in Producers, PushReturn(p)
      PROVE  Channel!Next
  <2>1. pc[p] \in {"returnTrue", "returnFalse"} /\ pc' = [pc EXCEPT ![p] = "idle"]
        /\ \A t \in Producers \cup {Consumer} : t # p => record'[t] = record[t]
    BY <1>6, <1>type DEF PushReturn
  <2>2. /\ pc'[p] = "idle"
        /\ Offers' = [Offers EXCEPT ![p] = Offers'[p]]
        /\ Verdicts' = [Verdicts EXCEPT ![p] = Verdicts'[p]]
        /\ Outcome' = Outcome /\ record'[Consumer] = record[Consumer]
    BY <1>move, <2>1
  <2>3. Offers'[p] = Offers[p] /\ Verdicts[p] # "none" /\ Verdicts'[p] = "none"
    BY <2>1, <2>2 DEF Offers, Verdicts
  <2>4. Offers' = Offers
    BY <2>2, <2>3 DEF Offers
  <2>5. Channel!Acknowledge(p)
    BY <1>6, <1>same, <2>2, <2>3, <2>4 DEF PushReturn, Channel!Acknowledge
  <2> QED
    BY <2>5 DEF Channel!Next
\* The consumer moves and wakes at most a producer.
<1>7. ASSUME PopCall \/ PopWait \/ PopEnd \/ PopTake \/ PopReturn \/ PopNotify
      PROVE  Channel!Next \/ UNCHANGED Channel!vars
  <2>1. Offers' = Offers /\ Verdicts' = Verdicts
    <3>1. \A q \in Producers : record'[q] = record[q]
      BY <1>7, <1>type, <1>own DEF PopCall, PopWait, PopEnd, PopTake, PopReturn, PopNotify
    <3>2. CASE PopCall \/ PopWait \/ PopEnd \/ PopTake \/ PopReturn
      <4>1. \A q \in Producers : pc'[q] = pc[q]
        BY <1>type, <1>own, <3>2
        DEF PopCall, PopWait, PopEnd, PopTake, PopReturn, Step, PcTypeOK
      <4> QED
        BY <3>1, <4>1, SameView
    <3>3. CASE PopNotify
      <4>1. \A q \in Thread : q # Consumer => \/ pc'[q] = pc[q]
                                              \/ pc[q] = "waitNotFull" /\ pc'[q] = "push"
        <5>1. /\ Consumer \in Thread /\ pc[Consumer] # "waitNotFull"
              /\ NotifyOne(Consumer, "returnTrue", "waitNotFull", "push")
          BY <1>own, <3>3 DEF PopNotify
        <5> QED
          BY <1>type, <5>1, NotifyOneEffect
      <4>2. \A q \in Producers : q \in Thread /\ q # Consumer
        BY <1>own
      <4> QED
        BY <3>1, <4>1, <4>2, SameView
    <3> QED
      BY <1>7, <3>2, <3>3
  <2>2. CASE PopCall \/ PopWait \/ PopNotify
    <3>1. Outcome' = Outcome
      <4>1. CASE PopCall \/ PopWait
        <5>1. pc[Consumer] \in {"idle", "pop"} /\ pc'[Consumer] \in {"pop", "waitNotEmpty"}
          BY <1>type, <1>own, <4>1 DEF PopCall, PopWait, Step, PcTypeOK
        <5> QED
          BY <5>1 DEF Outcome
      <4>2. CASE PopNotify
        <5>1. pc[Consumer] = "notifyNotFull" /\ pc'[Consumer] = "returnTrue"
          BY <1>type, <1>own, <4>2, NotifyOneEffect DEF PopNotify
        <5> QED
          BY <5>1 DEF Outcome
      <4> QED
        BY <2>2, <4>1, <4>2
    <3> QED
      BY <1>same, <2>1, <2>2, <3>1 DEF PopCall, PopWait, PopNotify, Channel!vars
  <2>3. CASE PopEnd
    <3>1. pc[Consumer] = "pop" /\ pc'[Consumer] = "returnFalse"
      BY <1>type, <1>own, <2>3 DEF PopEnd, Step, PcTypeOK
    <3>2. Outcome = "none" /\ Outcome' = "end"
      BY <3>1 DEF Outcome
    <3>3. Contents = <<>>
      BY <2>3 DEF PopEnd, Contents
    <3>4. Channel!EndOfStream
      BY <1>same, <2>1, <2>3, <3>2, <3>3 DEF PopEnd, Channel!EndOfStream
    <3> QED
      BY <3>4 DEF Channel!Next
  <2>4. CASE PopTake
    <3>1. pc[Consumer] = "pop" /\ pc'[Consumer] = "notifyNotFull"
      BY <1>type, <1>own, <2>4 DEF PopTake, Step, PcTypeOK
    <3>2. Outcome = "none" /\ Outcome' = "record"
      BY <3>1 DEF Outcome
    <3>3. Channel!Take
      BY <2>1, <2>4, <3>2, TakeIsHead DEF PopTake, Channel!Take
    <3> QED
      BY <3>3 DEF Channel!Next
  <2>5. CASE PopReturn
    <3>1. pc[Consumer] \in {"returnTrue", "returnFalse"} /\ pc'[Consumer] = "idle"
      BY <1>type, <1>own, <2>5 DEF PopReturn, PcTypeOK
    <3>2. Outcome # "none" /\ Outcome' = "none"
      BY <3>1 DEF Outcome
    <3>3. Channel!TakeAgain
      BY <1>same, <2>1, <2>5, <3>2 DEF PopReturn, Channel!TakeAgain
    <3> QED
      BY <3>3 DEF Channel!Next
  <2> QED
    BY <1>7, <2>2, <2>3, <2>4, <2>5
<1>8. ASSUME ShutdownFlag
      PROVE  Channel!Next
  <2>1. pc[Closer] = "idle" /\ \A t \in Thread : t # Closer => pc'[t] = pc[t]
    BY <1>8, <1>type, <1>own DEF ShutdownFlag, Step, PcTypeOK
  <2>2. ~m_shutdown /\ m_shutdown'
    BY <1>8, <2>1 DEF ShutdownFlag, WakeupInv
  <2>3. Offers' = Offers /\ Verdicts' = Verdicts /\ Outcome' = Outcome
    BY <1>8, <1>own, <1>out, <2>1, SameView DEF ShutdownFlag
  <2>4. Channel!Close
    BY <1>8, <1>same, <2>2, <2>3 DEF ShutdownFlag, Channel!Close
  <2> QED
    BY <2>4 DEF Channel!Next
\* The closer and the spurious wakeups only move sleepers to their predicates.
<1>9. ASSUME Shutdown \/ \E t \in Thread : SpuriousWake(t)
      PROVE  UNCHANGED Channel!vars
  <2> DEFINE Producer(q) == pc'[q] = pc[q] \/ (pc[q] = "waitNotFull" /\ pc'[q] = "push")
             Popper == \/ pc'[Consumer] = pc[Consumer]
                       \/ (pc[Consumer] = "waitNotEmpty" /\ pc'[Consumer] = "pop")
  <2>a. /\ pc[Consumer] # "waitNotFull"
        /\ \A q \in Producers : pc[q] # "waitNotEmpty"
    BY <1>type DEF PcTypeOK, ProducerPC, ConsumerPC
  <2>1. ASSUME ShutdownNotifyEmpty
        PROVE  (\A q \in Producers : Producer(q)) /\ Popper
    <3>1. pc' = [s \in Thread |-> IF s = Closer THEN "notifyAllNotFull"
                                  ELSE IF pc[s] = "waitNotEmpty" THEN "pop" ELSE pc[s]]
      BY <2>1 DEF ShutdownNotifyEmpty, NotifyAll
    <3>2. ASSUME NEW q \in Producers PROVE Producer(q)
      BY <1>own, <2>a, <3>1
    <3>3. Popper
      BY <1>own, <3>1
    <3> QED
      BY <3>2, <3>3
  <2>2. ASSUME ShutdownNotifyFull
        PROVE  (\A q \in Producers : Producer(q)) /\ Popper
    <3>1. pc' = [s \in Thread |-> IF s = Closer THEN "closed"
                                  ELSE IF pc[s] = "waitNotFull" THEN "push" ELSE pc[s]]
      BY <2>2 DEF ShutdownNotifyFull, NotifyAll
    <3>2. ASSUME NEW q \in Producers PROVE Producer(q)
      BY <1>own, <3>1
    <3>3. Popper
      BY <1>own, <2>a, <3>1
    <3> QED
      BY <3>2, <3>3
  <2>3. ASSUME NEW t \in Thread, SpuriousWake(t)
        PROVE  (\A q \in Producers : Producer(q)) /\ Popper
    <3>1. PICK to \in {"push", "pop"} :
            /\ pc' = [pc EXCEPT ![t] = to]
            /\ pc[t] = IF to = "push" THEN "waitNotFull" ELSE "waitNotEmpty"
      BY <2>3 DEF SpuriousWake, Step
    <3>2. pc'[t] = to /\ \A s \in Thread : s # t => pc'[s] = pc[s]
      BY <1>type, <3>1 DEF PcTypeOK
    <3>3. ASSUME NEW q \in Producers PROVE Producer(q)
      <4>1. CASE q = t
        BY <2>a, <3>1, <3>2, <4>1
      <4>2. CASE q # t
        BY <1>own, <3>2, <4>2
      <4> QED
        BY <4>1, <4>2
    <3>4. Popper
      <4>1. CASE Consumer = t
        BY <2>a, <3>1, <3>2, <4>1
      <4>2. CASE Consumer # t
        BY <1>own, <3>2, <4>2
      <4> QED
        BY <4>1, <4>2
    <3> QED
      BY <3>3, <3>4
  <2>4. (\A q \in Producers : Producer(q)) /\ Popper
    BY <1>9, <2>1, <2>2, <2>3 DEF Shutdown
  <2>5. UNCHANGED <<ring, built, m_shutdown, record>>
    BY <1>9 DEF Shutdown, ShutdownNotifyEmpty, ShutdownNotifyFull, SpuriousWake
  <2>6. Offers' = Offers /\ Verdicts' = Verdicts
    BY <2>4, <2>5, SameView
  <2>7. Outcome' = Outcome
    BY <2>4 DEF Outcome
  <2> QED
    BY <1>same, <2>5, <2>6, <2>7 DEF Channel!vars
<1>10. CASE UNCHANGED queueVars
  <2>1. UNCHANGED <<Contents, Offers, Verdicts, Outcome>>
    BY <1>10 DEF queueVars, Contents, Offers, Verdicts, Outcome
  <2> QED
    BY <1>10, <2>1 DEF queueVars, Channel!vars
<1> QED
  BY <1>1, <1>2, <1>3, <1>4, <1>5, <1>6, <1>7, <1>8, <1>9, <1>10 DEF QueueNext, Push, Pop

\* The ring, its mutex and its condition variables implement the abstract
\* channel of queue.hpp: first in first out, what a full queue drops is what the
\* policy says, and pop ends only on a queue that is shut down and empty.
THEOREM QueueImplementsChannel == QueueSpec => ImplementsChannel
BY ImplementsInit, ImplementsStep, RingInvariant, WakeupInvariant, PTL
DEF QueueSpec, ImplementsChannel, Channel!Spec

=============================================================================
