----------------------------- MODULE AsyncProofs -----------------------------
(***************************************************************************)
(* What holds of module AsyncBackend for any finite set of clients, any    *)
(* capacity, policies and bounds on the calls.  Every step of the backend  *)
(* is a step of its queue or leaves the queue alone, so the theorems about *)
(* the queue hold inside the backend.                                      *)
(***************************************************************************)
EXTENDS AsyncDelivery, QueueRefinement

LEMMA BackendStepsQueue == [Next]_vars => [QueueNext]_queueVars
<1> SUFFICES ASSUME [Next]_vars PROVE QueueNext \/ UNCHANGED queueVars
  OBVIOUS
<1>1. CASE UNCHANGED vars
  BY <1>1 DEF vars
<1>2. ASSUME Alive, Constructed \/ Stop \/ StopJoin \/ Finished
      PROVE  UNCHANGED queueVars
  BY <1>2 DEF Constructed, Stop, StopJoin, Finished, vars
<1>3. ASSUME Alive, StopShutdown
      PROVE  QueueNext
  BY <1>3 DEF StopShutdown, QueueNext
<1>4. ASSUME Alive, NEW c \in Client, Log(c) \/ LogPush(c) \/ LogReturn(c)
      PROVE  QueueNext
  BY <1>4 DEF Log, LogPush, LogReturn, QueueNext, Client
<1>5. ASSUME NEW c \in Client,
             \/ Flush(c) \/ FlushLock(c) \/ FlushLoadFirst(c) \/ FlushLoadSecond(c)
             \/ FlushSinks(c) \/ FlushReturn(c) \/ FlushSpuriousWake(c)
      PROVE  UNCHANGED queueVars
  BY <1>5 DEF Flush, FlushLock, FlushLoadFirst, FlushLoadSecond, Decide,
              FlushSinks, FlushReturn, FlushSpuriousWake
<1>6. ASSUME Alive, WorkerTest \/ WorkerPop \/ WorkerPopped
      PROVE  QueueNext
  BY <1>6 DEF WorkerTest, WorkerPop, WorkerPopped, QueueNext
<1>7. ASSUME WorkerWrite \/ WorkerCount \/ WorkerCheck \/ WorkerNotify \/ WorkerFlush
      PROVE  UNCHANGED queueVars
  BY <1>7 DEF WorkerWrite, WorkerCount, WorkerCheck, WorkerNotify, WorkerFlush
<1>8. ASSUME Alive, Spurious
      PROVE  QueueNext
  BY <1>8 DEF Spurious, QueueNext
<1> QED
  BY <1>1, <1>2, <1>3, <1>4, <1>5, <1>6, <1>7, <1>8
  DEF Next, ClientStep, Worker, Stopping

\* The backend uses its queue as module Queue describes: log, worker_loop and
\* stop call push, pop and shutdown from the threads the queue expects, and
\* touch it in no other way.
THEOREM BackendUsesQueue == Spec => QueueSpec
<1>1. Init => QueueInit
  BY DEF Init
<1> QED
  BY <1>1, BackendStepsQueue, PTL DEF Spec, QueueSpec

\* Inside the backend, too, the ring stays coherent, no wakeup of a client in
\* log or of the worker in pop is lost, and the queue is a bounded channel.
THEOREM BackendQueueSafe ==
  Spec => [](RingCoherent /\ NoLostWakeup) /\ ImplementsChannel
BY BackendUsesQueue, RingStaysCoherent, WakeupsNotLost, QueueImplementsChannel, PTL
-----------------------------------------------------------------------------
(* Conservation *)

\* Outside its call of pop the worker is at rest in the queue.
WorkerOutsidePop == work # "pop" => pc[Consumer] = "idle"

CountInv ==
  /\ QueueTypeOK
  /\ m_submitted \in Nat /\ m_processed \in Nat
  /\ WorkerOutsidePop
  /\ Conservation

\* Conservation is a sum over the clients that have not counted their record
\* yet, so a step may add or remove one of them.
LEMMA UncountedFinite ==
  /\ IsFiniteSet(Uncounted) /\ Cardinality(Uncounted) \in Nat
  /\ IsFiniteSet(Uncounted') /\ Cardinality(Uncounted') \in Nat
<1>1. IsFiniteSet(Client) /\ Uncounted \subseteq Client /\ Uncounted' \subseteq Client
  BY QueueAssumption DEF Client, Uncounted
<1>2. IsFiniteSet(Uncounted) /\ IsFiniteSet(Uncounted')
  BY <1>1, FS_Subset
<1> QED
  BY <1>2, FS_CardinalityType

LEMMA OneMoreUncounted ==
  ASSUME NEW c, c \notin Uncounted, Uncounted' = Uncounted \cup {c}
  PROVE  Cardinality(Uncounted') = Cardinality(Uncounted) + 1
BY UncountedFinite, FS_AddElement

LEMMA OneLessUncounted ==
  ASSUME NEW c \in Uncounted, Uncounted' = Uncounted \ {c}
  PROVE  Cardinality(Uncounted') = Cardinality(Uncounted) - 1
BY UncountedFinite, FS_RemoveElement

\* The steps of the queue that move no record: calls, waits, refusals,
\* notifications, wakeups and the shutdown.
QuietStep ==
  \/ \E p \in Producers : \/ PushCall(p) \/ PushWait(p) \/ PushRefuse(p)
                          \/ PushTrap(p) \/ PushNotify(p)
  \/ PopWait \/ PopEnd \/ PopNotify
  \/ ShutdownFlag \/ Shutdown
  \/ \E t \in Thread : SpuriousWake(t)

Counting(t) == pc[t] \in {"notifyNotEmpty", "returnTrue"}
Popped      == pc[Consumer] \in {"notifyNotFull", "returnTrue"}

LEMMA QuietStepKeeps ==
  ASSUME PcTypeOK, QuietStep
  PROVE  /\ \A p \in Producers : Counting(p)' <=> Counting(p)
         /\ Popped' <=> Popped
         /\ pc'[Consumer] = "idle" <=> pc[Consumer] = "idle"
         /\ m_size' = m_size /\ evicted' = evicted
<1> DEFINE Kept(t) == \/ pc'[t] = pc[t]
                      \/ pc[t] = "waitNotFull" /\ pc'[t] = "push"
                      \/ pc[t] = "waitNotEmpty" /\ pc'[t] = "pop"
           Goal == /\ \A p \in Producers : Counting(p)' <=> Counting(p)
                   /\ Popped' <=> Popped
                   /\ pc'[Consumer] = "idle" <=> pc[Consumer] = "idle"
<1>own. /\ Consumer \notin Producers /\ Closer \notin Producers \cup {Consumer}
        /\ Thread = Producers \cup {Consumer, Closer}
  BY QueueAssumption DEF Thread
<1>pc. pc \in [Thread -> ProducerPC \cup ConsumerPC \cup CloserPC]
  BY DEF PcTypeOK
<1>kept. ASSUME NEW t \in Thread, Kept(t)
         PROVE  /\ Counting(t)' <=> Counting(t)
                /\ pc'[t] = "idle" <=> pc[t] = "idle"
                /\ pc'[t] \in {"notifyNotFull", "returnTrue"}
                     <=> pc[t] \in {"notifyNotFull", "returnTrue"}
  BY <1>kept DEF Counting
<1>all. ASSUME \A t \in Producers \cup {Consumer} : Kept(t)
        PROVE  Goal
  BY <1>all, <1>kept, <1>own DEF Popped
\* One thread moves, the others are kept.
<1>one. ASSUME NEW t \in Thread, NEW from, NEW to, Step(t, from, to)
        PROVE  pc[t] = from /\ pc'[t] = to /\ \A s \in Thread : s # t => Kept(s)
  BY <1>one, <1>pc DEF Step
<1>1. ASSUME NEW p \in Producers, PushCall(p) \/ PushWait(p) \/ PushRefuse(p) \/ PushTrap(p)
      PROVE  Goal
  <2>1. /\ pc[p] \in {"idle", "push"}
        /\ pc'[p] \in {"push", "waitNotFull", "returnFalse", "trap"}
        /\ \A s \in Thread : s # p => Kept(s)
    BY <1>1, <1>one, <1>own DEF PushCall, PushWait, PushRefuse, PushTrap
  <2> QED
    BY <2>1, <1>kept, <1>own DEF Counting, Popped
<1>2. ASSUME NEW p \in Producers, PushNotify(p)
      PROVE  Goal
  <2>1. pc[p] = "notifyNotEmpty" /\ pc'[p] = "returnTrue"
        /\ \A s \in Thread : s # p => Kept(s)
    BY <1>2, <1>own, NotifyOneEffect DEF PushNotify
  <2> QED
    BY <2>1, <1>kept, <1>own DEF Counting, Popped
<1>3. ASSUME PopWait \/ PopEnd
      PROVE  Goal
  <2>1. pc[Consumer] = "pop" /\ pc'[Consumer] \in {"waitNotEmpty", "returnFalse"}
        /\ \A s \in Thread : s # Consumer => Kept(s)
    BY <1>3, <1>one, <1>own DEF PopWait, PopEnd
  <2> QED
    BY <2>1, <1>kept, <1>own DEF Popped
<1>4. ASSUME PopNotify
      PROVE  Goal
  <2>1. pc[Consumer] = "notifyNotFull" /\ pc'[Consumer] = "returnTrue"
        /\ \A s \in Thread : s # Consumer => Kept(s)
    BY <1>4, <1>own, NotifyOneEffect DEF PopNotify
  <2> QED
    BY <2>1, <1>kept, <1>own DEF Popped
<1>5. ASSUME ShutdownFlag
      PROVE  Goal
  <2>1. \A s \in Thread : s # Closer => Kept(s)
    BY <1>5, <1>one, <1>own DEF ShutdownFlag
  <2> QED
    BY <2>1, <1>all, <1>own
<1>6. ASSUME Shutdown
      PROVE  Goal
  <2>1. PICK to, point, woken :
          /\ NotifyAll(Closer, to, point, woken)
          /\ \/ point = "waitNotFull" /\ woken = "push"
             \/ point = "waitNotEmpty" /\ woken = "pop"
    BY <1>6 DEF Shutdown, ShutdownNotifyEmpty, ShutdownNotifyFull
  <2>2. \A s \in Thread : s # Closer => pc'[s] = IF pc[s] = point THEN woken ELSE pc[s]
    BY <2>1 DEF NotifyAll
  <2>3. \A s \in Thread : s # Closer => Kept(s)
    BY <2>1, <2>2
  <2> QED
    BY <2>3, <1>all, <1>own
<1>7. ASSUME NEW t \in Thread, SpuriousWake(t)
      PROVE  Goal
  <2>1. Kept(t) /\ \A s \in Thread : s # t => Kept(s)
    BY <1>7, <1>one DEF SpuriousWake
  <2>2. \A s \in Thread : Kept(s)
    BY <2>1
  <2> QED
    BY <2>2, <1>all, <1>own
<1>8. Goal
  BY <1>1, <1>2, <1>3, <1>4, <1>5, <1>6, <1>7 DEF QuietStep
<1>9. m_size' = m_size /\ evicted' = evicted
  BY DEF QuietStep, PushCall, PushWait, PushRefuse, PushTrap, PushNotify, PopWait,
         PopEnd, PopNotify, ShutdownFlag, Shutdown, ShutdownNotifyEmpty,
         ShutdownNotifyFull, SpuriousWake, ring
<1> QED
  BY <1>8, <1>9

LEMMA CountInit == Init => CountInv
<1> SUFFICES ASSUME Init PROVE CountInv
  OBVIOUS
<1>1. QueueTypeOK
  BY InitTypeOK DEF Init
<1>2. Uncounted = {} /\ ~Held
  BY QueueAssumption DEF Init, QueueInit, Uncounted, Held, Thread, Client
<1>3. Conservation
  BY <1>2, FS_EmptySet DEF Init, QueueInit, Conservation
<1> QED
  BY <1>1, <1>3, QueueAssumption DEF Init, QueueInit, CountInv, WorkerOutsidePop, Thread

LEMMA CountStep == CountInv /\ [Next]_vars => CountInv'
<1> SUFFICES ASSUME CountInv, [Next]_vars PROVE CountInv'
  OBVIOUS
<1> USE DEF counters, workVars
<1>type. QueueTypeOK /\ QueueTypeOK' /\ PcTypeOK
  BY BackendStepsQueue, StepTypeOK DEF CountInv, QueueTypeOK
<1>nat. /\ m_submitted \in Nat /\ m_processed \in Nat
        /\ m_size \in Nat /\ evicted \in Nat /\ m_capacity \in Nat
        /\ Cardinality(Uncounted) \in Nat /\ Cardinality(Uncounted') \in Nat
  BY <1>type, QueueAssumption, UncountedFinite DEF CountInv, QueueTypeOK, RingTypeOK
<1>own. /\ Consumer \notin Producers /\ Closer \notin Producers \cup {Consumer}
        /\ Thread = Producers \cup {Consumer, Closer}
  BY QueueAssumption DEF Thread
<1>pc. pc \in [Thread -> ProducerPC \cup ConsumerPC \cup CloserPC]
  BY <1>type DEF PcTypeOK
<1>sum. /\ WorkerOutsidePop
        /\ m_processed + m_size + (IF Held THEN 1 ELSE 0) + evicted
             = m_submitted + Cardinality(Uncounted)
  BY DEF CountInv, Conservation
<1>held. Held <=> Popped \/ work \in {"write", "count"}
  BY DEF Held, Popped
<1>held2. Held' <=> Popped' \/ work' \in {"write", "count"}
  BY DEF Held, Popped
<1>unc. Uncounted = {c \in Producers : Counting(c)} /\ Uncounted' = {c \in Producers : Counting(c)'}
  BY DEF Uncounted, Client, Counting
\* Steps that move no record.
<1>1. ASSUME QuietStep, UNCHANGED <<counters, work>>
      PROVE  CountInv'
  <2>1. /\ \A p \in Producers : Counting(p)' <=> Counting(p)
        /\ Popped' <=> Popped
        /\ pc'[Consumer] = "idle" <=> pc[Consumer] = "idle"
        /\ m_size' = m_size /\ evicted' = evicted
    BY <1>1, <1>type, QuietStepKeeps
  <2>2. Uncounted' = Uncounted /\ (Held' <=> Held)
    BY <1>1, <2>1, <1>unc, <1>held, <1>held2
  <2>3. Conservation'
    BY <1>1, <2>1, <2>2, <1>sum DEF Conservation
  <2>4. WorkerOutsidePop'
    BY <1>1, <2>1, <1>sum DEF WorkerOutsidePop
  <2> QED
    BY <1>1, <2>3, <2>4, <1>type, <1>nat DEF CountInv
\* Steps outside the queue, other than the count itself.
<1>2. ASSUME UNCHANGED <<queueVars, counters>>,
             work \in {"write", "count"} <=> work' \in {"write", "count"},
             work' # "pop" => work # "pop"
      PROVE  CountInv'
  <2>1. UNCHANGED <<pc, m_size, evicted>>
    BY <1>2 DEF queueVars, ring
  <2>2. Uncounted' = Uncounted /\ (Held' <=> Held)
    BY <1>2, <2>1 DEF Uncounted, Held
  <2> QED
    BY <1>2, <2>1, <2>2, <1>type, <1>nat, <1>sum DEF CountInv, Conservation, WorkerOutsidePop
\* A record enters the queue: its client has still to count it.
<1>3. ASSUME NEW p \in Producers, PushStore(p) \/ PushEvict(p), UNCHANGED <<counters, work>>
      PROVE  CountInv'
  <2>1. pc[p] = "push" /\ pc'[p] = "notifyNotEmpty" /\ \A s \in Thread : s # p => pc'[s] = pc[s]
    BY <1>3, <1>own, <1>pc DEF PushStore, PushEvict, Step
  <2>2. p \notin Uncounted /\ Uncounted' = Uncounted \cup {p}
    BY <2>1, <1>own DEF Uncounted, Client
  <2>3. Cardinality(Uncounted') = Cardinality(Uncounted) + 1
    BY <2>2, OneMoreUncounted
  <2>4. Held' = Held
    BY <1>3, <2>1, <1>own DEF Held
  <2>5. \/ m_size' = m_size + 1 /\ evicted' = evicted
        \/ m_size' = m_size /\ evicted' = evicted + 1
    BY <1>3 DEF PushStore, PushEvict
  <2>6. m_processed + m_size' + (IF Held' THEN 1 ELSE 0) + evicted'
          = m_submitted + Cardinality(Uncounted')
    BY <2>3, <2>4, <2>5, <1>nat, <1>sum
  <2> QED
    BY <1>3, <2>1, <2>6, <1>own, <1>type, <1>nat, <1>sum
    DEF CountInv, Conservation, WorkerOutsidePop
\* push has answered: the client counts the record, unless it was refused.
<1>4. ASSUME NEW c \in Client, LogReturn(c)
      PROVE  CountInv'
  <2>1. /\ c \in Producers /\ pc[c] \in {"returnTrue", "returnFalse"} /\ pc'[c] = "idle"
        /\ \A s \in Thread : s # c => pc'[s] = pc[s]
        /\ UNCHANGED <<m_size, evicted, m_processed, work>>
    BY <1>4, <1>own, <1>pc DEF LogReturn, PushReturn, Client, ring
  <2>2. Held' <=> Held
    BY <2>1, <1>own DEF Held
  <2>3. CASE pc[c] = "returnTrue"
    <3>1. c \in Uncounted /\ Uncounted' = Uncounted \ {c}
      BY <2>1, <2>3, <1>own DEF Uncounted, Client
    <3>2. Cardinality(Uncounted') = Cardinality(Uncounted) - 1
      BY <3>1, OneLessUncounted
    <3>3. m_submitted' = m_submitted + 1
      BY <1>4, <2>3 DEF LogReturn
    <3>4. m_processed + m_size + (IF Held' THEN 1 ELSE 0) + evicted
            = m_submitted' + Cardinality(Uncounted')
      BY <2>2, <3>2, <3>3, <1>nat, <1>sum
    <3> QED
      BY <2>1, <3>3, <3>4, <1>own, <1>type, <1>nat, <1>sum
      DEF CountInv, Conservation, WorkerOutsidePop
  <2>4. CASE pc[c] # "returnTrue"
    <3>1. Uncounted' = Uncounted
      BY <2>1, <2>4, <1>own DEF Uncounted, Client
    <3>2. m_submitted' = m_submitted
      BY <1>4, <2>4 DEF LogReturn
    <3> QED
      BY <2>1, <2>2, <3>1, <3>2, <1>own, <1>type, <1>nat, <1>sum
      DEF CountInv, Conservation, WorkerOutsidePop
  <2> QED
    BY <2>3, <2>4
\* The worker takes a record out of the queue and holds it.
<1>5. ASSUME PopTake, UNCHANGED <<counters, work>>
      PROVE  CountInv'
  <2>1. pc[Consumer] = "pop" /\ pc'[Consumer] = "notifyNotFull"
        /\ \A s \in Thread : s # Consumer => pc'[s] = pc[s]
    BY <1>5, <1>own, <1>pc DEF PopTake, Step
  <2>2. Uncounted' = Uncounted
    BY <2>1, <1>own DEF Uncounted, Client
  <2>3. work = "pop" /\ ~Held /\ Held'
    BY <2>1, <1>sum DEF Held, WorkerOutsidePop
  <2>4. m_size' = m_size - 1 /\ m_size > 0 /\ evicted' = evicted
    BY <1>5 DEF PopTake
  <2> QED
    BY <1>5, <2>2, <2>3, <2>4, <1>type, <1>nat, <1>sum
    DEF CountInv, Conservation, WorkerOutsidePop
<1>6. ASSUME WorkerTest
      PROVE  CountInv'
  <2>1. /\ work = "test" /\ work' = "pop" /\ pc[Consumer] = "idle" /\ pc'[Consumer] = "pop"
        /\ \A s \in Thread : s # Consumer => pc'[s] = pc[s]
        /\ UNCHANGED <<m_size, evicted, counters>>
    BY <1>6, <1>own, <1>pc DEF WorkerTest, PopCall, Step, ring
  <2>2. Uncounted' = Uncounted /\ ~Held /\ ~Held'
    BY <2>1, <1>own DEF Uncounted, Client, Held
  <2> QED
    BY <2>1, <2>2, <1>type, <1>nat, <1>sum DEF CountInv, Conservation, WorkerOutsidePop
<1>7. ASSUME WorkerPopped
      PROVE  CountInv'
  <2>1. /\ work = "pop" /\ pc[Consumer] \in {"returnTrue", "returnFalse"}
        /\ pc'[Consumer] = "idle"
        /\ work' \in {"write", "flush", "test"}
        /\ work' = "write" <=> pc[Consumer] = "returnTrue"
        /\ \A s \in Thread : s # Consumer => pc'[s] = pc[s]
        /\ UNCHANGED <<m_size, evicted, counters>>
    BY <1>7, <1>own, <1>pc DEF WorkerPopped, PopReturn, ring
  <2>2. Uncounted' = Uncounted
    BY <2>1, <1>own DEF Uncounted, Client
  <2>3. Held' <=> Held
    BY <2>1 DEF Held
  <2> QED
    BY <2>1, <2>2, <2>3, <1>type, <1>nat, <1>sum DEF CountInv, Conservation, WorkerOutsidePop
<1>8. ASSUME WorkerCount
      PROVE  CountInv'
  <2>1. /\ work = "count" /\ work' \in {"test", "check"} /\ m_processed' = m_processed + 1
        /\ UNCHANGED <<pc, m_size, evicted, m_submitted>>
    BY <1>8 DEF WorkerCount, queueVars, ring
  <2>2. Uncounted' = Uncounted /\ Held /\ ~Held'
    BY <2>1, <1>sum DEF Uncounted, Held, WorkerOutsidePop
  <2> QED
    BY <2>1, <2>2, <1>type, <1>nat, <1>sum DEF CountInv, Conservation, WorkerOutsidePop
<1>9. ASSUME NEW c \in Client, Log(c) \/ LogPush(c)
      PROVE  CountInv'
  <2>1. c \in Producers /\ UNCHANGED <<counters, work>>
    BY <1>9 DEF Log, LogPush, Client
  <2>2. QuietStep \/ PushStore(c) \/ PushEvict(c)
    BY <1>9, <2>1 DEF Log, LogPush, Push, QuietStep
  <2> QED
    BY <1>1, <1>3, <2>1, <2>2
<1>10. ASSUME WorkerPop \/ StopShutdown \/ Spurious
       PROVE  CountInv'
  <2>1. UNCHANGED <<counters, work>>
    BY <1>10 DEF WorkerPop, StopShutdown, Spurious
  <2>2. QuietStep \/ PopTake
    BY <1>10 DEF WorkerPop, StopShutdown, Spurious, Pop, QuietStep
  <2> QED
    BY <1>1, <1>5, <2>1, <2>2
<1>11. ASSUME WorkerWrite \/ WorkerCheck \/ WorkerNotify \/ WorkerFlush
       PROVE  CountInv'
  BY <1>2, <1>11 DEF WorkerWrite, WorkerCheck, WorkerNotify, WorkerFlush
<1>12. ASSUME \/ Constructed \/ Stop \/ StopJoin \/ Finished
              \/ \E c \in Client : \/ Flush(c) \/ FlushLock(c) \/ FlushLoadFirst(c)
                                   \/ FlushLoadSecond(c) \/ FlushSinks(c)
                                   \/ FlushReturn(c) \/ FlushSpuriousWake(c)
       PROVE  CountInv'
  <2>1. UNCHANGED <<queueVars, counters, work>>
    BY <1>12 DEF Constructed, Stop, StopJoin, Finished, Flush, FlushLock, FlushLoadFirst,
                 FlushLoadSecond, Decide, FlushSinks, FlushReturn, FlushSpuriousWake, vars
  <2> QED
    BY <1>2, <2>1
<1>13. CASE UNCHANGED vars
  BY <1>2, <1>13 DEF vars
<1> QED
  BY <1>4, <1>6, <1>7, <1>8, <1>9, <1>10, <1>11, <1>12, <1>13
  DEF Next, ClientStep, Worker, Stopping

LEMMA CountInvariant == Spec => []CountInv
BY CountInit, CountStep, PTL DEF Spec

\* What the counters say about the queue, for every number of clients: log
\* counts a record after push and the worker after write, so their difference
\* is what is queued or held, less what clients have not counted, plus what
\* DropOldest has discarded (log and worker_loop, async_backend.cpp).
THEOREM CountersConserved == Spec => []Conservation
<1>1. CountInv => Conservation
  BY DEF CountInv
<1> QED
  BY <1>1, CountInvariant, PTL
-----------------------------------------------------------------------------
(***************************************************************************)
(* The sinks see the records of each thread in the order it logged them,   *)
(* each at most once and none empty: for any finite set of clients, any    *)
(* capacity and all policies, whether sinks throw or not.                  *)
(***************************************************************************)

\* r and s are not two records of one client in the wrong order.
Before(r, s) == r[1] = s[1] => r[2] < s[2]

Chain(s)     == \A k, l \in 1 .. Len(s) : k < l => Before(s[k], s[l])
Ahead(s, r)  == \A k \in 1 .. Len(s) : Before(s[k], r)
Behind(r, s) == \A k \in 1 .. Len(s) : Before(r, s[k])

\* r comes before every record that its client has still to store.
Sent(r) == /\ r[2] <= calls[r[1]]
           /\ pc[r[1]] \in Pushing => r[2] < calls[r[1]]

\* The worker has a record it has neither written nor failed to write.
Holding == Popped \/ work = "write"

Written(r) == \E i \in 1 .. Len(written) : r = written[i]
InHand(r)  == Holding /\ r = record[Consumer]
Queued(r)  == \E k \in 1 .. Len(Contents) : r = Contents[k]

\* From the sinks through the worker's hands to the newest queued record the
\* records of a client are in order, and its next record comes after them all.
OrderInv ==
  /\ written \in Seq(Record) /\ Contents \in Seq(Record)
  /\ Holding => record[Consumer] \in Record
  /\ Chain(written) /\ Chain(Contents)
  /\ \A w, h \in Record : Written(w) /\ InHand(h) => Before(w, h)
  /\ \A w, q \in Record : Written(w) /\ Queued(q) => Before(w, q)
  /\ \A h, q \in Record : InHand(h) /\ Queued(q) => Before(h, q)
  /\ \A r \in Record : Written(r) \/ InHand(r) \/ Queued(r) => Sent(r)

-----------------------------------------------------------------------------
(* Sequences *)

\* The elements of an extended sequence.
LEMMA AppendElements ==
  ASSUME NEW S, NEW s \in Seq(S), NEW r \in S
  PROVE  /\ Append(s, r) \in Seq(S) /\ Len(Append(s, r)) = Len(s) + 1
         /\ \A k \in 1 .. Len(s) + 1 :
              Append(s, r)[k] = IF k = Len(s) + 1 THEN r ELSE s[k]
<1>1. Len(s) \in Nat
  BY LenProperties
<1> QED
  BY <1>1, AppendProperties

\* ... and of one that has lost its head.
LEMMA TailElements ==
  ASSUME NEW S, NEW s \in Seq(S), s # <<>>
  PROVE  /\ Tail(s) \in Seq(S) /\ Len(Tail(s)) = Len(s) - 1 /\ Len(s) \in Nat \ {0}
         /\ \A k \in 1 .. Len(s) - 1 : Tail(s)[k] = s[k + 1]
         /\ Head(s) = s[1]
<1>1. Len(s) \in Nat /\ Len(s) # 0
  BY LenProperties, EmptySeq
<1> QED
  BY <1>1, HeadTailProperties

LEMMA AppendChain ==
  ASSUME NEW s \in Seq(Record), NEW r \in Record, Chain(s), Ahead(s, r)
  PROVE  Chain(Append(s, r))
<1>1. Len(s) \in Nat
  BY LenProperties
<1> QED
  BY <1>1, AppendElements DEF Chain, Ahead

LEMMA TailChain ==
  ASSUME NEW s \in Seq(Record), s # <<>>, Chain(s)
  PROVE  Chain(Tail(s)) /\ Behind(Head(s), Tail(s))
<1>1. ASSUME NEW k \in 1 .. Len(s) - 1
      PROVE  Tail(s)[k] = s[k + 1] /\ k + 1 \in 1 .. Len(s) /\ 1 < k + 1 /\ 1 \in 1 .. Len(s)
  BY <1>1, TailElements
<1>2. Chain(Tail(s))
  BY <1>1, TailElements DEF Chain
<1>3. Behind(Head(s), Tail(s))
  BY <1>1, TailElements DEF Chain, Behind
<1> QED
  BY <1>2, <1>3

\* A record is added at the end, with or without the oldest one giving way.
LEMMA StoreChain ==
  ASSUME NEW s \in Seq(Record), NEW r \in Record, NEW t, Chain(s), Ahead(s, r),
         t = Append(s, r) \/ (s # <<>> /\ t = Append(Tail(s), r))
  PROVE  /\ t \in Seq(Record) /\ Chain(t)
         /\ \A k \in 1 .. Len(t) : t[k] = r \/ \E l \in 1 .. Len(s) : t[k] = s[l]
<1>1. Len(s) \in Nat
  BY LenProperties
<1>2. CASE t = Append(s, r)
  BY <1>1, <1>2, AppendElements, AppendChain
<1>3. CASE s # <<>> /\ t = Append(Tail(s), r)
  <2>1. /\ Tail(s) \in Seq(Record) /\ Len(Tail(s)) = Len(s) - 1
        /\ \A k \in 1 .. Len(s) - 1 : Tail(s)[k] = s[k + 1] /\ k + 1 \in 1 .. Len(s)
        /\ Chain(Tail(s))
    BY <1>1, <1>3, TailElements, TailChain
  <2>2. Ahead(Tail(s), r)
    BY <2>1 DEF Ahead
  <2>3. /\ t \in Seq(Record) /\ Chain(t) /\ Len(t) = (Len(s) - 1) + 1
        /\ \A k \in 1 .. (Len(s) - 1) + 1 :
             t[k] = IF k = (Len(s) - 1) + 1 THEN r ELSE Tail(s)[k]
    <3> DEFINE u == Tail(s)
    <3>1. u \in Seq(Record) /\ Len(u) = Len(s) - 1 /\ Chain(u) /\ Ahead(u, r) /\ t = Append(u, r)
      BY <1>3, <2>1, <2>2
    <3> HIDE DEF u
    <3>2. /\ t \in Seq(Record) /\ Len(t) = Len(u) + 1 /\ Chain(t)
          /\ \A k \in 1 .. Len(u) + 1 : t[k] = IF k = Len(u) + 1 THEN r ELSE u[k]
      BY <3>1, AppendElements, AppendChain
    <3> QED
      BY <3>1, <3>2 DEF u
  <2>4. ASSUME NEW k \in 1 .. Len(t), t[k] # r
        PROVE  \E l \in 1 .. Len(s) : t[k] = s[l]
    <3>1. k \in 1 .. Len(s) - 1
      BY <1>1, <2>3, <2>4
    <3>2. t[k] = s[k + 1] /\ k + 1 \in 1 .. Len(s)
      BY <1>1, <2>1, <2>3, <2>4, <3>1
    <3> QED
      BY <3>2
  <2> QED
    BY <2>3, <2>4
<1> QED
  BY <1>2, <1>3

-----------------------------------------------------------------------------
(* Steps *)

\* What a step does to the queued records and to the record in the worker's
\* hands, read off the abstract channel.
LEMMA QueueEffect ==
  ASSUME RingInv, RingInv', WakeupInv, [QueueNext]_queueVars
  PROVE  \/ /\ Contents' = Contents /\ record'[Consumer] = record[Consumer]
            /\ Popped' => Popped
         \/ /\ record'[Consumer] = record[Consumer] /\ (Popped' => Popped)
            /\ \E p \in Producers :
                 /\ pc[p] \in Pushing /\ pc'[p] \notin Pushing
                 /\ \/ Contents' = Append(Contents, record[p])
                    \/ Contents # <<>> /\ Contents' = Append(Tail(Contents), record[p])
         \/ /\ Contents # <<>> /\ Contents' = Tail(Contents)
            /\ record'[Consumer] = Head(Contents)
<1>1. Channel!Next \/ UNCHANGED Channel!vars
  BY ImplementsStep
<1>2. (Popped <=> Outcome = "record") /\ (Popped' <=> Outcome' = "record")
  BY DEF Popped, Outcome
<1>3. CASE UNCHANGED Channel!vars
  BY <1>2, <1>3 DEF Channel!vars
<1>4. CASE \/ \E p \in Producers : \/ \E r \in Record : Channel!Offer(p, r)
                                   \/ Channel!Refuse(p) \/ Channel!Acknowledge(p)
           \/ Channel!Close
  BY <1>2, <1>4
  DEF Channel!Offer, Channel!Refuse, Channel!Answer, Channel!Acknowledge, Channel!Close
<1>5. CASE Channel!EndOfStream \/ Channel!TakeAgain
  BY <1>2, <1>5 DEF Channel!EndOfStream, Channel!TakeAgain
<1>6. CASE Channel!Take
  BY <1>6 DEF Channel!Take
<1>7. ASSUME NEW p \in Producers, Channel!Accept(p) \/ Channel!Replace(p)
      PROVE  /\ record'[Consumer] = record[Consumer] /\ (Popped' => Popped)
             /\ pc[p] \in Pushing /\ pc'[p] \notin Pushing
             /\ \/ Contents' = Append(Contents, record[p])
                \/ Contents # <<>> /\ Contents' = Append(Tail(Contents), record[p])
  <2>1. /\ Offers[p] # NoRecord /\ Offers' = [Offers EXCEPT ![p] = NoRecord]
        /\ record'[Consumer] = record[Consumer] /\ Outcome' = Outcome
    BY <1>7 DEF Channel!Accept, Channel!Replace, Channel!Answer
  <2>2. pc[p] \in Pushing /\ Offers[p] = record[p]
    BY <2>1 DEF Offers, Pushing
  <2>3. pc'[p] \notin Pushing
    <3>1. Offers'[p] = NoRecord
      BY <2>1 DEF Offers
    <3>2. SUFFICES ASSUME pc'[p] \in Pushing PROVE FALSE
      OBVIOUS
    <3>3. Offers'[p] = record'[p]
      BY <3>2 DEF Offers, Pushing
    <3>4. record'[p] \in Record
      BY <3>2 DEF RingInv, PushersHold
    <3> QED
      BY <3>1, <3>3, <3>4, QueueAssumption DEF Record
  <2>4. \/ Contents' = Append(Contents, record[p])
        \/ Contents # <<>> /\ Contents' = Append(Tail(Contents), record[p])
    <3>1. CASE Channel!Accept(p)
      BY <2>2, <3>1 DEF Channel!Accept
    <3>2. CASE Channel!Replace(p)
      <4>1. Contents # <<>>
        <5>1. Len(Contents) # 0
          BY <3>2 DEF Channel!Replace
        <5> QED
          BY <5>1, EmptySeq
      <4> QED
        BY <2>2, <3>2, <4>1 DEF Channel!Replace
    <3> QED
      BY <1>7, <3>1, <3>2
  <2> QED
    BY <1>2, <2>1, <2>2, <2>3, <2>4
<1> QED
  BY <1>1, <1>3, <1>4, <1>5, <1>6, <1>7 DEF Channel!Next

\* A record that comes before its client's next one still does afterwards.
LEMMA SentStep ==
  ASSUME QueueTypeOK, [QueueNext]_queueVars, NEW r \in Record, Sent(r)
  PROVE  Sent(r)'
<1>1. r[1] \in Producers /\ r[2] \in Nat
  BY QueueAssumption DEF Record
<1>2. calls[r[1]] \in Nat
  BY <1>1, QueueAssumption DEF QueueTypeOK
<1>3. CASE PushCall(r[1])
  <2>1. calls'[r[1]] = calls[r[1]] + 1
    BY <1>1, <1>3, PushingStep
  <2> QED
    BY <1>1, <1>2, <2>1 DEF Sent
<1>4. CASE /\ calls'[r[1]] = calls[r[1]]
           /\ pc'[r[1]] \in Pushing => pc[r[1]] \in Pushing
  BY <1>4 DEF Sent
<1> QED
  BY <1>1, <1>3, <1>4, PushingStep

\* The record a client stores comes after all that were sent before it.
LEMMA StoredLast ==
  ASSUME RingInv, [QueueNext]_queueVars, NEW p \in Producers,
         pc[p] \in Pushing, pc'[p] \notin Pushing, NEW r, r = record[p]
  PROVE  /\ r \in Record /\ Sent(r)'
         /\ \A x \in Record : Sent(x) => Before(x, r)
<1>1. r \in Record /\ r[1] = p /\ r[2] = calls[p] /\ calls[p] \in Nat
  BY QueueAssumption DEF RingInv, PushersHold, QueueTypeOK
<1>2. calls'[p] = calls[p]
  BY PushingStep DEF RingInv
<1> QED
  BY <1>1, <1>2 DEF Sent, Before

-----------------------------------------------------------------------------
(* The invariant *)

LEMMA OrderInit == Init => OrderInv
<1> SUFFICES ASSUME Init PROVE OrderInv
  OBVIOUS
<1>1. written = <<>> /\ Contents = <<>>
  BY DEF Init, QueueInit, Contents
<1>2. ~Holding
  BY DEF Init, QueueInit, Holding, Popped, Thread
<1>3. <<>> \in Seq(Record) /\ Len(<<>>) = 0
  BY EmptySeq
<1>4. \A r \in Record : ~Written(r) /\ ~InHand(r) /\ ~Queued(r)
  BY <1>1, <1>2, <1>3 DEF Written, InHand, Queued
<1> QED
  BY <1>1, <1>2, <1>3, <1>4 DEF OrderInv, Chain

\* Only WorkerWrite adds to written, and the worker gets a record in its hands
\* from pop alone.
LEMMA WorkerKeeps ==
  ASSUME [Next]_vars, ~WorkerWrite
  PROVE  written' = written /\ (Holding' => Holding \/ Popped')
<1>1. CASE WorkerPopped
  BY <1>1 DEF WorkerPopped, sinkVars, Holding, Popped
<1>2. CASE WorkerTest \/ WorkerCount \/ WorkerCheck \/ WorkerNotify \/ WorkerFlush
  BY <1>2 DEF WorkerTest, WorkerCount, WorkerCheck, WorkerNotify, WorkerFlush,
              sinkVars, Holding
<1>3. CASE WorkerPop \/ Spurious \/ Constructed \/ Stop \/ Stopping \/ Finished
           \/ UNCHANGED vars
  BY <1>3 DEF WorkerPop, Spurious, Constructed, Stop, Stopping, StopShutdown, StopJoin,
              Finished, vars, sinkVars, workVars, Holding
<1>4. CASE \E c \in Client : \/ Log(c) \/ Flush(c) \/ ClientStep(c) \/ FlushLock(c)
                             \/ FlushSpuriousWake(c)
  BY <1>4 DEF Log, Flush, ClientStep, LogPush, LogReturn, FlushLoadFirst,
              FlushLoadSecond, Decide, FlushSinks, FlushReturn, FlushLock,
              FlushSpuriousWake, sinkVars, workVars, Holding
<1> QED
  BY <1>1, <1>2, <1>3, <1>4 DEF Next, Worker

LEMMA OrderStep ==
  ASSUME RingInv, RingInv', WakeupInv, CountInv, OrderInv, [Next]_vars
  PROVE  OrderInv'
<1>q. [QueueNext]_queueVars
  BY BackendStepsQueue
<1>sent. ASSUME NEW r \in Record, Sent(r)
         PROVE  Sent(r)'
  BY <1>q, <1>sent, SentStep DEF RingInv
<1>seq. /\ written \in Seq(Record) /\ Contents \in Seq(Record)
        /\ Len(written) \in Nat /\ Len(Contents) \in Nat
        /\ \A i \in 1 .. Len(written) : written[i] \in Record /\ Written(written[i])
        /\ \A k \in 1 .. Len(Contents) : Contents[k] \in Record /\ Queued(Contents[k])
        /\ Chain(written) /\ Chain(Contents)
  BY LenProperties DEF OrderInv, Written, Queued
\* The worker hands its record to the sinks, or they throw.
<1>1. CASE WorkerWrite
  <2> DEFINE h == record[Consumer]
  <2>1. /\ work = "write" /\ work' = "count" /\ UNCHANGED queueVars
        /\ \/ written' = written
           \/ written' = Append(written, h)
    BY <1>1 DEF WorkerWrite
  <2>2. Holding /\ ~Holding'
    BY <2>1 DEF Holding, Popped, CountInv, WorkerOutsidePop, queueVars
  <2>3. h \in Record /\ InHand(h)
    BY <2>2 DEF OrderInv, InHand
  <2>4. Ahead(written, h)
    BY <1>seq, <2>3 DEF OrderInv, Ahead
  <2>5. Contents' = Contents /\ \A r \in Record : Queued(r)' => Queued(r)
    BY <2>1 DEF queueVars, ring, built, Contents, Queued
  <2>6. \A r \in Record : ~InHand(r)'
    BY <2>2 DEF InHand
  <2>7. /\ written' \in Seq(Record) /\ Chain(written')
        /\ \A r \in Record : Written(r)' => Written(r) \/ r = h
    <3>1. CASE written' = written
      BY <1>seq, <3>1 DEF Written
    <3>2. CASE written' = Append(written, h)
      <4>1. /\ written' \in Seq(Record) /\ Len(written') = Len(written) + 1
            /\ \A k \in 1 .. Len(written) + 1 :
                 written'[k] = IF k = Len(written) + 1 THEN h ELSE written[k]
        BY <1>seq, <2>3, <3>2, AppendElements
      <4>2. Chain(written')
        BY <1>seq, <2>3, <2>4, <3>2, AppendChain
      <4>3. ASSUME NEW r \in Record, Written(r)', r # h
            PROVE  Written(r)
        <5>1. PICK i \in 1 .. Len(written) + 1 : r = written'[i]
          BY <4>1, <4>3 DEF Written
        <5>2. i \in 1 .. Len(written) /\ r = written[i]
          BY <1>seq, <4>1, <4>3, <5>1
        <5> QED
          BY <5>2 DEF Written
      <4> QED
        BY <4>1, <4>2, <4>3
    <3> QED
      BY <2>1, <3>1, <3>2
  <2> QED
    BY <1>seq, <1>sent, <2>2, <2>3, <2>5, <2>6, <2>7 DEF OrderInv
\* Nothing enters or leaves the queue.
<1>2. ASSUME ~WorkerWrite, Contents' = Contents, record'[Consumer] = record[Consumer],
             Popped' => Popped
      PROVE  OrderInv'
  <2>1. written' = written /\ (Holding' => Holding)
    BY <1>2, WorkerKeeps DEF Holding
  <2>2. \A r \in Record : /\ Written(r)' => Written(r)
                          /\ InHand(r)' => InHand(r)
                          /\ Queued(r)' => Queued(r)
    BY <1>2, <2>1 DEF Written, InHand, Queued
  <2>3. Holding' => record'[Consumer] \in Record
    BY <1>2, <2>1 DEF OrderInv
  <2> QED
    BY <1>2, <1>seq, <1>sent, <2>1, <2>2, <2>3 DEF OrderInv
\* A client stores its record, the worker keeps what it has.
<1>3. ASSUME ~WorkerWrite, record'[Consumer] = record[Consumer], Popped' => Popped,
             NEW p \in Producers, pc[p] \in Pushing, pc'[p] \notin Pushing,
             \/ Contents' = Append(Contents, record[p])
             \/ Contents # <<>> /\ Contents' = Append(Tail(Contents), record[p])
      PROVE  OrderInv'
  <2>1. PICK s \in Record : /\ s = record[p] /\ Sent(s)'
                            /\ \A x \in Record : Sent(x) => Before(x, s)
    <3>1. ASSUME NEW s, s = record[p]
          PROVE  s \in Record /\ Sent(s)' /\ \A x \in Record : Sent(x) => Before(x, s)
      BY <1>3, <1>q, <3>1, StoredLast
    <3> QED
      BY <3>1
  <2>2. written' = written /\ (Holding' => Holding)
    BY <1>3, WorkerKeeps DEF Holding
  <2>3. Ahead(Contents, s)
    BY <1>seq, <2>1 DEF OrderInv, Ahead
  <2>4. /\ Contents' \in Seq(Record) /\ Chain(Contents')
        /\ \A k \in 1 .. Len(Contents') :
             Contents'[k] = s \/ \E l \in 1 .. Len(Contents) : Contents'[k] = Contents[l]
    <3>1. \/ Contents' = Append(Contents, s)
          \/ Contents # <<>> /\ Contents' = Append(Tail(Contents), s)
      BY <1>3, <2>1
    <3> QED
      BY <1>seq, <2>3, <3>1, StoreChain
  <2>5. \A r \in Record : /\ Written(r)' => Written(r)
                          /\ InHand(r)' => InHand(r)
                          /\ Queued(r)' => Queued(r) \/ r = s
    BY <1>3, <2>2, <2>4 DEF Written, InHand, Queued
  <2>6. Holding' => record'[Consumer] \in Record
    BY <1>3, <2>2 DEF OrderInv
  <2>7. \A r \in Record : Written(r) \/ InHand(r) \/ Queued(r) => Sent(r)' /\ Before(r, s)
    BY <1>sent, <2>1 DEF OrderInv
  <2> QED
    BY <1>seq, <2>1, <2>2, <2>4, <2>5, <2>6, <2>7 DEF OrderInv
\* The worker takes the oldest record, which comes after all it has written.
<1>4. ASSUME ~WorkerWrite, Contents # <<>>, Contents' = Tail(Contents),
             record'[Consumer] = Head(Contents)
      PROVE  OrderInv'
  <2> DEFINE h == Head(Contents)
  <2>1. /\ Tail(Contents) \in Seq(Record) /\ Len(Tail(Contents)) = Len(Contents) - 1
        /\ \A k \in 1 .. Len(Contents) - 1 :
             Tail(Contents)[k] = Contents[k + 1] /\ k + 1 \in 1 .. Len(Contents)
        /\ h = Contents[1] /\ 1 \in 1 .. Len(Contents)
    BY <1>4, <1>seq, TailElements
  <2>2. Chain(Contents') /\ Behind(h, Contents')
    BY <1>4, <1>seq, TailChain
  <2>3. h \in Record /\ Queued(h)
    BY <1>seq, <2>1
  <2>4. written' = written
    BY <1>4, WorkerKeeps
  <2>5. \A r \in Record : /\ Written(r)' => Written(r)
                          /\ InHand(r)' => r = h
                          /\ Queued(r)' => Queued(r) /\ Before(h, r)
    BY <1>4, <2>1, <2>2, <2>4 DEF Written, InHand, Queued, Behind
  <2> QED
    BY <1>4, <1>seq, <1>sent, <2>1, <2>2, <2>3, <2>4, <2>5 DEF OrderInv
<1> QED
  BY <1>1, <1>2, <1>3, <1>4, <1>q, QueueEffect

LEMMA OrderInvariant == Spec => []OrderInv
<1>1. Spec => [](RingInv /\ WakeupInv)
  BY BackendUsesQueue, RingInvariant, WakeupInvariant, PTL
<1>2. RingInv /\ RingInv' /\ WakeupInv /\ CountInv /\ OrderInv /\ [Next]_vars => OrderInv'
  BY OrderStep
<1> QED
  BY <1>1, <1>2, CountInvariant, OrderInit, PTL DEF Spec

\* The sinks get real records only, each at most once, and those of one
\* client in the order of its calls to log, for any number of clients and any
\* capacity (log, Queue::push, Queue::pop and both loops of worker_loop).
THEOREM RecordsWrittenInOrder == Spec => []WrittenInOrder
<1>1. ASSUME OrderInv PROVE WrittenInOrder
  <2>1. /\ \A i \in 1 .. Len(written) : written[i] \in Record
        /\ Chain(written)
    BY <1>1, LenProperties DEF OrderInv
  <2>2. Members(written) \subseteq Record
    BY <2>1 DEF Members
  <2> QED
    BY <2>1, <2>2 DEF WrittenInOrder, Chain, Before
<1> QED
  BY <1>1, OrderInvariant, PTL

-----------------------------------------------------------------------------
(* Type correctness *)

\* A client inside push has made a call.
CallsCounted == \A p \in Producers : pc[p] # "idle" => calls[p] # 0

\* What is left of AsyncTypeOK once the queue, the counters and the records in
\* flight are known to be well typed.
RestTypeOK ==
  /\ owner \in {"constructing", "alive", "stopping", "joined"}
  /\ m_running \in BOOLEAN
  /\ m_flush_mutex \in Client \cup {Free}
  /\ client \in [Client -> {"idle", "log", "lock", "load", "loadSubmitted",
                            "loadProcessed", "sleep", "flushSinks", "unlock"}]
  /\ loaded \in [Client -> Nat]
  /\ flushes \in [Client -> 0 .. MaxFlush]
  /\ work \in {"test", "pop", "write", "count", "check", "notify", "flush", "exited"}
  /\ draining \in BOOLEAN
  /\ failed \subseteq Record
  /\ flushed \in 0 .. Len(written)
  /\ logged \subseteq Record
  /\ due \in [Client -> SUBSET Record]

TypeInv == CountInv /\ OrderInv /\ CallsCounted /\ RestTypeOK

LEMMA TypeInvImplies == TypeInv => AsyncTypeOK
BY DEF TypeInv, CountInv, OrderInv, RestTypeOK, AsyncTypeOK

LEMMA CallsCountedStep ==
  ASSUME QueueTypeOK, CallsCounted, [QueueNext]_queueVars
  PROVE  CallsCounted'
<1> SUFFICES ASSUME NEW p \in Producers, pc'[p] # "idle"
             PROVE  calls'[p] # 0
  BY DEF CallsCounted
<1>1. calls[p] \in Nat
  BY QueueAssumption DEF QueueTypeOK
<1> QED
  BY <1>1, PushingStep DEF CallsCounted

LEMMA RestInit == Init => RestTypeOK
<1>1. ASSUME Init PROVE RestTypeOK
  <2>1. Len(written) = 0
    BY <1>1, EmptySeq DEF Init
  <2>2. m_running \in BOOLEAN
    BY <1>1, AsyncAssumption DEF Init
  <2>3. MaxFlush \in Nat
    BY AsyncAssumption
  <2>4. flushes \in [Client -> 0 .. MaxFlush] /\ loaded \in [Client -> Nat]
    BY <1>1, <2>3 DEF Init
  <2>5. flushed \in 0 .. Len(written)
    BY <1>1, <2>1 DEF Init
  <2>6. draining \in BOOLEAN
    BY <1>1 DEF Init
  <2>7. due \in [Client -> SUBSET Record] /\ failed \subseteq Record /\ logged \subseteq Record
    BY <1>1 DEF Init
  <2> QED
    BY <1>1, <2>2, <2>4, <2>5, <2>6, <2>7 DEF Init, RestTypeOK
<1> QED
  BY <1>1

LEMMA RestStep ==
  ASSUME TypeInv, [Next]_vars
  PROVE  RestTypeOK'
<1> USE DEF RestTypeOK, sinkVars, workVars, flushVars, counters
<1>rest. RestTypeOK /\ m_submitted \in Nat /\ m_processed \in Nat /\ Len(written) \in Nat
  BY LenProperties DEF TypeInv, CountInv, OrderInv
<1>1. ASSUME NEW c \in Client, Log(c) \/ LogPush(c)
      PROVE  RestTypeOK'
  BY <1>1, <1>rest DEF Log, LogPush, At
<1>2. ASSUME NEW c \in Client, LogReturn(c)
      PROVE  RestTypeOK'
  <2>1. pc[c] # "idle" /\ c \in Producers
    BY <1>2 DEF LogReturn, PushReturn, Client
  <2>2. <<c, calls[c]>> \in Record
    BY <2>1, QueueAssumption
    DEF TypeInv, CountInv, CallsCounted, QueueTypeOK, Record
  <2>3. logged' \subseteq Record
    BY <1>2, <1>rest, <2>2 DEF LogReturn
  <2>4. client' = [client EXCEPT ![c] = "idle"]
    BY <1>2 DEF LogReturn, At
  <2>5. UNCHANGED <<owner, m_running, m_flush_mutex, loaded, flushes, due, work, draining,
                    written, failed, flushed>>
    BY <1>2 DEF LogReturn
  <2> QED
    BY <1>rest, <2>3, <2>4, <2>5
<1>3. ASSUME NEW c \in Client, Flush(c) \/ FlushLock(c) \/ FlushSpuriousWake(c) \/ FlushReturn(c)
      PROVE  RestTypeOK'
  <2>1. CASE Flush(c)
    <3>1. flushes' \in [Client -> 0 .. MaxFlush]
      BY <1>rest, <2>1, AsyncAssumption DEF Flush
    <3>2. due' \in [Client -> SUBSET Record]
      BY <1>rest, <2>1 DEF Flush
    <3> QED
      BY <1>rest, <2>1, <3>1, <3>2 DEF Flush, At
  <2>2. CASE FlushLock(c) \/ FlushSpuriousWake(c)
    BY <1>rest, <2>2 DEF FlushLock, FlushSpuriousWake, At
  <2>3. CASE FlushReturn(c)
    <3>1. due' \in [Client -> SUBSET Record]
      BY <1>rest, <2>3 DEF FlushReturn
    <3> QED
      BY <1>rest, <2>3, <3>1 DEF FlushReturn, At
  <2> QED
    BY <1>3, <2>1, <2>2, <2>3
<1>4. ASSUME NEW c \in Client, FlushLoadFirst(c) \/ FlushLoadSecond(c)
      PROVE  RestTypeOK'
  <2>1. CASE FlushLoadFirst(c)
    BY <1>rest, <2>1 DEF FlushLoadFirst, At
  <2>2. ASSUME NEW from, NEW value, Decide(c, from, value)
        PROVE  RestTypeOK'
    BY <1>rest, <2>2 DEF Decide, At
  <2> QED
    BY <1>4, <2>1, <2>2 DEF FlushLoadSecond
<1>5. ASSUME NEW c \in Client, FlushSinks(c)
      PROVE  RestTypeOK'
  BY <1>5, <1>rest DEF FlushSinks, At
<1>6. ASSUME WorkerWrite
      PROVE  RestTypeOK'
  <2>1. record[Consumer] \in Record
    BY <1>6 DEF WorkerWrite, TypeInv, OrderInv, Holding
  <2>2. Len(written') \in {Len(written), Len(written) + 1}
    BY <1>6, <2>1, AppendElements DEF WorkerWrite, TypeInv, OrderInv
  <2>3. flushed' \in 0 .. Len(written')
    BY <1>6, <1>rest, <2>2 DEF WorkerWrite
  <2> QED
    BY <1>6, <1>rest, <2>1, <2>3 DEF WorkerWrite
<1>7. ASSUME WorkerTest \/ WorkerPop \/ WorkerPopped \/ WorkerCount \/ WorkerCheck
      PROVE  RestTypeOK'
  BY <1>7, <1>rest DEF WorkerTest, WorkerPop, WorkerPopped, WorkerCount, WorkerCheck
<1>8. ASSUME WorkerNotify \/ WorkerFlush
      PROVE  RestTypeOK'
  <2>1. CASE WorkerNotify
    <3>1. /\ client' \in [Client -> {"idle", "log", "lock", "load", "loadSubmitted",
                                   "loadProcessed", "sleep", "flushSinks", "unlock"}]
          /\ work' = "test"
      BY <1>rest, <2>1 DEF WorkerNotify
    <3>2. UNCHANGED <<owner, m_running, m_flush_mutex, loaded, flushes, due, draining,
                      written, failed, flushed, logged>>
      BY <2>1 DEF WorkerNotify
    <3> QED
      BY <1>rest, <3>1, <3>2
  <2>2. CASE WorkerFlush
    BY <1>rest, <2>2 DEF WorkerFlush
  <2> QED
    BY <1>8, <2>1, <2>2
<1>9. ASSUME Constructed \/ Stop \/ Stopping \/ Spurious
      PROVE  RestTypeOK'
  <2>1. owner' \in {"constructing", "alive", "stopping", "joined"} /\ m_running' \in BOOLEAN
    BY <1>9, <1>rest DEF Constructed, Stop, Stopping, StopShutdown, StopJoin, Spurious
  <2>2. UNCHANGED <<client, flushVars, workVars, sinkVars, logged>>
    BY <1>9 DEF Constructed, Stop, Stopping, StopShutdown, StopJoin, Spurious
  <2> QED
    BY <1>rest, <2>1, <2>2
<1>10. CASE Finished \/ UNCHANGED vars
  BY <1>10, <1>rest DEF Finished, vars
<1> QED
  BY <1>1, <1>2, <1>3, <1>4, <1>5, <1>6, <1>7, <1>8, <1>9, <1>10
  DEF Next, ClientStep, Worker

LEMMA TypeInvariant == Spec => []TypeInv
<1>1. Init => RestTypeOK /\ CallsCounted
  BY RestInit DEF Init, QueueInit, CallsCounted, Thread
<1>2. /\ CountInv /\ OrderInv /\ RestTypeOK /\ CallsCounted /\ [Next]_vars
         => RestTypeOK' /\ CallsCounted'
  BY RestStep, CallsCountedStep, BackendStepsQueue DEF TypeInv, CountInv
<1>3. CountInv /\ OrderInv /\ RestTypeOK /\ CallsCounted => TypeInv
  BY DEF TypeInv
<1> QED
  BY <1>1, <1>2, <1>3, CountInvariant, OrderInvariant, PTL DEF Spec

\* Every counter, lock, position and record of the backend stays in its range;
\* what the worker hands to the sinks is a record that a client logged.
THEOREM BackendTypeCorrect == Spec => []AsyncTypeOK
BY TypeInvImplies, TypeInvariant, PTL
-----------------------------------------------------------------------------
(***************************************************************************)
(* What the destructor leaves behind: when stop() has joined the worker,   *)
(* nothing is queued or in the worker's hands, the sinks are flushed, and  *)
(* without evictions every accepted record was written or its sink threw.  *)
(***************************************************************************)

Stopped == owner \in {"stopping", "joined"}

\* The worker has met the end of the queue.
Ended == pc[Consumer] = "returnFalse" \/ work \in {"flush", "exited"}

\* The queue is shut down only once no client is inside the backend, so the
\* end of the queue that the worker meets is final.
EndInv ==
  /\ Stopped => \A c \in Client : client[c] = "idle"
  /\ \A c \in Client : client[c] # "log" => pc[c] = "idle"
  /\ m_shutdown => Stopped
  /\ Ended => m_shutdown /\ m_size = 0
  /\ work = "exited" => flushed = Len(written)
  /\ owner = "joined" => work = "exited"

LEMMA EndInit == Init => EndInv
BY QueueAssumption DEF Init, QueueInit, EndInv, Stopped, Ended, Thread, Client

\* A client outside push stays outside, unless it calls log.
LEMMA IdleStays ==
  ASSUME QueueTypeOK, [QueueNext]_queueVars, NEW c \in Client,
         pc[c] = "idle", calls'[c] = calls[c]
  PROVE  pc'[c] = "idle"
<1>1. c \in Producers /\ calls[c] \in Nat
  BY QueueAssumption DEF QueueTypeOK, Client
<1> QED
  BY <1>1, PushingStep

\* The queue after its end: no step brings a record back, and pop says so for
\* good.
LEMMA QueueEnd ==
  ASSUME RingInv, [QueueNext]_queueVars
  PROVE  /\ m_shutdown => m_shutdown'
         /\ m_shutdown' => m_shutdown \/ ShutdownFlag
         /\ pc'[Consumer] = "returnFalse" =>
              pc[Consumer] = "returnFalse" \/ (m_shutdown /\ m_size = 0)
         /\ m_size = 0 /\ (\A p \in Producers : pc[p] = "idle") => m_size' = 0
<1>type. QueueTypeOK /\ PcTypeOK
  BY DEF RingInv, QueueTypeOK
<1>own. /\ Consumer \notin Producers /\ Closer \notin Producers \cup {Consumer}
        /\ Thread = Producers \cup {Consumer, Closer}
  BY QueueAssumption DEF Thread
<1>1. CASE QuietStep
  <2>1. /\ m_size' = m_size
        /\ m_shutdown => m_shutdown'
        /\ m_shutdown' => m_shutdown \/ ShutdownFlag
    BY <1>1 DEF QuietStep, PushCall, PushWait, PushRefuse, PushTrap, PushNotify, PopWait,
                PopEnd, PopNotify, ShutdownFlag, Shutdown, ShutdownNotifyEmpty,
                ShutdownNotifyFull, SpuriousWake, ring
  <2>2. ASSUME pc'[Consumer] = "returnFalse", ~PopEnd
        PROVE  pc[Consumer] = "returnFalse"
    <3>1. CASE PopWait
      BY <1>type, <1>own, <2>2, <3>1 DEF PopWait, Step, PcTypeOK
    <3>2. CASE PopNotify
      <4>1. pc'[Consumer] = "returnTrue"
        BY <1>type, <1>own, <3>2, NotifyOneEffect DEF PopNotify
      <4> QED
        BY <2>2, <4>1
    <3>3. ASSUME NEW p \in Producers,
                 PushCall(p) \/ PushWait(p) \/ PushRefuse(p) \/ PushTrap(p)
          PROVE  pc[Consumer] = "returnFalse"
      BY <1>type, <1>own, <2>2, <3>3
      DEF PushCall, PushWait, PushRefuse, PushTrap, Step, PcTypeOK
    <3>4. ASSUME NEW p \in Producers, PushNotify(p)
          PROVE  pc[Consumer] = "returnFalse"
      <4>1. pc'[Consumer] = pc[Consumer] \/ pc'[Consumer] = "pop"
        BY <1>type, <1>own, <3>4, NotifyOneEffect DEF PushNotify
      <4> QED
        BY <2>2, <4>1
    <3>5. CASE ShutdownFlag
      BY <1>type, <1>own, <2>2, <3>5 DEF ShutdownFlag, Step, PcTypeOK
    <3>6. CASE Shutdown
      <4>1. PICK to, point, woken : /\ NotifyAll(Closer, to, point, woken)
                                    /\ woken \in {"push", "pop"}
        BY <3>6 DEF Shutdown, ShutdownNotifyEmpty, ShutdownNotifyFull
      <4>2. pc'[Consumer] = pc[Consumer] \/ pc'[Consumer] = woken
        BY <1>own, <4>1 DEF NotifyAll
      <4> QED
        BY <2>2, <4>1, <4>2
    <3>7. ASSUME NEW t \in Thread, SpuriousWake(t)
          PROVE  pc[Consumer] = "returnFalse"
      BY <1>type, <1>own, <2>2, <3>7 DEF SpuriousWake, Step, PcTypeOK
    <3> QED
      BY <1>1, <2>2, <3>1, <3>2, <3>3, <3>4, <3>5, <3>6, <3>7 DEF QuietStep
  <2>3. PopEnd => m_shutdown /\ m_size = 0
    BY DEF PopEnd
  <2> QED
    BY <2>1, <2>2, <2>3
<1>2. ASSUME NEW p \in Producers, PushStore(p) \/ PushEvict(p) \/ PushReturn(p)
      PROVE  /\ m_shutdown' = m_shutdown /\ pc'[Consumer] = pc[Consumer]
             /\ pc[p] # "idle"
  BY <1>2, <1>type, <1>own
  DEF PushStore, PushEvict, PushReturn, StoreAtTail, Step, PcTypeOK
<1>3. CASE PopCall \/ PopTake \/ PopReturn
  <2>1. m_shutdown' = m_shutdown /\ pc'[Consumer] # "returnFalse"
    BY <1>3, <1>type, <1>own DEF PopCall, PopTake, PopReturn, Step, PcTypeOK
  <2>2. m_size = 0 => m_size' = 0
    BY <1>3 DEF PopCall, PopTake, PopReturn, ring
  <2> QED
    BY <2>1, <2>2
<1>4. CASE UNCHANGED queueVars
  BY <1>4 DEF queueVars, ring
<1> QED
  BY <1>1, <1>2, <1>3, <1>4 DEF QueueNext, Push, Pop, QuietStep

\* What one step does to the positions of the owner, the clients and the worker.
LEMMA PositionsStep ==
  ASSUME TypeInv, EndInv, [Next]_vars
  PROVE  /\ Stopped => Stopped'
         /\ Stopped' => Stopped \/ Stop
         /\ m_shutdown' # m_shutdown => Stopped
         /\ \A c \in Client : /\ calls'[c] = calls[c] \/ client'[c] = "log"
                              /\ client'[c] = client[c] \/ ~Stopped
                              /\ client[c] = "log" /\ client'[c] # "log" => pc'[c] = "idle"
         /\ work' = "exited" => work = "exited" \/ WorkerFlush
         /\ work' = "flush" => work = "flush" \/ pc[Consumer] = "returnFalse"
         /\ owner' = "joined" => owner = "joined" \/ StopJoin
<1> USE DEF Stopped, queueVars, counters, flushVars, workVars, sinkVars
<1>type. /\ calls \in [Client -> 0 .. MaxPush] /\ pc \in [Thread -> ProducerPC \cup ConsumerPC \cup CloserPC]
         /\ Client \subseteq Thread
         /\ client \in [Client -> {"idle", "log", "lock", "load", "loadSubmitted",
                                   "loadProcessed", "sleep", "flushSinks", "unlock"}]
  BY DEF TypeInv, CountInv, RestTypeOK, QueueTypeOK, PcTypeOK, Client, Thread
<1>stopped. Stopped => \A c \in Client : client[c] = "idle"
  BY DEF EndInv
\* A client's step.
<1>1. ASSUME NEW c \in Client, Log(c)
      PROVE  /\ UNCHANGED <<owner, work, m_shutdown>> /\ ~Stopped /\ client'[c] = "log"
             /\ \A d \in Client : d # c => calls'[d] = calls[d] /\ client'[d] = client[d]
  BY <1>1, <1>type DEF Log, At, PushCall
<1>2. ASSUME NEW c \in Client, LogPush(c)
      PROVE  UNCHANGED <<owner, work, m_shutdown, client, calls>>
  BY <1>2 DEF LogPush, Push, PushWait, PushRefuse, PushStore, PushEvict, PushTrap,
              PushNotify, StoreAtTail
<1>3. ASSUME NEW c \in Client, LogReturn(c)
      PROVE  /\ UNCHANGED <<owner, work, m_shutdown, calls>> /\ ~Stopped /\ pc'[c] = "idle"
             /\ \A d \in Client : d # c => client'[d] = client[d]
  BY <1>3, <1>type, <1>stopped DEF LogReturn, At, PushReturn
<1>4. ASSUME NEW c \in Client,
             \/ Flush(c) \/ FlushLock(c) \/ FlushLoadFirst(c) \/ FlushLoadSecond(c)
             \/ FlushSinks(c) \/ FlushReturn(c) \/ FlushSpuriousWake(c)
      PROVE  /\ UNCHANGED <<owner, work, m_shutdown, calls>> /\ ~Stopped
             /\ client[c] # "log"
             /\ \A d \in Client : d # c => client'[d] = client[d]
  <2>1. UNCHANGED <<owner, work, m_shutdown, calls>>
    BY <1>4 DEF Flush, FlushLock, FlushLoadFirst, FlushLoadSecond, Decide, FlushSinks,
                FlushReturn, FlushSpuriousWake
  <2>2. PICK from, to : /\ At(c, from, to) /\ from # "log"
                        /\ from = "idle" => owner = "alive"
    BY <1>4 DEF Flush, FlushLock, FlushLoadFirst, FlushLoadSecond, Decide, FlushSinks,
                FlushReturn, FlushSpuriousWake
  <2> QED
    BY <1>type, <1>stopped, <2>1, <2>2 DEF At
\* The worker's and the owner's steps.
<1>5. ASSUME WorkerTest \/ WorkerPop \/ WorkerPopped \/ WorkerWrite \/ WorkerCount
             \/ WorkerCheck \/ WorkerFlush
      PROVE  /\ UNCHANGED <<owner, m_shutdown, client, calls>>
             /\ work' = "exited" => work = "exited" \/ WorkerFlush
             /\ work' = "flush" => work = "flush" \/ pc[Consumer] = "returnFalse"
  <2>1. UNCHANGED <<owner, m_shutdown, client, calls>>
    BY <1>5 DEF WorkerTest, WorkerPop, WorkerPopped, WorkerWrite, WorkerCount, WorkerCheck,
                WorkerFlush, PopCall, Pop, PopWait, PopEnd, PopTake, PopNotify, PopReturn
  <2>2. work' = "exited" => work = "exited" \/ WorkerFlush
    BY <1>5 DEF WorkerTest, WorkerPop, WorkerPopped, WorkerWrite, WorkerCount, WorkerCheck
  <2>3. work' = "flush" => work = "flush" \/ pc[Consumer] = "returnFalse"
    BY <1>5 DEF WorkerTest, WorkerPop, WorkerPopped, WorkerWrite, WorkerCount, WorkerCheck,
                WorkerFlush, PopReturn
  <2> QED
    BY <2>1, <2>2, <2>3
<1>6. ASSUME WorkerNotify
      PROVE  /\ UNCHANGED <<owner, m_shutdown, calls>> /\ work' = "test"
             /\ \A c \in Client : client'[c] = client[c] \/ (client[c] = "sleep" /\ client'[c] = "lock")
  BY <1>6 DEF WorkerNotify
<1>7. ASSUME Constructed \/ Stop \/ StopJoin \/ Finished
      PROVE  /\ UNCHANGED <<m_shutdown, client, calls, work>>
             /\ Stopped => Stopped'
             /\ Stopped' => Stopped \/ Stop
             /\ owner' = "joined" => owner = "joined" \/ StopJoin
  BY <1>7 DEF Constructed, Stop, StopJoin, Finished, vars
<1>8. ASSUME StopShutdown \/ Spurious
      PROVE  /\ UNCHANGED <<owner, client, calls, work>>
             /\ m_shutdown' # m_shutdown => Stopped
  BY <1>8 DEF StopShutdown, Spurious, ShutdownFlag, Shutdown, ShutdownNotifyEmpty,
              ShutdownNotifyFull, SpuriousWake
<1>9. CASE UNCHANGED vars
  BY <1>9 DEF vars
<1>10. CASE \E c \in Client : Log(c) \/ LogPush(c) \/ LogReturn(c)
  BY <1>10, <1>1, <1>2, <1>3
<1>11. CASE \E c \in Client : \/ Flush(c) \/ FlushLock(c) \/ FlushLoadFirst(c)
                              \/ FlushLoadSecond(c) \/ FlushSinks(c)
                              \/ FlushReturn(c) \/ FlushSpuriousWake(c)
  BY <1>11, <1>4
<1>12. CASE Worker
  <2>1. CASE WorkerNotify
    BY <1>6, <1>stopped, <2>1
  <2>2. CASE ~WorkerNotify
    BY <1>5, <1>12, <2>2 DEF Worker
  <2> QED
    BY <2>1, <2>2
<1>13. CASE Constructed \/ Stop \/ Stopping \/ Finished \/ Spurious
  BY <1>7, <1>8, <1>13 DEF Stopping
<1> QED
  BY <1>9, <1>10, <1>11, <1>12, <1>13 DEF Next, ClientStep

\* The sinks are flushed when the worker ends, and nothing is written later.
LEMMA FlushedStep ==
  ASSUME TypeInv, EndInv, [Next]_vars, work' = "exited"
  PROVE  flushed' = Len(written')
<1>1. CASE WorkerFlush
  BY <1>1 DEF WorkerFlush
<1>2. CASE ~WorkerFlush
  <2>1. work = "exited" /\ flushed = Len(written)
    BY <1>2, PositionsStep DEF EndInv
  <2>2. written' = written
    BY <2>1, WorkerKeeps DEF WorkerWrite
  <2>3. flushed' = flushed \/ flushed' = Len(written)
    <3>1. CASE \E c \in Client : FlushSinks(c)
      BY <3>1 DEF FlushSinks
    <3>2. CASE Worker
      BY <1>2, <2>1, <3>2 DEF Worker, WorkerTest, WorkerPop, WorkerPopped, WorkerWrite,
                              WorkerCount, WorkerCheck, WorkerNotify, sinkVars
    <3>3. CASE \E c \in Client : \/ Log(c) \/ LogPush(c) \/ LogReturn(c) \/ Flush(c)
                                 \/ FlushLock(c) \/ FlushLoadFirst(c) \/ FlushLoadSecond(c)
                                 \/ FlushReturn(c) \/ FlushSpuriousWake(c)
      BY <3>3 DEF Log, LogPush, LogReturn, Flush, FlushLock, FlushLoadFirst,
                  FlushLoadSecond, Decide, FlushReturn, FlushSpuriousWake, sinkVars
    <3>4. CASE Constructed \/ Stop \/ Stopping \/ Finished \/ Spurious \/ UNCHANGED vars
      BY <3>4 DEF Constructed, Stop, Stopping, StopShutdown, StopJoin, Finished, Spurious,
                  vars, sinkVars
    <3> QED
      BY <3>1, <3>2, <3>3, <3>4 DEF Next, ClientStep
  <2> QED
    BY <2>1, <2>2, <2>3
<1> QED
  BY <1>1, <1>2

LEMMA EndStep ==
  ASSUME TypeInv, RingInv, EndInv, [Next]_vars
  PROVE  EndInv'
<1>q. [QueueNext]_queueVars /\ QueueTypeOK
  BY BackendStepsQueue DEF RingInv
<1>1. Stopped' => \A c \in Client : client'[c] = "idle"
  <2>1. CASE Stop
    BY <2>1 DEF Stop
  <2>2. CASE ~Stop
    BY <2>2, PositionsStep DEF EndInv
  <2> QED
    BY <2>1, <2>2
<1>2. ASSUME NEW c \in Client, client'[c] # "log"
      PROVE  pc'[c] = "idle"
  <2>1. CASE client[c] = "log"
    BY <1>2, <2>1, PositionsStep
  <2>2. CASE client[c] # "log"
    BY <1>2, <1>q, <2>2, PositionsStep, IdleStays DEF EndInv
  <2> QED
    BY <2>1, <2>2
<1>3. m_shutdown' => Stopped'
  BY PositionsStep DEF EndInv
<1>4. ASSUME Ended'
      PROVE  m_shutdown' /\ m_size' = 0
  <2>1. m_shutdown /\ m_size = 0
    <3>1. CASE pc'[Consumer] = "returnFalse"
      BY <1>q, <3>1, QueueEnd DEF EndInv, Ended
    <3>2. CASE work' = "flush"
      BY <3>2, PositionsStep DEF EndInv, Ended
    <3>3. CASE work' = "exited"
      BY <3>3, PositionsStep DEF EndInv, Ended, WorkerFlush
    <3> QED
      BY <1>4, <3>1, <3>2, <3>3 DEF Ended
  <2>2. \A p \in Producers : pc[p] = "idle"
    BY <2>1 DEF EndInv, Client
  <2> QED
    BY <1>q, <2>1, <2>2, QueueEnd
<1>5. work' = "exited" => flushed' = Len(written')
  BY FlushedStep
<1>6. owner' = "joined" => work' = "exited"
  <2>1. CASE StopJoin
    BY <2>1 DEF StopJoin, workVars
  <2>2. ASSUME work = "exited"
        PROVE  work' = "exited"
    <3>1. CASE Worker
      <4>1. ~WorkerTest /\ ~WorkerPopped /\ ~WorkerWrite /\ ~WorkerCount /\ ~WorkerCheck
            /\ ~WorkerNotify /\ ~WorkerFlush
        BY <2>2 DEF WorkerTest, WorkerPopped, WorkerWrite, WorkerCount, WorkerCheck,
                    WorkerNotify, WorkerFlush
      <4> QED
        BY <2>2, <3>1, <4>1 DEF Worker, WorkerPop, workVars
    <3>2. CASE \E c \in Client : \/ Log(c) \/ Flush(c) \/ ClientStep(c) \/ FlushLock(c)
                                 \/ FlushSpuriousWake(c)
      BY <2>2, <3>2 DEF Log, Flush, ClientStep, LogPush, LogReturn, FlushLoadFirst,
                        FlushLoadSecond, Decide, FlushSinks, FlushReturn, FlushLock,
                        FlushSpuriousWake, workVars
    <3>3. CASE Constructed \/ Stop \/ Stopping \/ Finished \/ Spurious \/ UNCHANGED vars
      BY <2>2, <3>3 DEF Constructed, Stop, Stopping, StopShutdown, StopJoin, Finished,
                        Spurious, vars, workVars
    <3> QED
      BY <3>1, <3>2, <3>3 DEF Next
  <2> QED
    BY <2>1, <2>2, PositionsStep DEF EndInv
<1> QED
  BY <1>1, <1>2, <1>3, <1>4, <1>5, <1>6 DEF EndInv

-----------------------------------------------------------------------------
(* No accepted record is lost *)

\* What an extended sequence contains ...
LEMMA AppendMembers ==
  ASSUME NEW S, NEW s \in Seq(S), NEW x \in S
  PROVE  Members(Append(s, x)) = Members(s) \cup {x}
<1> DEFINE t == Append(s, x)
<1>1. /\ Len(t) = Len(s) + 1 /\ Len(s) \in Nat
      /\ \A k \in 1 .. Len(s) + 1 : t[k] = IF k = Len(s) + 1 THEN x ELSE s[k]
  BY AppendElements, LenProperties
<1> HIDE DEF t
<1>2. ASSUME NEW k \in 1 .. Len(s)
      PROVE  k \in 1 .. Len(t) /\ s[k] = t[k]
  BY <1>1, <1>2
<1>3. Len(t) \in 1 .. Len(t) /\ x = t[Len(t)]
  BY <1>1
<1>4. ASSUME NEW k \in 1 .. Len(t), t[k] # x
      PROVE  k \in 1 .. Len(s) /\ t[k] = s[k]
  BY <1>1, <1>4
<1>5. Members(t) = Members(s) \cup {x}
  BY <1>2, <1>3, <1>4 DEF Members
<1> QED
  BY <1>5 DEF t

\* ... and one that has lost its head.
LEMMA TailMembers ==
  ASSUME NEW S, NEW s \in Seq(S), s # <<>>
  PROVE  Members(s) = Members(Tail(s)) \cup {Head(s)}
<1> DEFINE t == Tail(s)
<1>1. /\ Len(t) = Len(s) - 1 /\ Len(s) \in Nat \ {0} /\ Head(s) = s[1]
      /\ \A k \in 1 .. Len(s) - 1 : t[k] = s[k + 1]
  BY TailElements
<1> HIDE DEF t
<1>2. ASSUME NEW k \in 1 .. Len(t)
      PROVE  k + 1 \in 1 .. Len(s) /\ t[k] = s[k + 1]
  BY <1>1, <1>2
<1>3. 1 \in 1 .. Len(s) /\ Head(s) = s[1]
  BY <1>1
<1>4. ASSUME NEW k \in 1 .. Len(s), s[k] # Head(s)
      PROVE  k - 1 \in 1 .. Len(t) /\ s[k] = t[k - 1]
  <2>1. k - 1 \in 1 .. Len(s) - 1 /\ (k - 1) + 1 = k
    BY <1>1, <1>4
  <2> QED
    BY <1>1, <1>4, <2>1
<1>5. Members(s) = Members(t) \cup {Head(s)}
  BY <1>2, <1>3, <1>4 DEF Members
<1> QED
  BY <1>5 DEF t

\* What has become of an accepted record, and which records were accepted.
Kept(r)     == Written(r) \/ r \in failed \/ InHand(r) \/ Queued(r)
Accepted(r) == r \in logged \/ (r[1] \in Uncounted /\ r[2] = calls[r[1]])

FateInv == evicted = 0 => \A r \in Record : Kept(r) <=> Accepted(r)

LEMMA FateInit == Init => FateInv
<1> SUFFICES ASSUME Init PROVE FateInv
  OBVIOUS
<1>1. written = <<>> /\ Contents = <<>> /\ failed = {} /\ logged = {} /\ ~Holding
  BY DEF Init, QueueInit, Contents, Holding, Popped, Thread
<1>2. Uncounted = {}
  BY DEF Init, QueueInit, Uncounted, Client, Thread
<1>3. Len(<<>>) = 0
  BY EmptySeq
<1> QED
  BY <1>1, <1>2, <1>3 DEF FateInv, Kept, Accepted, Written, InHand, Queued

\* A step that touches neither the sinks nor the list of returned calls.
Elsewhere == UNCHANGED <<written, failed, logged>>

LEMMA FateStep ==
  ASSUME TypeInv, RingInv, RingInv', FateInv, [Next]_vars
  PROVE  FateInv'
<1> SUFFICES ASSUME evicted' = 0 PROVE \A r \in Record : Kept(r)' <=> Accepted(r)'
  BY DEF FateInv
<1> USE DEF sinkVars, workVars
<1>type. /\ QueueTypeOK /\ PcTypeOK /\ evicted \in Nat
         /\ record \in [Producers \cup {Consumer} -> Record \cup {NoRecord}]
         /\ calls \in [Producers -> 0 .. MaxPush]
         /\ WorkerOutsidePop
         /\ written \in Seq(Record) /\ Contents \in Seq(Record)
         /\ Len(written) \in Nat /\ Len(Contents) \in Nat
  BY LenProperties DEF TypeInv, CountInv, OrderInv, QueueTypeOK
<1>own. /\ Consumer \notin Producers /\ Closer \notin Producers \cup {Consumer}
        /\ Thread = Producers \cup {Consumer, Closer}
  BY QueueAssumption DEF Thread
<1>pc. pc \in [Thread -> ProducerPC \cup ConsumerPC \cup CloserPC]
  BY <1>type DEF PcTypeOK
<1>unc. Uncounted = {c \in Producers : Counting(c)} /\ Uncounted' = {c \in Producers : Counting(c)'}
  BY DEF Uncounted, Client, Counting
<1>rec. \A r \in Record : r[1] \in Producers /\ r = <<r[1], r[2]>>
  BY DEF Record
<1>fate. ASSUME evicted' = evicted
         PROVE  \A r \in Record : Kept(r) <=> Accepted(r)
  BY <1>fate DEF FateInv
<1>same. ASSUME UNCHANGED <<ring, built>>
         PROVE  Contents' = Contents /\ \A r \in Record : Queued(r)' <=> Queued(r)
  BY <1>same DEF Contents, Queued, ring, built
<1>written. ASSUME written' = written
            PROVE  \A r \in Record : Written(r)' <=> Written(r)
  BY <1>written DEF Written
<1>members. \A r : /\ Queued(r) <=> r \in Members(Contents)
                   /\ Queued(r)' <=> r \in Members(Contents')
                   /\ Written(r) <=> r \in Members(written)
                   /\ Written(r)' <=> r \in Members(written')
  BY DEF Queued, Written, Members
\* Steps of the queue that move no record.
<1>1. ASSUME QuietStep, Elsewhere, work' = work
      PROVE  \A r \in Record : Kept(r)' <=> Accepted(r)'
  <2>1. /\ \A p \in Producers : Counting(p)' <=> Counting(p)
        /\ Popped' <=> Popped
        /\ evicted' = evicted
    BY <1>1, <1>type, QuietStepKeeps
  <2>2. UNCHANGED <<ring, built>> /\ record'[Consumer] = record[Consumer]
        /\ \A p \in Producers : Counting(p) => calls'[p] = calls[p]
    <3>1. ASSUME NEW p \in Producers, PushCall(p)
          PROVE  /\ UNCHANGED <<ring, built>> /\ record'[Consumer] = record[Consumer]
                 /\ \A q \in Producers : Counting(q) => calls'[q] = calls[q]
      BY <3>1, <1>type, <1>own DEF PushCall, Step, Counting
    <3>2. CASE ~\E p \in Producers : PushCall(p)
      BY <1>1, <3>2
      DEF QuietStep, PushWait, PushRefuse, PushTrap, PushNotify, PopWait, PopEnd,
          PopNotify, ShutdownFlag, Shutdown, ShutdownNotifyEmpty, ShutdownNotifyFull,
          SpuriousWake
    <3> QED
      BY <3>1, <3>2
  <2>3. \A r \in Record : InHand(r)' <=> InHand(r)
    BY <1>1, <2>1, <2>2 DEF InHand, Holding
  <2>4. \A r \in Record : Kept(r)' <=> Kept(r)
    BY <1>1, <1>same, <1>written, <2>2, <2>3 DEF Kept, Elsewhere
  <2>5. \A r \in Record : Accepted(r)' <=> Accepted(r)
    BY <1>1, <1>unc, <2>1, <2>2 DEF Accepted, Elsewhere
  <2> QED
    BY <1>fate, <2>1, <2>4, <2>5
\* Steps outside the queue that move no record.
<1>2. ASSUME UNCHANGED queueVars, Elsewhere, work = "write" <=> work' = "write"
      PROVE  \A r \in Record : Kept(r)' <=> Accepted(r)'
  <2>1. UNCHANGED <<ring, built, pc, record, calls, evicted>>
    BY <1>2 DEF queueVars
  <2>2. \A r \in Record : InHand(r)' <=> InHand(r)
    BY <1>2, <2>1 DEF InHand, Holding, Popped
  <2>3. \A r \in Record : Kept(r)' <=> Kept(r)
    BY <1>2, <1>same, <1>written, <2>1, <2>2 DEF Kept, Elsewhere
  <2>4. \A r \in Record : Accepted(r)' <=> Accepted(r)
    BY <1>2, <2>1 DEF Accepted, Uncounted, Elsewhere
  <2> QED
    BY <1>fate, <2>1, <2>3, <2>4
\* A client stores a record: it is queued, and to be counted.
<1>3. ASSUME NEW p \in Producers, PushStore(p), Elsewhere, work' = work
      PROVE  \A r \in Record : Kept(r)' <=> Accepted(r)'
  <2>1. /\ pc[p] = "push" /\ pc'[p] = "notifyNotEmpty"
        /\ \A s \in Thread : s # p => pc'[s] = pc[s]
        /\ record'[Consumer] = record[Consumer] /\ calls' = calls /\ evicted' = evicted
    BY <1>3, <1>own, <1>pc, <1>type DEF PushStore, StoreAtTail, Step
  <2>2. record[p] \in Record /\ record[p] = <<p, calls[p]>>
    BY <2>1 DEF RingInv, PushersHold, Pushing
  <2>3. Contents' = Append(Contents, record[p])
    BY <1>3, StoreAppends
  <2> DEFINE s == record[p]
  <2>4. \A r \in Record : Queued(r)' <=> Queued(r) \/ r = s
    <3>1. Members(Contents') = Members(Contents) \cup {s}
      BY <1>type, <2>2, <2>3, AppendMembers
    <3> QED
      BY <1>members, <3>1
  <2>5. \A r \in Record : InHand(r)' <=> InHand(r)
    BY <1>3, <1>own, <2>1 DEF InHand, Holding, Popped
  <2>6. Uncounted' = Uncounted \cup {p}
    BY <1>own, <2>1 DEF Uncounted, Client
  <2>7. \A r \in Record : Accepted(r)' <=> Accepted(r) \/ r = s
    BY <1>3, <1>rec, <2>1, <2>2, <2>6 DEF Accepted, Elsewhere
  <2> QED
    BY <1>3, <1>fate, <1>written, <2>1, <2>4, <2>5, <2>7 DEF Kept, Elsewhere
\* The call returns: the record is counted, or it was refused.
<1>4. ASSUME NEW c \in Client, LogReturn(c)
      PROVE  \A r \in Record : Kept(r)' <=> Accepted(r)'
  <2>1. /\ c \in Producers /\ pc[c] \in {"returnTrue", "returnFalse"} /\ pc'[c] = "idle"
        /\ \A s \in Thread : s # c => pc'[s] = pc[s]
        /\ record'[Consumer] = record[Consumer]
        /\ UNCHANGED <<ring, built, calls, evicted, work, written, failed>>
    BY <1>4, <1>own, <1>pc, <1>type DEF LogReturn, PushReturn, Client
  <2>2. \A r \in Record : InHand(r)' <=> InHand(r)
    BY <1>own, <2>1 DEF InHand, Holding, Popped
  <2>3. \A r \in Record : Kept(r)' <=> Kept(r)
    BY <1>same, <1>written, <2>1, <2>2 DEF Kept
  <2>4. \A r \in Record : Accepted(r)' <=> Accepted(r)
    <3>1. CASE pc[c] = "returnTrue"
      <4>1. logged' = logged \cup {<<c, calls[c]>>}
        BY <1>4, <3>1 DEF LogReturn
      <4>2. c \in Uncounted /\ Uncounted' = Uncounted \ {c}
        BY <1>own, <2>1, <3>1 DEF Uncounted, Client
      <4> QED
        BY <1>rec, <2>1, <4>1, <4>2 DEF Accepted
    <3>2. CASE pc[c] # "returnTrue"
      <4>1. logged' = logged
        BY <1>4, <3>2 DEF LogReturn
      <4>2. Uncounted' = Uncounted
        BY <1>own, <2>1, <3>2 DEF Uncounted, Client
      <4> QED
        BY <2>1, <4>1, <4>2 DEF Accepted
    <3> QED
      BY <3>1, <3>2
  <2> QED
    BY <1>fate, <2>1, <2>3, <2>4
\* The worker takes the oldest record into its hands.
<1>5. ASSUME PopTake, Elsewhere, work' = work
      PROVE  \A r \in Record : Kept(r)' <=> Accepted(r)'
  <2>1. /\ pc[Consumer] = "pop" /\ pc'[Consumer] = "notifyNotFull"
        /\ \A s \in Thread : s # Consumer => pc'[s] = pc[s]
        /\ calls' = calls /\ evicted' = evicted
    BY <1>5, <1>own, <1>pc DEF PopTake, Step
  <2>2. /\ Contents # <<>> /\ record'[Consumer] = Head(Contents)
        /\ Contents' = Tail(Contents)
    BY <1>5, TakeIsHead
  <2> DEFINE h == Head(Contents)
  <2>3. \A r \in Record : (Queued(r)' \/ r = h) <=> Queued(r)
    <3>1. Members(Contents) = Members(Contents') \cup {h}
      BY <1>type, <2>2, TailMembers
    <3> QED
      BY <1>members, <3>1
  <2>4. \A r \in Record : ~InHand(r) /\ (InHand(r)' <=> r = h)
    BY <1>5, <1>type, <2>1, <2>2 DEF InHand, Holding, Popped, WorkerOutsidePop
  <2>5. Uncounted' = Uncounted
    BY <1>own, <2>1 DEF Uncounted, Client
  <2>6. \A r \in Record : Accepted(r)' <=> Accepted(r)
    BY <1>5, <2>1, <2>5 DEF Accepted, Elsewhere
  <2> QED
    BY <1>5, <1>fate, <1>written, <2>1, <2>3, <2>4, <2>6 DEF Kept, Elsewhere
<1>6. ASSUME WorkerTest \/ WorkerPopped
      PROVE  \A r \in Record : Kept(r)' <=> Accepted(r)'
  <2>1. /\ UNCHANGED <<ring, built, calls, evicted, record, written, failed, logged>>
        /\ \A s \in Thread : s # Consumer => pc'[s] = pc[s]
    BY <1>6, <1>own, <1>pc DEF WorkerTest, WorkerPopped, PopCall, PopReturn, Step
  <2>2. Holding' <=> Holding
    <3>1. CASE WorkerTest
      BY <1>own, <1>pc, <3>1 DEF WorkerTest, PopCall, Step, Holding, Popped
    <3>2. CASE WorkerPopped
      BY <1>own, <1>pc, <3>2 DEF WorkerPopped, PopReturn, Holding, Popped
    <3> QED
      BY <1>6, <3>1, <3>2
  <2>3. Uncounted' = Uncounted
    BY <1>own, <2>1 DEF Uncounted, Client
  <2>4. \A r \in Record : Kept(r)' <=> Kept(r)
    BY <1>same, <1>written, <2>1, <2>2 DEF Kept, InHand
  <2>5. \A r \in Record : Accepted(r)' <=> Accepted(r)
    BY <2>1, <2>3 DEF Accepted
  <2> QED
    BY <1>fate, <2>1, <2>4, <2>5
\* The sinks get the record, or throw.
<1>7. ASSUME WorkerWrite
      PROVE  \A r \in Record : Kept(r)' <=> Accepted(r)'
  <2> DEFINE h == record[Consumer]
  <2>1. /\ work = "write" /\ work' = "count" /\ logged' = logged
        /\ UNCHANGED <<ring, built, pc, record, calls, evicted>>
        /\ \/ written' = Append(written, h) /\ failed' = failed
           \/ failed' = failed \cup {h} /\ written' = written
    BY <1>7 DEF WorkerWrite, queueVars
  <2>2. Holding /\ ~Holding'
    BY <1>type, <2>1 DEF Holding, Popped, WorkerOutsidePop
  <2>3. h \in Record
    BY <2>2 DEF TypeInv, OrderInv
  <2>4. \A r \in Record : Written(r)' \/ r \in failed' <=> Written(r) \/ r \in failed \/ r = h
    <3>1. CASE written' = Append(written, h) /\ failed' = failed
      <4>1. Members(written') = Members(written) \cup {h}
        BY <1>type, <2>3, <3>1, AppendMembers
      <4> QED
        BY <1>members, <3>1, <4>1
    <3>2. CASE failed' = failed \cup {h} /\ written' = written
      BY <1>written, <3>2
    <3> QED
      BY <2>1, <3>1, <3>2
  <2>5. \A r \in Record : Kept(r)' <=> Kept(r)
    BY <1>same, <2>1, <2>2, <2>4 DEF Kept, InHand
  <2>6. \A r \in Record : Accepted(r)' <=> Accepted(r)
    BY <2>1 DEF Accepted, Uncounted
  <2> QED
    BY <1>fate, <2>1, <2>5, <2>6
<1>8. ASSUME NEW c \in Client, Log(c) \/ LogPush(c)
      PROVE  \A r \in Record : Kept(r)' <=> Accepted(r)'
  <2>1. c \in Producers /\ Elsewhere /\ work' = work
    BY <1>8 DEF Log, LogPush, Client, Elsewhere
  <2>2. ~PushEvict(c)
    BY <1>type DEF PushEvict
  <2>3. QuietStep \/ PushStore(c)
    BY <1>8, <2>1, <2>2 DEF Log, LogPush, Push, QuietStep
  <2> QED
    BY <1>1, <1>3, <2>1, <2>3
<1>9. ASSUME WorkerPop \/ StopShutdown \/ Spurious
      PROVE  \A r \in Record : Kept(r)' <=> Accepted(r)'
  <2>1. Elsewhere /\ work' = work
    BY <1>9 DEF WorkerPop, StopShutdown, Spurious, Elsewhere
  <2>2. QuietStep \/ PopTake
    BY <1>9 DEF WorkerPop, StopShutdown, Spurious, Pop, QuietStep
  <2> QED
    BY <1>1, <1>5, <2>1, <2>2
<1>10. ASSUME WorkerCount \/ WorkerCheck \/ WorkerNotify \/ WorkerFlush
       PROVE  \A r \in Record : Kept(r)' <=> Accepted(r)'
  <2>1. UNCHANGED queueVars /\ Elsewhere /\ (work = "write" <=> work' = "write")
    BY <1>10 DEF WorkerCount, WorkerCheck, WorkerNotify, WorkerFlush, Elsewhere
  <2> QED
    BY <1>2, <2>1
<1>11. ASSUME \/ Constructed \/ Stop \/ StopJoin \/ Finished \/ UNCHANGED vars
              \/ \E c \in Client : \/ Flush(c) \/ FlushLock(c) \/ FlushLoadFirst(c)
                                   \/ FlushLoadSecond(c) \/ FlushSinks(c)
                                   \/ FlushReturn(c) \/ FlushSpuriousWake(c)
       PROVE  \A r \in Record : Kept(r)' <=> Accepted(r)'
  <2>1. UNCHANGED queueVars /\ Elsewhere /\ work' = work
    BY <1>11 DEF Constructed, Stop, StopJoin, Finished, Flush, FlushLock, FlushLoadFirst,
                 FlushLoadSecond, Decide, FlushSinks, FlushReturn, FlushSpuriousWake, vars,
                 Elsewhere
  <2> QED
    BY <1>2, <2>1
<1> QED
  BY <1>4, <1>6, <1>7, <1>8, <1>9, <1>10, <1>11
  DEF Next, ClientStep, Worker, Stopping

-----------------------------------------------------------------------------
(* The theorem *)

LEMMA DrainedAtJoin ==
  ASSUME TypeInv, RingInv, EndInv, FateInv
  PROVE  DrainComplete
<1> SUFFICES ASSUME owner = "joined"
             PROVE  /\ Pending = {}
                    /\ flushed = Len(written)
                    /\ m_processed + evicted = m_submitted
                    /\ evicted = 0 => logged = Members(written) \cup failed
  BY DEF DrainComplete
<1>1. work = "exited" /\ flushed = Len(written) /\ m_size = 0
      /\ \A c \in Client : pc[c] = "idle"
  BY DEF EndInv, Stopped, Ended
<1>2. pc[Consumer] = "idle"
  BY <1>1 DEF TypeInv, CountInv, WorkerOutsidePop
<1>3. ~Holding /\ ~Held /\ Uncounted = {} /\ Pending = {}
  BY <1>1, <1>2 DEF Holding, Popped, Held, Uncounted, Pending
<1>4. m_processed + evicted = m_submitted
  <2>1. m_processed \in Nat /\ m_submitted \in Nat /\ evicted \in Nat
    BY DEF TypeInv, CountInv, QueueTypeOK
  <2>2. m_processed + 0 + 0 + evicted = m_submitted + 0
    BY <1>1, <1>3, FS_EmptySet DEF TypeInv, CountInv, Conservation
  <2> QED
    BY <2>1, <2>2
<1>5. Len(Contents) = 0
  BY <1>1, ContentsSeq DEF ContentsIsSeq
<1>6. ASSUME evicted = 0
      PROVE  logged = Members(written) \cup failed
  <2>1. \A r \in Record : Written(r) \/ r \in failed <=> r \in logged
    BY <1>3, <1>5, <1>6 DEF FateInv, Kept, Accepted, InHand, Queued
  <2>2. logged \subseteq Record /\ failed \subseteq Record
    BY DEF TypeInv, RestTypeOK
  <2>3. \A r : r \in Members(written) <=> r \in Record /\ Written(r)
    <3>1. \A i \in 1 .. Len(written) : written[i] \in Record
      BY LenProperties DEF TypeInv, OrderInv
    <3> QED
      BY <3>1 DEF Members, Written
  <2> QED
    BY <2>1, <2>2, <2>3
<1> QED
  BY <1>1, <1>3, <1>4, <1>6

\* The destructor loses nothing, for any number of clients and any capacity:
\* after the join the queue is empty, the counters agree up to what DropOldest
\* discarded, and every record whose log call was accepted has been written and
\* flushed, or its sinks threw (stop and the drain loop, async_backend.cpp).
THEOREM DestructorDrains == Spec => []DrainComplete
<1>1. Spec => [](RingInv /\ TypeInv)
  BY BackendUsesQueue, RingInvariant, TypeInvariant, PTL
<1>2. TypeInv /\ RingInv /\ EndInv /\ [Next]_vars => EndInv'
  BY EndStep
<1>3. TypeInv /\ RingInv /\ RingInv' /\ FateInv /\ [Next]_vars => FateInv'
  BY FateStep
<1>4. TypeInv /\ RingInv /\ EndInv /\ FateInv => DrainComplete
  BY DrainedAtJoin
<1> QED
  BY <1>1, <1>2, <1>3, <1>4, EndInit, FateInit, PTL DEF Spec
-----------------------------------------------------------------------------
(* flush keeps its word to a client that is alone *)

\* What the client inside flush knows of the counters and of the sinks: the
\* value it has loaded is one the counter has passed or still has, and past
\* the predicate the counters agree.
FlushInv ==
  \A c \in Client :
    /\ client[c] = "loadSubmitted" => loaded[c] <= m_processed
    /\ client[c] = "loadProcessed" => loaded[c] = m_submitted
    /\ client[c] \in {"flushSinks", "unlock"} => m_processed = m_submitted
    /\ client[c] = "unlock" => flushed = Len(written)

LEMMA FlushInit == Init => FlushInv
BY DEF Init, FlushInv

\* While the only client is not inside log, no accepted record is uncounted:
\* the worker is never ahead, and when it is level nothing is left to process.
LEMMA AloneOutsideLog ==
  ASSUME TypeInv, EndInv, NEW c, Client = {c}, client[c] # "log"
  PROVE  /\ m_processed \in Nat /\ m_submitted \in Nat /\ m_processed <= m_submitted
         /\ m_processed = m_submitted => m_size = 0 /\ ~Held
<1>1. /\ m_processed \in Nat /\ m_submitted \in Nat /\ evicted \in Nat
      /\ m_capacity \in Nat /\ m_size \in 0 .. m_capacity
  BY QueueAssumption DEF TypeInv, CountInv, QueueTypeOK, RingTypeOK
<1>2. m_size \in Nat
  BY <1>1
<1>3. pc[c] = "idle"
  BY DEF EndInv
<1>4. Uncounted = {}
  BY <1>3 DEF Uncounted
<1>5. m_processed + m_size + (IF Held THEN 1 ELSE 0) + evicted = m_submitted + 0
  BY <1>4, FS_EmptySet DEF TypeInv, CountInv, Conservation
<1> QED
  BY <1>1, <1>2, <1>5

LEMMA FlushStep ==
  ASSUME TypeInv, EndInv, FlushInv, NEW c, Client = {c}, [Next]_vars
  PROVE  FlushInv'
<1> SUFFICES /\ client'[c] = "loadSubmitted" => loaded'[c] <= m_processed'
             /\ client'[c] = "loadProcessed" => loaded'[c] = m_submitted'
             /\ client'[c] \in {"flushSinks", "unlock"} => m_processed' = m_submitted'
             /\ client'[c] = "unlock" => flushed' = Len(written')
  BY DEF FlushInv
<1> USE DEF counters, flushVars, workVars, sinkVars
<1>1. /\ client[c] = "loadSubmitted" => loaded[c] <= m_processed
      /\ client[c] = "loadProcessed" => loaded[c] = m_submitted
      /\ client[c] \in {"flushSinks", "unlock"} => m_processed = m_submitted
      /\ client[c] = "unlock" => flushed = Len(written)
  BY DEF FlushInv
<1>2. /\ DOMAIN client = Client /\ DOMAIN loaded = Client /\ loaded[c] \in Nat
  BY DEF TypeInv, RestTypeOK
<1>3. CASE Log(c) \/ LogReturn(c)
  BY <1>2, <1>3 DEF Log, LogReturn, At
<1>4. CASE LogPush(c)
  <2>1. pc[c] # "idle"
    BY <1>4 DEF LogPush, Push, PushWait, PushRefuse, PushStore, PushEvict, PushTrap,
                PushNotify, Step
  <2>2. client[c] = "log"
    BY <2>1 DEF EndInv
  <2> QED
    BY <1>4, <2>2 DEF LogPush
<1>5. CASE Flush(c) \/ FlushLock(c) \/ FlushReturn(c) \/ FlushSpuriousWake(c)
  BY <1>2, <1>5 DEF Flush, FlushLock, FlushReturn, FlushSpuriousWake, At
<1>6. CASE FlushLoadFirst(c)
  <2>1. m_processed \in Nat
    BY DEF TypeInv, CountInv
  <2> QED
    BY <1>2, <1>6, <2>1 DEF FlushLoadFirst, At
<1>7. CASE FlushLoadSecond(c)
  <2>1. CASE Decide(c, "loadSubmitted", m_submitted)
    <3>1. client[c] = "loadSubmitted" /\ UNCHANGED <<counters, sinkVars>>
          /\ ((client'[c] = "flushSinks" /\ loaded[c] = m_submitted) \/ client'[c] = "sleep")
      BY <1>2, <2>1 DEF Decide, At
    <3>2. client[c] # "log"
      BY <3>1
    <3>3. m_processed \in Nat /\ m_submitted \in Nat /\ m_processed <= m_submitted
      BY <3>2, AloneOutsideLog
    <3> QED
      BY <1>1, <1>2, <3>1, <3>3
  <2>2. CASE Decide(c, "loadProcessed", m_processed)
    BY <1>1, <1>2, <2>2 DEF Decide, At
  <2> QED
    BY <1>7, <2>1, <2>2 DEF FlushLoadSecond
<1>8. CASE FlushSinks(c)
  BY <1>1, <1>2, <1>8 DEF FlushSinks, At
<1>9. CASE WorkerWrite \/ WorkerCount
  <2>1. Held
    BY <1>9 DEF WorkerWrite, WorkerCount, Held
  <2>2. client[c] \notin {"flushSinks", "unlock"}
    BY <1>1, <2>1, AloneOutsideLog
  <2>3. UNCHANGED <<client, loaded, m_submitted>>
        /\ (m_processed' = m_processed \/ m_processed' = m_processed + 1)
    BY <1>9 DEF WorkerWrite, WorkerCount
  <2>4. m_processed \in Nat
    BY DEF TypeInv, CountInv
  <2> QED
    BY <1>1, <1>2, <2>2, <2>3, <2>4
<1>10. CASE WorkerNotify
  <2>1. client'[c] = client[c] \/ client'[c] = "lock"
    BY <1>10 DEF WorkerNotify
  <2> QED
    BY <1>1, <1>10, <2>1 DEF WorkerNotify
<1>11. CASE WorkerTest \/ WorkerPop \/ WorkerPopped \/ WorkerCheck \/ WorkerFlush
  BY <1>1, <1>11 DEF WorkerTest, WorkerPop, WorkerPopped, WorkerCheck, WorkerFlush
<1>12. CASE Constructed \/ Stop \/ Stopping \/ Finished \/ Spurious \/ UNCHANGED vars
  BY <1>1, <1>12 DEF Constructed, Stop, Stopping, StopShutdown, StopJoin, Finished,
                     Spurious, vars
<1> QED
  BY <1>3, <1>4, <1>5, <1>6, <1>7, <1>8, <1>9, <1>10, <1>11, <1>12
  DEF Next, ClientStep, Worker

\* A client that is alone can trust flush, with any capacity and policy and
\* whatever the sinks throw: what it had logged is no longer on its way when
\* flush returns, and the sinks are flushed.  With a second client this fails
\* (flush, log and worker_loop, async_backend.cpp).
THEOREM FlushCompletesAlone ==
  ASSUME NEW CONSTANT c, Client = {c}
  PROVE  Spec => []FlushComplete
<1>1. Spec => [](RingInv /\ TypeInv)
  BY BackendUsesQueue, RingInvariant, TypeInvariant, PTL
<1>2. TypeInv /\ RingInv /\ EndInv /\ [Next]_vars => EndInv'
  BY EndStep
<1>3. TypeInv /\ EndInv /\ FlushInv /\ [Next]_vars => FlushInv'
  BY FlushStep
<1>4. TypeInv /\ EndInv /\ FlushInv => FlushComplete
  <2> SUFFICES ASSUME TypeInv, EndInv, FlushInv, NEW d \in Client, client[d] = "unlock"
               PROVE  /\ due[d] \cap Pending = {}
                      /\ due[d] \cap Members(written)
                           \subseteq Members(SubSeq(written, 1, flushed))
    BY DEF FlushComplete
  <2>1. m_processed = m_submitted /\ flushed = Len(written)
    BY DEF FlushInv
  <2>2. m_size = 0 /\ ~Held
    BY <2>1, AloneOutsideLog
  <2>3. Pending = {}
    BY <2>2 DEF Pending, Held
  <2>4. SubSeq(written, 1, flushed) = written
    <3>1. written \in Seq(Record)
      BY DEF TypeInv, OrderInv
    <3> QED
      BY <2>1, <3>1
  <2> QED
    BY <2>3, <2>4
<1> QED
  BY <1>1, <1>2, <1>3, <1>4, EndInit, FlushInit, PTL DEF Spec
-----------------------------------------------------------------------------
(***************************************************************************)
(* The backend delivers: a record on its way is in one place only - with   *)
(* the client that is pushing it, in the queue or in the worker's hands -  *)
(* and moves from there to the next, to the sinks or out.                  *)
(***************************************************************************)

Way == Pending \cup Offered

\* The client that made the record is still pushing it.
Carried(r) == Offers[r[1]] = r

WayIs == \A r : r \in Way <=> r \in Record /\ (Queued(r) \/ InHand(r) \/ Carried(r))

LEMMA WayPlaces == RingInv /\ OrderInv => WayIs
<1> SUFFICES ASSUME RingInv, OrderInv, NEW r
             PROVE  r \in Way <=> r \in Record /\ (Queued(r) \/ InHand(r) \/ Carried(r))
  BY DEF WayIs
<1>1. Len(Contents) = m_size /\ Contents \in Seq(Record)
  BY ContentsSeq DEF ContentsIsSeq, OrderInv
<1>2. r \in Pending <=> Queued(r) \/ InHand(r)
  BY <1>1 DEF Pending, Queued, InHand, Holding, Popped
<1>3. Queued(r) \/ InHand(r) => r \in Record
  <2>1. \A n \in 1 .. Len(Contents) : Contents[n] \in Record
    BY <1>1, LenProperties
  <2> QED
    BY <2>1 DEF OrderInv, Queued, InHand
<1>4. r \in Offered <=> r \in Record /\ Carried(r)
  <2>1. \A p \in Producers : Offers[p] = IF pc[p] \in Pushing THEN record[p] ELSE NoRecord
    BY DEF Offers, Pushing
  <2>2. \A p \in Producers : pc[p] \in Pushing => record[p] \in Record /\ record[p][1] = p
    BY DEF RingInv, PushersHold
  <2>3. r \in Offered <=> \E p \in Producers : pc[p] \in Pushing /\ r = record[p]
    BY DEF Offered, Pushing, Client
  <2>4. r \in Record => r[1] \in Producers /\ r # NoRecord
    BY QueueAssumption DEF Record
  <2> QED
    BY <2>1, <2>2, <2>3, <2>4 DEF Carried
<1> QED
  BY <1>2, <1>3, <1>4 DEF Way

\* The three places do not overlap, and a client's record in push comes after
\* those it has sent before.
LEMMA OnePlace ==
  ASSUME RingInv, OrderInv, NEW r \in Record
  PROVE  /\ Queued(r) => ~InHand(r)
         /\ Carried(r) => ~Queued(r) /\ ~InHand(r)
         /\ \A s \in Record : Sent(s) /\ Carried(r) => Before(s, r)
<1>1. r[1] \in Producers /\ r[2] \in Nat /\ r # NoRecord /\ r = <<r[1], r[2]>>
  BY QueueAssumption DEF Record
<1>2. ~Before(r, r)
  BY <1>1 DEF Before
<1>3. Carried(r) => pc[r[1]] \in Pushing /\ r[2] = calls[r[1]]
  BY <1>1 DEF Carried, Offers, Pushing, RingInv, PushersHold
<1>4. \A s \in Record : Sent(s) /\ Carried(r) => Before(s, r)
  BY <1>3 DEF Sent, Before
<1> QED
  BY <1>2, <1>4 DEF OrderInv

\* What a step of the queue does to the places of the records, read off the
\* abstract channel.
Resting == UNCHANGED <<Contents, record[Consumer], calls>> /\ (Popped' => Popped)

Called(p) ==
  /\ UNCHANGED <<Contents, record[Consumer]>> /\ (Popped' => Popped)
  /\ calls' = [calls EXCEPT ![p] = @ + 1]
  /\ <<p, calls[p] + 1>> \in Record
  /\ Offers[p] = NoRecord /\ Offers' = [Offers EXCEPT ![p] = <<p, calls[p] + 1>>]

Answered(p) ==
  /\ UNCHANGED <<record[Consumer], calls>> /\ (Popped' => Popped)
  /\ Offers[p] \in Record /\ Offers[p][1] = p
  /\ Offers' = [Offers EXCEPT ![p] = NoRecord]

Took ==
  /\ UNCHANGED <<Offers, calls>> /\ ~Popped /\ Popped'
  /\ Contents # <<>> /\ Contents' = Tail(Contents)
  /\ record'[Consumer] = Head(Contents)

LEMMA PlacesStep ==
  ASSUME RingInv, RingInv', WakeupInv, [QueueNext]_queueVars
  PROVE  \/ Resting /\ UNCHANGED Offers
         \/ \E p \in Producers : Called(p)
         \/ \E p \in Producers :
              /\ Answered(p)
              /\ \/ Contents' = Append(Contents, Offers[p])
                 \/ Contents # <<>> /\ Contents' = Append(Tail(Contents), Offers[p])
                 \/ Contents' = Contents
         \/ Took
<1>view. ASSUME NEW p \in Producers
         PROVE  /\ pc[p] \in Pushing <=> Offers[p] # NoRecord
                /\ pc'[p] \in Pushing <=> Offers'[p] # NoRecord
                /\ Offers[p] # NoRecord => Offers[p] \in Record /\ Offers[p][1] = p
  <2>1. /\ Offers[p] = IF pc[p] \in Pushing THEN record[p] ELSE NoRecord
        /\ Offers'[p] = IF pc'[p] \in Pushing THEN record'[p] ELSE NoRecord
    BY DEF Offers, Pushing
  <2>2. /\ pc[p] \in Pushing => record[p] \in Record /\ record[p][1] = p
        /\ pc'[p] \in Pushing => record'[p] \in Record
    BY DEF RingInv, PushersHold
  <2>3. NoRecord \notin Record
    BY QueueAssumption DEF Record
  <2> QED
    BY <2>1, <2>2, <2>3
<1>type. /\ QueueTypeOK /\ Offers = [p \in Producers |-> Offers[p]]
         /\ calls \in [Producers -> 0 .. MaxPush] /\ calls' \in [Producers -> 0 .. MaxPush]
  BY DEF RingInv, QueueTypeOK, Offers
<1>pop. (Popped <=> Outcome = "record") /\ (Popped' <=> Outcome' = "record")
  BY DEF Popped, Outcome
\* Nobody is called unless its offer appears.
<1>calls. ASSUME \A p \in Producers : Offers[p] = NoRecord => Offers'[p] = NoRecord
          PROVE  calls' = calls
  <2>1. ASSUME NEW p \in Producers PROVE calls'[p] = calls[p]
    <3>1. ~PushCall(p)
      <4>1. PushCall(p) => pc'[p] \in Pushing /\ pc[p] \notin Pushing
        <5>1. PushCall(p) => pc'[p] = "push"
          BY <1>type, QueueAssumption DEF PushCall, Step, QueueTypeOK, PcTypeOK, Thread
        <5> QED
          BY <5>1, <1>type, PushingStep DEF Pushing
      <4> QED
        BY <1>view, <1>calls, <4>1
    <3> QED
      BY <3>1, <1>type, PushingStep
  <2> QED
    BY <1>type, <2>1
<1>1. Channel!Next \/ UNCHANGED Channel!vars
  BY ImplementsStep
<1>2. CASE UNCHANGED Channel!vars
  BY <1>2, <1>pop, <1>calls DEF Channel!vars, Resting
<1>3. CASE \/ \E p \in Producers : Channel!Acknowledge(p)
           \/ Channel!Close \/ Channel!EndOfStream \/ Channel!TakeAgain
  <2>1. /\ UNCHANGED <<Contents, Offers, record[Consumer]>>
        /\ Outcome' = "record" => Outcome = "record"
    BY <1>3 DEF Channel!Acknowledge, Channel!Close, Channel!EndOfStream, Channel!TakeAgain
  <2> QED
    BY <2>1, <1>pop, <1>calls DEF Resting
<1>4. CASE Channel!Take
  BY <1>4, <1>pop, <1>calls DEF Channel!Take, Took
<1>5. ASSUME NEW p \in Producers, NEW r \in Record, Channel!Offer(p, r)
      PROVE  Called(p)
  <2>1. /\ Offers[p] = NoRecord /\ Offers' = [Offers EXCEPT ![p] = r]
        /\ UNCHANGED <<Contents, record[Consumer], Outcome>>
    BY <1>5 DEF Channel!Offer
  <2>2. Offers'[p] = r /\ r # NoRecord
    BY <2>1, <1>type, QueueAssumption DEF Record
  <2>3. PushCall(p)
    BY <1>type, <1>view, <2>1, <2>2, PushingStep
  <2>4. /\ calls' = [calls EXCEPT ![p] = @ + 1]
        /\ Offers'[p] = <<p, calls'[p]>> /\ calls'[p] = calls[p] + 1
    <3>1. /\ calls'[p] = calls[p] + 1 /\ record'[p] = <<p, calls'[p]>>
      BY <2>3, <1>type, PushingStep
    <3>2. Offers'[p] = record'[p]
      BY <2>2 DEF Offers
    <3> QED
      BY <2>3, <3>1, <3>2 DEF PushCall
  <2> QED
    BY <1>pop, <2>1, <2>2, <2>4 DEF Called
<1>6. ASSUME NEW p \in Producers, Channel!Accept(p) \/ Channel!Replace(p) \/ Channel!Refuse(p)
      PROVE  /\ Answered(p)
             /\ \/ Contents' = Append(Contents, Offers[p])
                \/ Contents # <<>> /\ Contents' = Append(Tail(Contents), Offers[p])
                \/ Contents' = Contents
  <2>1. /\ Offers[p] # NoRecord /\ Offers' = [Offers EXCEPT ![p] = NoRecord]
        /\ UNCHANGED <<record[Consumer], Outcome>>
    BY <1>6 DEF Channel!Accept, Channel!Replace, Channel!Refuse, Channel!Answer
  <2>2. calls' = calls
    BY <1>type, <2>1, <1>calls
  <2>3. Answered(p)
    BY <1>pop, <1>view, <2>1, <2>2 DEF Answered
  <2>4. Channel!Replace(p) => Contents # <<>>
    <3>1. Channel!Replace(p) => Len(Contents) # 0
      BY DEF Channel!Replace
    <3> QED
      BY <3>1, EmptySeq
  <2> QED
    BY <1>6, <2>3, <2>4 DEF Channel!Accept, Channel!Replace, Channel!Refuse
<1> QED
  BY <1>1, <1>2, <1>3, <1>4, <1>5, <1>6 DEF Channel!Next
\* Only WorkerWrite takes a record out of the worker's hands.
LEMMA HandKept ==
  ASSUME TypeInv, [Next]_vars, ~WorkerWrite
  PROVE  /\ Holding => Holding'
         /\ work = "write" => work' = "write"
<1> USE DEF workVars
<1>type. QueueTypeOK /\ PcTypeOK /\ WorkerOutsidePop
  BY DEF TypeInv, CountInv, QueueTypeOK
<1>own. /\ Consumer \notin Producers /\ Consumer \in Thread
        /\ \A p \in Producers : p \in Thread /\ p # Consumer
  BY QueueAssumption DEF Thread
<1>pc. pc \in [Thread -> ProducerPC \cup ConsumerPC \cup CloserPC]
  BY <1>type DEF PcTypeOK
<1>1. CASE WorkerPopped
  BY <1>1, <1>type DEF WorkerPopped, PopReturn, Holding, Popped
<1>2. CASE WorkerTest
  BY <1>2, <1>type DEF WorkerTest, Holding, Popped, WorkerOutsidePop
<1>3. ASSUME QuietStep \/ PopTake \/ \E p \in Producers : PushStore(p) \/ PushEvict(p) \/ PushReturn(p),
             work' = work
      PROVE  /\ Holding => Holding'
             /\ work = "write" => work' = "write"
  <2>1. Popped => Popped'
    <3>1. CASE QuietStep
      BY <3>1, <1>type, QuietStepKeeps
    <3>2. CASE PopTake
      BY <3>2, <1>own, <1>pc DEF PopTake, Step, Popped
    <3>3. ASSUME NEW p \in Producers, PushStore(p) \/ PushEvict(p) \/ PushReturn(p)
          PROVE  pc'[Consumer] = pc[Consumer]
      BY <3>3, <1>own, <1>pc DEF PushStore, PushEvict, PushReturn, Step
    <3> QED
      BY <1>3, <3>1, <3>2, <3>3 DEF Popped
  <2> QED
    BY <1>3, <2>1 DEF Holding
<1>4. CASE WorkerPop \/ Spurious \/ StopShutdown \/ \E c \in Client : Log(c) \/ LogPush(c) \/ LogReturn(c)
  <2>1. QuietStep \/ PopTake \/ \E p \in Producers : PushStore(p) \/ PushEvict(p) \/ PushReturn(p)
    BY <1>4 DEF WorkerPop, Spurious, StopShutdown, Log, LogPush, LogReturn, Push, Pop, QuietStep, Client
  <2>2. work' = work
    BY <1>4 DEF WorkerPop, Spurious, StopShutdown, Log, LogPush, LogReturn
  <2> QED
    BY <1>3, <2>1, <2>2
<1>5. ASSUME UNCHANGED queueVars, work = "write" <=> work' = "write"
      PROVE  /\ Holding => Holding'
             /\ work = "write" => work' = "write"
  BY <1>5 DEF queueVars, Holding, Popped
<1>6. CASE WorkerCount \/ WorkerCheck \/ WorkerNotify \/ WorkerFlush
  <2>1. UNCHANGED queueVars /\ (work = "write" <=> work' = "write")
    BY <1>6 DEF WorkerCount, WorkerCheck, WorkerNotify, WorkerFlush
  <2> QED
    BY <1>5, <2>1
<1>7. CASE \/ Constructed \/ Stop \/ StopJoin \/ Finished \/ UNCHANGED vars
           \/ \E c \in Client : \/ Flush(c) \/ FlushLock(c) \/ FlushLoadFirst(c)
                                \/ FlushLoadSecond(c) \/ FlushSinks(c)
                                \/ FlushReturn(c) \/ FlushSpuriousWake(c)
  <2>1. UNCHANGED queueVars /\ work' = work
    BY <1>7 DEF Constructed, Stop, StopJoin, Finished, Flush, FlushLock, FlushLoadFirst,
                FlushLoadSecond, Decide, FlushSinks, FlushReturn, FlushSpuriousWake, vars
  <2> QED
    BY <1>5, <2>1
<1> QED
  BY <1>1, <1>2, <1>4, <1>6, <1>7 DEF Next, ClientStep, Worker, Stopping

\* The three kinds of steps of Delivery, in terms of Way.
WaySubmit == \E c \in Client :
  /\ calls' = [calls EXCEPT ![c] = @ + 1]
  /\ Way' = Way \cup {<<c, calls[c] + 1>>}
  /\ UNCHANGED written

WayDeliver == \E r \in Way \cap Record :
  /\ \A other \in Way : other[1] = r[1] => r[2] <= other[2]
  /\ written' = Append(written, r)
  /\ Way' = Way \ {r}
  /\ UNCHANGED calls

WayLose == \E r \in Way \cap Record : Way' = Way \ {r} /\ UNCHANGED <<calls, written>>

WayIdle == UNCHANGED <<Way, calls, written>>

\* The worker's record is the oldest of its client that is on its way.
LEMMA WriteWay ==
  ASSUME TypeInv, RingInv, WayIs, WayIs', WorkerWrite
  PROVE  WayDeliver \/ WayLose
<1> DEFINE h == record[Consumer]
<1>1. /\ work = "write" /\ work' = "count"
      /\ UNCHANGED <<ring, built, pc, record, calls>>
      /\ written' = Append(written, h) \/ written' = written
  BY DEF WorkerWrite, queueVars
<1>2. Holding /\ ~Holding'
  BY <1>1 DEF Holding, Popped, TypeInv, CountInv, WorkerOutsidePop
<1>3. OrderInv /\ h \in Record /\ InHand(h) /\ Sent(h)
  BY <1>2 DEF TypeInv, OrderInv, InHand
<1>4. \A r : /\ Queued(r)' <=> Queued(r)
             /\ Carried(r)' <=> Carried(r)
             /\ ~InHand(r)' /\ (InHand(r) <=> r = h)
  BY <1>1, <1>2 DEF Queued, Contents, Carried, Offers, InHand, ring, built
<1>5. h \in Way /\ Way' = Way \ {h}
  <2>1. ~Queued(h) /\ ~Carried(h)
    BY <1>3, OnePlace
  <2>2. \A r : r \in Way' <=> r \in Way /\ r # h
    BY <1>3, <1>4, <2>1 DEF WayIs
  <2> QED
    BY <1>3, <2>2 DEF WayIs
<1>6. ASSUME NEW other \in Way, other[1] = h[1]
      PROVE  h[2] <= other[2]
  <2>1. other \in Record /\ h[2] \in Nat /\ other[2] \in Nat
    BY <1>3 DEF WayIs, Record
  <2>2. other = h \/ Before(h, other)
    <3>1. CASE Queued(other)
      BY <1>3, <2>1, <3>1 DEF OrderInv
    <3>2. CASE Carried(other)
      BY <1>3, <2>1, <3>2, OnePlace
    <3> QED
      BY <1>4, <3>1, <3>2 DEF WayIs
  <2> QED
    BY <1>6, <2>1, <2>2 DEF Before
<1> HIDE DEF h
<1> QED
  BY <1>1, <1>3, <1>5, <1>6 DEF WayDeliver, WayLose
\* Every other step moves a record from one place to the next, adds one or
\* takes one out.
LEMMA MoveWay ==
  ASSUME TypeInv, TypeInv', RingInv, RingInv', WakeupInv, WayIs, WayIs', [Next]_vars, ~WorkerWrite
  PROVE  WaySubmit \/ WayLose \/ WayIdle
<1>written. written' = written /\ (Holding' => Holding \/ Popped')
  BY WorkerKeeps
<1>kept. (Holding => Holding') /\ (work = "write" => work' = "write")
  BY HandKept
<1>order. /\ OrderInv /\ Contents \in Seq(Record) /\ Len(Contents) \in Nat
          /\ Offers = [p \in Producers |-> Offers[p]]
  BY LenProperties DEF TypeInv, OrderInv, Offers
<1>rec. /\ NoRecord \notin Record
        /\ \A r \in Record : r[1] \in Producers
  BY QueueAssumption DEF Record
<1>members. \A r : /\ Queued(r) <=> r \in Members(Contents)
                   /\ Queued(r)' <=> r \in Members(Contents')
  BY DEF Queued, Members
\* The worker's hands are as they were.
<1>hand. ASSUME record'[Consumer] = record[Consumer], Popped' => Popped
         PROVE  \A r : InHand(r)' <=> InHand(r)
  <2>1. Holding' <=> Holding
    BY <1>hand, <1>written, <1>kept DEF Holding
  <2> QED
    BY <1>hand, <2>1 DEF InHand
<1>1. CASE Resting /\ UNCHANGED Offers
  <2>1. \A r : /\ Queued(r)' <=> Queued(r)
               /\ Carried(r)' <=> Carried(r)
               /\ InHand(r)' <=> InHand(r)
    BY <1>1, <1>hand DEF Resting, Queued, Carried
  <2>2. Way' = Way
    BY <2>1 DEF WayIs
  <2> QED
    BY <1>1, <1>written, <2>2 DEF Resting, WayIdle
<1>2. ASSUME NEW p \in Producers, Called(p)
      PROVE  WaySubmit
  <2> DEFINE s == <<p, calls[p] + 1>>
  <2>1. s \in Record /\ s[1] = p
    BY <1>2 DEF Called
  <2>2. \A r \in Record : Carried(r)' <=> Carried(r) \/ r = s
    <3>1. \A q \in Producers : Offers'[q] = IF q = p THEN s ELSE Offers[q]
      BY <1>2, <1>order DEF Called
    <3>2. ASSUME NEW r \in Record PROVE Carried(r)' <=> Carried(r) \/ r = s
      <4>1. CASE r[1] = p
        <5>1. ~Carried(r)
          BY <1>2, <1>rec, <4>1 DEF Called, Carried
        <5>2. Carried(r)' <=> r = s
          BY <3>1, <4>1 DEF Carried
        <5> QED
          BY <5>1, <5>2
      <4>2. CASE r[1] # p
        BY <1>rec, <2>1, <3>1, <4>2 DEF Carried
      <4> QED
        BY <4>1, <4>2
    <3> QED
      BY <3>2
  <2>3. \A r : (Queued(r)' <=> Queued(r)) /\ (InHand(r)' <=> InHand(r))
    BY <1>2, <1>hand DEF Called, Queued
  <2>4. Way' = Way \cup {s}
    <3> HIDE DEF s
    <3>1. \A r : r \in Way' <=> r \in Way \/ r = s
      BY <2>1, <2>2, <2>3 DEF WayIs
    <3> QED
      BY <3>1
  <2> QED
    BY <1>2, <1>written, <2>4 DEF Called, WaySubmit, Client
<1>3. ASSUME NEW p \in Producers, Answered(p),
             \/ Contents' = Append(Contents, Offers[p])
             \/ Contents # <<>> /\ Contents' = Append(Tail(Contents), Offers[p])
             \/ Contents' = Contents
      PROVE  WayLose \/ WayIdle
  <2> DEFINE s == Offers[p]
             h == Head(Contents)
  <2>1. s \in Record /\ s[1] = p /\ Carried(s) /\ s \in Way
    BY <1>3 DEF Answered, Carried, WayIs
  <2>2. ~Queued(s) /\ ~InHand(s)
    BY <1>order, <2>1, OnePlace
  <2>3. \A r \in Record : Carried(r)' <=> Carried(r) /\ r # s
    <3>1. \A q \in Producers : Offers'[q] = IF q = p THEN NoRecord ELSE Offers[q]
      BY <1>3, <1>order DEF Answered
    <3>2. ASSUME NEW r \in Record PROVE Carried(r)' <=> Carried(r) /\ r # s
      <4>1. CASE r[1] = p
        BY <1>rec, <3>1, <4>1 DEF Carried
      <4>2. CASE r[1] # p
        BY <1>rec, <2>1, <3>1, <4>2 DEF Carried
      <4> QED
        BY <4>1, <4>2
    <3> QED
      BY <3>2
  <2>4. \A r : InHand(r)' <=> InHand(r)
    BY <1>3, <1>hand DEF Answered
  <2>5. calls' = calls /\ written' = written
    BY <1>3, <1>written DEF Answered
  <2> HIDE DEF s, h
  <2>6. CASE Contents' = Append(Contents, s)
    <3>1. Members(Contents') = Members(Contents) \cup {s}
      BY <1>order, <2>1, <2>6, AppendMembers
    <3>2. \A r \in Record : Queued(r)' <=> Queued(r) \/ r = s
      BY <1>members, <3>1
    <3>3. \A r : r \in Way' <=> r \in Way
      BY <2>1, <2>3, <2>4, <3>2 DEF WayIs
    <3> QED
      BY <2>5, <3>3 DEF WayIdle
  \* The oldest record gives way.
  <2>7. CASE Contents # <<>> /\ Contents' = Append(Tail(Contents), s)
    <3>1. /\ Tail(Contents) \in Seq(Record) /\ Behind(h, Tail(Contents))
          /\ Members(Contents) = Members(Tail(Contents)) \cup {h}
      BY <1>order, <2>7, TailElements, TailChain, TailMembers DEF OrderInv, h
    <3>2. Members(Contents') = Members(Tail(Contents)) \cup {s}
      <4> DEFINE rest == Tail(Contents)
      <4>1. rest \in Seq(Record) /\ Contents' = Append(rest, s)
        BY <2>7, <3>1
      <4> HIDE DEF rest
      <4>2. Members(Contents') = Members(rest) \cup {s}
        BY <2>1, <4>1, AppendMembers
      <4> QED
        BY <4>2 DEF rest
    <3>3. h \in Record /\ Queued(h) /\ ~InHand(h) /\ ~Carried(h)
      <4>1. Queued(h)
        BY <1>members, <3>1
      <4>2. h \in Record
        BY <4>1, <1>order, LenProperties DEF Queued
      <4> QED
        BY <1>order, <4>1, <4>2, OnePlace
    <3>4. h \notin Members(Tail(Contents))
      <4>1. h[2] \in Nat
        BY <3>3 DEF Record
      <4> QED
        BY <4>1, <3>1 DEF Behind, Before, Members
    <3>5. \A r \in Record : Queued(r)' <=> (Queued(r) /\ r # h) \/ r = s
      BY <1>members, <3>1, <3>2, <3>4
    <3>6. \A r : r \in Way' <=> r \in Way /\ r # h
      BY <2>1, <2>3, <2>4, <3>3, <3>5 DEF WayIs
    <3>7. h \in Way /\ Way' = Way \ {h}
      BY <3>3, <3>6 DEF WayIs
    <3> QED
      BY <2>5, <3>3, <3>7 DEF WayLose
  \* The record is refused.
  <2>8. CASE Contents' = Contents
    <3>1. \A r : Queued(r)' <=> Queued(r)
      BY <1>members, <2>8
    <3>2. \A r : r \in Way' <=> r \in Way /\ r # s
      BY <2>1, <2>2, <2>3, <2>4, <3>1 DEF WayIs
    <3>3. Way' = Way \ {s}
      BY <3>2
    <3> QED
      BY <2>1, <2>5, <3>3 DEF WayLose
  <2> QED
    BY <1>3, <2>6, <2>7, <2>8 DEF s
<1>4. CASE Took
  <2> DEFINE h == Head(Contents)
  <2>1. ~Holding
    <3>1. work' = "pop"
      BY <1>4 DEF Took, Popped, TypeInv, CountInv, WorkerOutsidePop
    <3>2. ~Popped
      BY <1>4 DEF Took
    <3> QED
      BY <1>kept, <3>1, <3>2 DEF Holding
  <2>2. \A r : ~InHand(r) /\ (InHand(r)' <=> r = h)
    BY <1>4, <2>1 DEF Took, InHand, Holding
  <2>3. Members(Contents) = Members(Contents') \cup {h}
    BY <1>4, <1>order, TailMembers DEF Took
  <2>4. \A r : Queued(r)' \/ r = h <=> Queued(r)
    BY <1>members, <2>3
  <2>5. \A r : r \in Way' <=> r \in Way
    BY <1>4, <2>2, <2>4 DEF Took, Carried, WayIs
  <2> QED
    BY <1>4, <1>written, <2>5 DEF Took, WayIdle
<1> QED
  BY <1>1, <1>2, <1>3, <1>4, BackendStepsQueue, PlacesStep
-----------------------------------------------------------------------------
(* The steps of Delivery *)

\* What is on its way of each client follows from what is on its way at all.
LEMMA OneClientsWay ==
  ASSUME NEW c \in Client, NEW x, x[1] = c
  PROVE  /\ Way' = Way \cup {x} => OnTheWay' = [OnTheWay EXCEPT ![c] = @ \cup {x}]
         /\ Way' = Way \ {x} => OnTheWay' = [OnTheWay EXCEPT ![c] = @ \ {x}]
         /\ OnTheWay[c] = {r \in Way : r[1] = c}
<1>1. /\ OnTheWay = [d \in Client |-> {r \in Way : r[1] = d}]
      /\ OnTheWay' = [d \in Client |-> {r \in Way' : r[1] = d}]
  BY DEF OnTheWay, Way
<1>2. ASSUME Way' = Way \cup {x}
      PROVE  \A d \in Client : {r \in Way' : r[1] = d} =
               IF d = c THEN {r \in Way : r[1] = d} \cup {x} ELSE {r \in Way : r[1] = d}
  BY <1>2
<1>3. ASSUME Way' = Way \ {x}
      PROVE  \A d \in Client : {r \in Way' : r[1] = d} =
               IF d = c THEN {r \in Way : r[1] = d} \ {x} ELSE {r \in Way : r[1] = d}
  BY <1>3
<1> DEFINE Of(d) == {r \in Way : r[1] = d}
<1>4. OnTheWay = [d \in Client |-> Of(d)] /\ OnTheWay[c] = Of(c)
  BY <1>1
<1>5. ASSUME Way' = Way \cup {x}
      PROVE  OnTheWay' = [OnTheWay EXCEPT ![c] = @ \cup {x}]
  <2>1. OnTheWay' = [d \in Client |-> IF d = c THEN Of(d) \cup {x} ELSE Of(d)]
    BY <1>1, <1>2, <1>5
  <2> HIDE DEF Of
  <2> QED
    BY <1>4, <2>1
<1>6. ASSUME Way' = Way \ {x}
      PROVE  OnTheWay' = [OnTheWay EXCEPT ![c] = @ \ {x}]
  <2>1. OnTheWay' = [d \in Client |-> IF d = c THEN Of(d) \ {x} ELSE Of(d)]
    BY <1>1, <1>3, <1>6
  <2> HIDE DEF Of
  <2> QED
    BY <1>4, <2>1
<1> QED
  BY <1>4, <1>5, <1>6

LEMMA DeliveryStep ==
  ASSUME TypeInv, WaySubmit \/ WayDeliver \/ WayLose \/ WayIdle
  PROVE  [Sinks!Next]_<<calls, OnTheWay, written>>
<1>rec. \A r \in Record : r[1] \in Client
  BY DEF Record, Client
<1>1. CASE WaySubmit
  <2>1. PICK c \in Client : /\ calls' = [calls EXCEPT ![c] = @ + 1]
                            /\ Way' = Way \cup {<<c, calls[c] + 1>>}
                            /\ UNCHANGED written
    BY <1>1 DEF WaySubmit
  <2>2. calls'[c] = calls[c] + 1
    BY <2>1 DEF TypeInv, CountInv, QueueTypeOK, Client
  <2>3. OnTheWay' = [OnTheWay EXCEPT ![c] = @ \cup {<<c, calls'[c]>>}]
    BY <2>1, <2>2, OneClientsWay
  <2>4. Sinks!Submit(c)
    BY <2>1, <2>3 DEF Sinks!Submit
  <2> QED
    BY <2>4 DEF Sinks!Next
<1>2. CASE WayDeliver
  <2>1. PICK r \in Way \cap Record : /\ \A other \in Way : other[1] = r[1] => r[2] <= other[2]
                                     /\ written' = Append(written, r)
                                     /\ Way' = Way \ {r}
                                     /\ UNCHANGED calls
    BY <1>2 DEF WayDeliver
  <2> DEFINE c == r[1]
  <2>2. /\ c \in Client /\ OnTheWay[c] = {x \in Way : x[1] = c}
        /\ OnTheWay' = [OnTheWay EXCEPT ![c] = @ \ {r}]
    BY <1>rec, <2>1, OneClientsWay
  <2>3. r \in OnTheWay[c] /\ Sinks!Deliver(c, r)
    BY <2>1, <2>2 DEF Sinks!Deliver
  <2> QED
    BY <2>2, <2>3 DEF Sinks!Next
<1>3. CASE WayLose
  <2>1. PICK r \in Way \cap Record : Way' = Way \ {r} /\ UNCHANGED <<calls, written>>
    BY <1>3 DEF WayLose
  <2> DEFINE c == r[1]
  <2>2. /\ c \in Client /\ OnTheWay[c] = {x \in Way : x[1] = c}
        /\ OnTheWay' = [OnTheWay EXCEPT ![c] = @ \ {r}]
    BY <1>rec, <2>1, OneClientsWay
  <2>3. r \in OnTheWay[c] /\ Sinks!Lose(c, r)
    BY <2>1, <2>2 DEF Sinks!Lose
  <2> QED
    BY <2>2, <2>3 DEF Sinks!Next
<1>4. CASE WayIdle
  BY <1>4 DEF WayIdle, OnTheWay, Way
<1> QED
  BY <1>1, <1>2, <1>3, <1>4

LEMMA DeliveryInit == Init => Sinks!Init
<1> SUFFICES ASSUME Init PROVE Sinks!Init
  OBVIOUS
<1>1. m_size = 0 /\ pc[Consumer] = "idle" /\ work = "test" /\ written = <<>>
      /\ calls = [p \in Producers |-> 0] /\ \A c \in Client : pc[c] = "idle"
  BY DEF Init, QueueInit, Thread, Client
<1>2. Pending = {} /\ Offered = {}
  BY <1>1 DEF Pending, Offered
<1> QED
  BY <1>1, <1>2 DEF Sinks!Init, OnTheWay, Client

\* The asynchronous backend keeps the promise of Backend::log for any number
\* of clients, any capacity and every policy, whether sinks throw or not: of
\* each client the sinks get a record once, after the earlier ones, or it is
\* lost - refused or evicted by push, or given up with an exception (log,
\* Queue::push, Queue::pop and worker_loop).
THEOREM BackendImplementsDelivery == Spec => BackendDelivers
<1>1. Spec => [](RingInv /\ WakeupInv /\ TypeInv)
  BY BackendUsesQueue, RingInvariant, WakeupInvariant, TypeInvariant, PTL
<1>2. RingInv /\ TypeInv => WayIs
  BY WayPlaces DEF TypeInv
<1>3. ASSUME RingInv, RingInv', WakeupInv, TypeInv, TypeInv', WayIs, WayIs', [Next]_vars
      PROVE  [Sinks!Next]_<<calls, OnTheWay, written>>
  BY <1>3, WriteWay, MoveWay, DeliveryStep
<1> QED
  BY <1>1, <1>2, <1>3, DeliveryInit, PTL DEF Spec, BackendDelivers, Sinks!Spec
=============================================================================
