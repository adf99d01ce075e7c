------------------------------- MODULE Queue --------------------------------
(***************************************************************************)
(* logger::Queue, the bounded multi-producer single-consumer ring between  *)
(* the logging threads and the worker (src/queue.cpp).                     *)
(*                                                                         *)
(* The body of push, pop and shutdown between taking m_mutex and releasing *)
(* it (or entering a wait, which releases it) is one action; everything    *)
(* done outside the mutex - the notifications, the return - is an action   *)
(* of its own, so a thread can be overtaken between unlock() and           *)
(* notify_one().  A thread woken from a condition variable must take the   *)
(* mutex again: it is back at the control point where it tests its         *)
(* predicate, beside threads that have just arrived.                       *)
(***************************************************************************)
EXTENDS Naturals, FiniteSets, Sequences

CONSTANTS
  Producers,   \* the threads that call push
  Consumer,    \* the single thread that calls pop
  Closer,      \* the thread that calls shutdown
  Capacities,  \* the values m_capacity may be constructed with
  Policies,    \* the values m_policy may be constructed with
  MaxPush,     \* bound: calls to push per producer
  NoRecord     \* an empty or moved-from LogRecord

AllPolicies == {"Block", "DropNewest", "DropOldest", "Discard"}

ASSUME QueueAssumption ==
  /\ Consumer \notin Producers
  /\ Closer \notin Producers \cup {Consumer}
  /\ IsFiniteSet(Producers)
  /\ Capacities \subseteq Nat
  /\ Policies \subseteq AllPolicies
  /\ MaxPush \in Nat
  /\ NoRecord \notin Producers \X (1 .. MaxPush)

Thread == Producers \cup {Consumer, Closer}
Record == Producers \X (1 .. MaxPush)   \* <<p, n>> is the n-th record of p

VARIABLES
  m_buffer, m_head, m_tail, m_size,   \* the ring
  m_capacity, m_policy, m_shutdown,
  pc,          \* where each thread is inside push, pop or shutdown
  record,      \* the record each thread is pushing, or popped last
  calls,       \* history: calls each producer has made
  evicted      \* history: how many queued records DropOldest discarded

ring      == <<m_buffer, m_head, m_tail, m_size>>
built     == <<m_capacity, m_policy>>   \* fixed by the constructor
queueVars == <<ring, built, m_shutdown, pc, record, calls, evicted>>

Slot  == 0 .. m_capacity - 1
Index == {0} \cup Slot

ProducerPC == {"idle", "push", "waitNotFull", "notifyNotEmpty", "returnTrue",
               "returnFalse", "trap"}
ConsumerPC == {"idle", "pop", "waitNotEmpty", "notifyNotFull", "returnTrue",
               "returnFalse"}
CloserPC   == {"idle", "notifyAllNotEmpty", "notifyAllNotFull", "closed"}

RingTypeOK ==
  /\ m_buffer \in [Slot -> Record \cup {NoRecord}]
  /\ m_head \in Index /\ m_tail \in Index
  /\ m_size \in 0 .. m_capacity

PcTypeOK ==
  /\ pc \in [Thread -> ProducerPC \cup ConsumerPC \cup CloserPC]
  /\ \A p \in Producers : pc[p] \in ProducerPC
  /\ pc[Consumer] \in ConsumerPC
  /\ pc[Closer] \in CloserPC

QueueTypeOK ==
  /\ m_capacity \in Capacities /\ m_policy \in Policies
  /\ RingTypeOK
  /\ m_shutdown \in BOOLEAN
  /\ PcTypeOK
  /\ record \in [Producers \cup {Consumer} -> Record \cup {NoRecord}]
  /\ calls \in [Producers -> 0 .. MaxPush]
  /\ evicted \in Nat

QueueInit ==
  /\ m_capacity \in Capacities /\ m_policy \in Policies
  /\ m_buffer = [i \in Slot |-> NoRecord]
  /\ m_head = 0 /\ m_tail = 0 /\ m_size = 0
  /\ m_shutdown = FALSE
  /\ pc = [t \in Thread |-> "idle"]
  /\ record = [t \in Producers \cup {Consumer} |-> NoRecord]
  /\ calls = [p \in Producers |-> 0]
  /\ evicted = 0

Step(t, from, to) == pc[t] = from /\ pc' = [pc EXCEPT ![t] = to]

(***************************************************************************)
(* Condition variables.  notify_one wakes one of the threads waiting at    *)
(* the given control point, or none if there is none; notify_all wakes     *)
(* every one.  The caller t moves on in the same step: no code of t lies   *)
(* between the notification and that point.                                *)
(***************************************************************************)
WaitersAt(point) == {t \in Thread : pc[t] = point}

NotifyOne(t, to, point, woken) ==
  IF WaitersAt(point) = {}
  THEN pc' = [pc EXCEPT ![t] = to]
  ELSE \E w \in WaitersAt(point) : pc' = [pc EXCEPT ![t] = to, ![w] = woken]

NotifyAll(t, to, point, woken) ==
  pc' = [s \in Thread |-> IF s = t THEN to
                          ELSE IF pc[s] = point THEN woken ELSE pc[s]]

\* The standard lets a wait return without a notification.
SpuriousWake(t) ==
  /\ \/ Step(t, "waitNotFull", "push")
     \/ Step(t, "waitNotEmpty", "pop")
  /\ UNCHANGED <<ring, built, m_shutdown, record, calls, evicted>>
-----------------------------------------------------------------------------
(* push *)

PushCall(p) ==
  /\ calls[p] < MaxPush
  /\ Step(p, "idle", "push")
  /\ calls' = [calls EXCEPT ![p] = @ + 1]
  /\ record' = [record EXCEPT ![p] = <<p, calls[p] + 1>>]
  /\ UNCHANGED <<ring, built, m_shutdown, evicted>>

\* Block: the predicate of m_not_full.wait is false.
PushWait(p) ==
  /\ m_policy = "Block"
  /\ ~(m_size < m_capacity \/ m_shutdown)
  /\ Step(p, "push", "waitNotFull")
  /\ UNCHANGED <<ring, built, m_shutdown, record, calls, evicted>>

\* The three early returns.
PushRefuse(p) ==
  /\ \/ m_policy = "Block" /\ m_shutdown
     \/ m_policy \in {"DropNewest", "Discard"} /\ m_size = m_capacity
  /\ Step(p, "push", "returnFalse")
  /\ UNCHANGED <<ring, built, m_shutdown, record, calls, evicted>>

StoreAtTail(p) ==
  /\ m_buffer' = [m_buffer EXCEPT ![m_tail] = record[p]]
  /\ m_tail' = (m_tail + 1) % m_capacity
  /\ record' = [record EXCEPT ![p] = NoRecord]
  /\ UNCHANGED <<built, m_shutdown, calls>>

\* There is room.  Only Block looks at m_shutdown.
PushStore(p) ==
  /\ m_size < m_capacity
  /\ m_policy = "Block" => ~m_shutdown
  /\ Step(p, "push", "notifyNotEmpty")
  /\ StoreAtTail(p)
  /\ m_size' = m_size + 1
  /\ UNCHANGED <<m_head, evicted>>

\* Mutant: the eviction forgets --m_size.
PushEvictUncounted(p) ==
  /\ m_policy = "DropOldest"
  /\ m_capacity # 0 /\ m_size = m_capacity
  /\ Step(p, "push", "notifyNotEmpty")
  /\ m_head' = (m_head + 1) % m_capacity
  /\ StoreAtTail(p)
  /\ evicted' = evicted + 1
  /\ m_size' = m_size + 1

\* Mutant: the eviction forgets to advance m_head.
PushEvictInPlace(p) ==
  /\ m_policy = "DropOldest"
  /\ m_capacity # 0 /\ m_size = m_capacity
  /\ Step(p, "push", "notifyNotEmpty")
  /\ StoreAtTail(p)
  /\ evicted' = evicted + 1
  /\ UNCHANGED <<m_head, m_size>>

\* DropOldest on a full ring: --m_size and the later ++m_size cancel out.
PushEvict(p) ==
  /\ m_policy = "DropOldest"
  /\ m_capacity # 0 /\ m_size = m_capacity
  /\ Step(p, "push", "notifyNotEmpty")
  /\ m_head' = (m_head + 1) % m_capacity
  /\ StoreAtTail(p)
  /\ evicted' = evicted + 1
  /\ UNCHANGED m_size

\* DropOldest on a ring of no slots: (m_head + 1) % 0 stops the process.
PushTrap(p) ==
  /\ m_policy = "DropOldest" /\ m_capacity = 0
  /\ Step(p, "push", "trap")
  /\ UNCHANGED <<ring, built, m_shutdown, record, calls, evicted>>

\* Mutant: push notifies the wrong condition variable.
PushNotifyNotFull(p) ==
  /\ pc[p] = "notifyNotEmpty"
  /\ NotifyOne(p, "returnTrue", "waitNotFull", "push")
  /\ UNCHANGED <<ring, built, m_shutdown, record, calls, evicted>>

\* m_not_empty.notify_one(), after the mutex has been released.
PushNotify(p) ==
  /\ pc[p] = "notifyNotEmpty"
  /\ NotifyOne(p, "returnTrue", "waitNotEmpty", "pop")
  /\ UNCHANGED <<ring, built, m_shutdown, record, calls, evicted>>

PushReturn(p) ==
  /\ pc[p] \in {"returnTrue", "returnFalse"}
  /\ pc' = [pc EXCEPT ![p] = "idle"]
  /\ record' = [record EXCEPT ![p] = NoRecord]
  /\ UNCHANGED <<ring, built, m_shutdown, calls, evicted>>

Push(p) == \/ PushWait(p)
           \/ PushRefuse(p)
           \/ PushStore(p)
           \/ PushEvict(p)
           \/ PushTrap(p)
           \/ PushNotify(p)
-----------------------------------------------------------------------------
(* pop *)

PopCall ==
  /\ Step(Consumer, "idle", "pop")
  /\ UNCHANGED <<ring, built, m_shutdown, record, calls, evicted>>

PopWait ==
  /\ ~(m_size > 0 \/ m_shutdown)
  /\ Step(Consumer, "pop", "waitNotEmpty")
  /\ UNCHANGED <<ring, built, m_shutdown, record, calls, evicted>>

\* Mutant: pop ends as soon as the queue is shut down.
PopEndUndrained ==
  /\ m_shutdown
  /\ Step(Consumer, "pop", "returnFalse")
  /\ UNCHANGED <<ring, built, m_shutdown, record, calls, evicted>>

\* Shut down and drained: the caller's record keeps its old value.
PopEnd ==
  /\ m_size = 0 /\ m_shutdown
  /\ Step(Consumer, "pop", "returnFalse")
  /\ UNCHANGED <<ring, built, m_shutdown, record, calls, evicted>>

PopTake ==
  /\ m_size > 0
  /\ Step(Consumer, "pop", "notifyNotFull")
  /\ record' = [record EXCEPT ![Consumer] = m_buffer[m_head]]
  /\ m_buffer' = [m_buffer EXCEPT ![m_head] = NoRecord]
  /\ m_head' = (m_head + 1) % m_capacity
  /\ m_size' = m_size - 1
  /\ UNCHANGED <<m_tail, built, m_shutdown, calls, evicted>>

\* Mutant: pop notifies the wrong condition variable.
PopNotifyNotEmpty ==
  /\ pc[Consumer] = "notifyNotFull"
  /\ NotifyOne(Consumer, "returnTrue", "waitNotEmpty", "pop")
  /\ UNCHANGED <<ring, built, m_shutdown, record, calls, evicted>>

\* m_not_full.notify_one(), after the mutex has been released.
PopNotify ==
  /\ pc[Consumer] = "notifyNotFull"
  /\ NotifyOne(Consumer, "returnTrue", "waitNotFull", "push")
  /\ UNCHANGED <<ring, built, m_shutdown, record, calls, evicted>>

PopReturn ==
  /\ pc[Consumer] \in {"returnTrue", "returnFalse"}
  /\ pc' = [pc EXCEPT ![Consumer] = "idle"]
  /\ UNCHANGED <<ring, built, m_shutdown, record, calls, evicted>>

Pop == PopWait \/ PopEnd \/ PopTake \/ PopNotify
-----------------------------------------------------------------------------
(* shutdown *)

ShutdownFlag ==
  /\ Step(Closer, "idle", "notifyAllNotEmpty")
  /\ m_shutdown' = TRUE
  /\ UNCHANGED <<ring, built, record, calls, evicted>>

\* Mutant: shutdown does not notify m_not_empty.
ShutdownSkipEmpty ==
  /\ Step(Closer, "notifyAllNotEmpty", "notifyAllNotFull")
  /\ UNCHANGED <<ring, built, m_shutdown, record, calls, evicted>>

ShutdownNotifyEmpty ==
  /\ pc[Closer] = "notifyAllNotEmpty"
  /\ NotifyAll(Closer, "notifyAllNotFull", "waitNotEmpty", "pop")
  /\ UNCHANGED <<ring, built, m_shutdown, record, calls, evicted>>

\* Mutant: shutdown wakes only one of the blocked producers.
ShutdownNotifyOneFull ==
  /\ pc[Closer] = "notifyAllNotFull"
  /\ NotifyOne(Closer, "closed", "waitNotFull", "push")
  /\ UNCHANGED <<ring, built, m_shutdown, record, calls, evicted>>

ShutdownNotifyFull ==
  /\ pc[Closer] = "notifyAllNotFull"
  /\ NotifyAll(Closer, "closed", "waitNotFull", "push")
  /\ UNCHANGED <<ring, built, m_shutdown, record, calls, evicted>>

Shutdown == ShutdownNotifyEmpty \/ ShutdownNotifyFull
-----------------------------------------------------------------------------
\* A trap stops every thread of the process.
Alive == \A p \in Producers : pc[p] # "trap"

QueueNext ==
  /\ Alive
  /\ \/ \E p \in Producers : PushCall(p) \/ Push(p) \/ PushReturn(p)
     \/ PopCall \/ Pop \/ PopReturn
     \/ ShutdownFlag \/ Shutdown
     \/ \E t \in Thread : SpuriousWake(t)

QueueSpec == QueueInit /\ [][QueueNext]_queueVars

\* A thread that has entered an operation is scheduled until it leaves it,
\* and the consumer keeps calling pop.  Nobody is obliged to log or to shut
\* the queue down, and no spurious wakeup is owed.
QueueFairness ==
  /\ \A p \in Producers : WF_queueVars(Alive /\ (Push(p) \/ PushReturn(p)))
  /\ WF_queueVars(Alive /\ (PopCall \/ Pop \/ PopReturn))
  /\ WF_queueVars(Alive /\ Shutdown)

QueueFairSpec == QueueSpec /\ QueueFairness
-----------------------------------------------------------------------------
(* Properties *)

\* The queued records, oldest first.
Contents == [i \in 1 .. m_size |-> m_buffer[(m_head + i - 1) % m_capacity]]

Live(i) == \E k \in 0 .. m_size - 1 : i = (m_head + k) % m_capacity

\* The indexes of the ring never disagree: the slot after the newest
\* record is where m_tail points, the m_size slots from m_head on hold records
\* and no other slot does - so push never overwrites a queued record and pop
\* never hands out an empty or moved-from one (push and pop, queue.cpp).
RingCoherent ==
  m_capacity # 0 =>
    /\ m_tail = (m_head + m_size) % m_capacity
    /\ \A i \in Slot : m_buffer[i] # NoRecord <=> Live(i)

Waiting == WaitersAt("waitNotFull")
Testing == WaitersAt("push")

FreeSlotAnnounced ==
  ~m_shutdown /\ Waiting # {} /\ m_size < m_capacity
    => Testing # {} \/ pc[Consumer] = "notifyNotFull"

RecordAnnounced ==
  pc[Consumer] = "waitNotEmpty" /\ m_size > 0
    => \/ \E p \in Producers : pc[p] = "notifyNotEmpty"
       \/ pc[Closer] = "notifyAllNotEmpty"

ShutdownAnnounced ==
  m_shutdown =>
    /\ pc[Consumer] = "waitNotEmpty" => pc[Closer] = "notifyAllNotEmpty"
    /\ Waiting # {} => pc[Closer] \in {"notifyAllNotEmpty", "notifyAllNotFull"}

\* No wakeup is lost, although pop and push notify after they have released
\* the mutex and notify one thread only.  While the queue is open, a producer
\* sleeps beside a free slot only if another producer is about to test the
\* predicate or the consumer still owes its notification; the consumer sleeps
\* beside a queued record only if a producer owes one; and after shutdown()
\* only those sleep that its notify_all calls have still to reach.
NoLostWakeup == FreeSlotAnnounced /\ RecordAnnounced /\ ShutdownAnnounced

\* FreeSlotAnnounced is not inductive: with two free slots, one woken
\* producer may take one of them and leave the others asleep.  What is: the
\* producers on their way to the predicate and the notification the consumer
\* owes are together as many as the free slots.
WakeupsCoverFreeSlots ==
  Waiting # {} /\ ~m_shutdown =>
    m_capacity - m_size <=
      Cardinality(Testing) + (IF pc[Consumer] = "notifyNotFull" THEN 1 ELSE 0)

\* Every call of push returns: a blocked producer is not forgotten while the
\* consumer keeps popping, nor after shutdown() (the waits in Queue::push).
\* A queue of no slots is left out: there Block waits for a shutdown that
\* nobody owes it.
PushReturns ==
  \A p \in Producers : pc[p] = "push" /\ m_capacity # 0 ~> pc[p] = "idle"

\* shutdown() gets every thread out of the condition variables for good, the
\* consumer included (queue.hpp: "Wake every waiting thread"), unless the
\* process has stopped.
ShutdownReleases ==
  m_shutdown ~>
    [](Alive => \A t \in Thread : pc[t] \notin {"waitNotFull", "waitNotEmpty"})

\* What a caller of push or pop would see of its call.
Offers == [p \in Producers |->
  IF pc[p] \in {"push", "waitNotFull", "trap"} THEN record[p] ELSE NoRecord]

Verdicts == [p \in Producers |->
  CASE pc[p] \in {"notifyNotEmpty", "returnTrue"} -> "accepted"
    [] pc[p] = "returnFalse" -> "refused"
    [] OTHER -> "none"]

Outcome == CASE pc[Consumer] \in {"notifyNotFull", "returnTrue"} -> "record"
             [] pc[Consumer] = "returnFalse" -> "end"
             [] OTHER -> "none"

Channel == INSTANCE LogChannel WITH
  contents <- Contents,
  capacity <- m_capacity,
  policy   <- m_policy,
  closed   <- m_shutdown,
  offer    <- Offers,
  verdict  <- Verdicts,
  taken    <- record[Consumer],
  outcome  <- Outcome

\* The ring, the waits and the notifications implement the bounded channel:
\* first in first out, the overflow policy decides what a full queue drops,
\* and pop ends only on a queue that is shut down and empty.
ImplementsChannel == Channel!Spec
=============================================================================
