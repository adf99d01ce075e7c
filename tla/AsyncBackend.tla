---------------------------- MODULE AsyncBackend ----------------------------
(***************************************************************************)
(* logger::AsyncBackend (src/async_backend.cpp): client threads log and    *)
(* flush, one worker thread takes records from the queue and writes them,  *)
(* and the owner constructs the backend and destroys it.  The queue is     *)
(* module Queue, with its own control points; the clients are its          *)
(* producers, the worker its consumer and the owner its closer.            *)
(*                                                                         *)
(* The atomics m_running, m_submitted and m_processed are read and written *)
(* one access per action, in program order and with the latest value: the  *)
(* memory orders of the code are not weakened further.  The two loads in   *)
(* flush's predicate are operands of ==, whose order C++ leaves open.      *)
(***************************************************************************)
EXTENDS Queue

CONSTANTS
  MaxFlush,       \* bound: calls to flush per client
  MayThrow,       \* may format or write throw
  StaleRunning    \* what the storage of m_running may hold before its
                  \* initializer runs: any Boolean, or TRUE only

ASSUME AsyncAssumption ==
  /\ MaxFlush \in Nat
  /\ MayThrow \in BOOLEAN
  /\ StaleRunning \subseteq BOOLEAN

Client == Producers
Free   == Closer    \* "nobody": the owner never takes m_flush_mutex

VARIABLES
  owner,          \* how far the owner has come with the backend's life
  m_running, m_submitted, m_processed,
  m_flush_mutex,  \* the client that holds it, or Free
  client,         \* where each client is inside log or flush
  loaded,         \* the value flush's predicate has loaded first
  flushes,        \* history: calls each client has made to flush
  work,           \* where the worker is in worker_loop
  draining,       \* has it left the first loop for the second
  written,        \* the records given to the sinks, in order
  failed,         \* history: the records whose format or write threw
  flushed,        \* how many of written the sinks have flushed
  logged,         \* history: accepted records whose log call has returned
  due             \* history: logged, as it was when each flush began

counters  == <<m_submitted, m_processed>>
flushVars == <<m_flush_mutex, loaded, flushes, due>>
workVars  == <<work, draining>>
sinkVars  == <<written, failed, flushed>>
vars == <<queueVars, owner, m_running, counters, client, flushVars, workVars,
          sinkVars, logged>>

AsyncTypeOK ==
  /\ QueueTypeOK
  /\ owner \in {"constructing", "alive", "stopping", "joined"}
  /\ m_running \in BOOLEAN
  /\ m_submitted \in Nat /\ m_processed \in Nat
  /\ m_flush_mutex \in Client \cup {Free}
  /\ client \in [Client -> {"idle", "log", "lock", "load", "loadSubmitted",
                            "loadProcessed", "sleep", "flushSinks", "unlock"}]
  /\ loaded \in [Client -> Nat]
  /\ flushes \in [Client -> 0 .. MaxFlush]
  /\ work \in {"test", "pop", "write", "count", "check", "notify", "flush", "exited"}
  /\ draining \in BOOLEAN
  /\ written \in Seq(Record)
  /\ failed \subseteq Record
  /\ flushed \in 0 .. Len(written)
  /\ logged \subseteq Record
  /\ due \in [Client -> SUBSET Record]

\* m_queue and m_worker are initialized before m_running and the counters
\* (the order of the declarations), so the worker already runs.
Init ==
  /\ QueueInit
  /\ owner = "constructing"
  /\ m_running \in StaleRunning
  /\ m_submitted = 0 /\ m_processed = 0
  /\ m_flush_mutex = Free
  /\ client = [c \in Client |-> "idle"]
  /\ loaded = [c \in Client |-> 0]
  /\ flushes = [c \in Client |-> 0]
  /\ work = "test" /\ draining = FALSE
  /\ written = <<>> /\ failed = {} /\ flushed = 0
  /\ logged = {}
  /\ due = [c \in Client |-> {}]

Constructed ==
  /\ owner = "constructing"
  /\ owner' = "alive"
  /\ m_running' = TRUE
  /\ UNCHANGED <<queueVars, counters, client, flushVars, workVars, sinkVars, logged>>

At(c, from, to) == client[c] = from /\ client' = [client EXCEPT ![c] = to]
-----------------------------------------------------------------------------
(* log *)

Log(c) ==
  /\ owner = "alive"
  /\ At(c, "idle", "log")
  /\ PushCall(c)
  /\ UNCHANGED <<owner, m_running, counters, flushVars, workVars, sinkVars, logged>>

LogPush(c) ==
  /\ Push(c)
  /\ UNCHANGED <<owner, m_running, counters, client, flushVars, workVars, sinkVars, logged>>

\* Mutant: log counts a record whatever push answered.
LogReturnUnchecked(c) ==
  /\ At(c, "log", "idle")
  /\ PushReturn(c)
  /\ m_submitted' = m_submitted + 1
  /\ logged' = logged \cup {<<c, calls[c]>>}
  /\ UNCHANGED <<owner, m_running, m_processed, flushVars, workVars, sinkVars>>

\* push has answered.  A record is counted only now, when the worker may
\* already have written it.
LogReturn(c) ==
  /\ At(c, "log", "idle")
  /\ PushReturn(c)
  /\ IF pc[c] = "returnTrue"
     THEN /\ m_submitted' = m_submitted + 1
          /\ logged' = logged \cup {<<c, calls[c]>>}
     ELSE UNCHANGED <<m_submitted, logged>>
  /\ UNCHANGED <<owner, m_running, m_processed, flushVars, workVars, sinkVars>>
-----------------------------------------------------------------------------
(* flush *)

Flush(c) ==
  /\ owner = "alive"
  /\ flushes[c] < MaxFlush
  /\ At(c, "idle", "lock")
  /\ flushes' = [flushes EXCEPT ![c] = @ + 1]
  /\ due' = [due EXCEPT ![c] = logged]
  /\ UNCHANGED <<queueVars, owner, m_running, counters, m_flush_mutex, loaded,
                 workVars, sinkVars, logged>>

\* unique_lock, or the re-lock when a wait returns.
FlushLock(c) ==
  /\ m_flush_mutex = Free
  /\ m_flush_mutex' = c
  /\ At(c, "lock", "load")
  /\ UNCHANGED <<queueVars, owner, m_running, counters, loaded, flushes, due,
                 workVars, sinkVars, logged>>

FlushLoadFirst(c) ==
  /\ \/ /\ At(c, "load", "loadSubmitted")
        /\ loaded' = [loaded EXCEPT ![c] = m_processed]
     \/ /\ At(c, "load", "loadProcessed")
        /\ loaded' = [loaded EXCEPT ![c] = m_submitted]
  /\ UNCHANGED <<queueVars, owner, m_running, counters, m_flush_mutex, flushes, due,
                 workVars, sinkVars, logged>>

\* Mutant: flush waits for m_processed <= m_submitted.
DecideAtMost(c, from, value) ==
  /\ \/ /\ loaded[c] <= value
        /\ At(c, from, "flushSinks")
        /\ UNCHANGED m_flush_mutex
     \/ /\ loaded[c] > value
        /\ At(c, from, "sleep")
        /\ m_flush_mutex' = Free
  /\ loaded' = [loaded EXCEPT ![c] = 0]
  /\ UNCHANGED <<queueVars, owner, m_running, counters, flushes, due, workVars,
                 sinkVars, logged>>

\* The second load decides: go on with the mutex, or wait and release it.
Decide(c, from, value) ==
  /\ \/ /\ loaded[c] = value
        /\ At(c, from, "flushSinks")
        /\ UNCHANGED m_flush_mutex
     \/ /\ loaded[c] # value
        /\ At(c, from, "sleep")
        /\ m_flush_mutex' = Free
  /\ loaded' = [loaded EXCEPT ![c] = 0]
  /\ UNCHANGED <<queueVars, owner, m_running, counters, flushes, due, workVars,
                 sinkVars, logged>>

FlushLoadSecond(c) ==
  \/ Decide(c, "loadSubmitted", m_submitted)
  \/ Decide(c, "loadProcessed", m_processed)

\* m_sinks->flush(), still under m_flush_mutex.
FlushSinks(c) ==
  /\ At(c, "flushSinks", "unlock")
  /\ flushed' = Len(written)
  /\ UNCHANGED <<queueVars, owner, m_running, counters, flushVars, workVars,
                 written, failed, logged>>

FlushReturn(c) ==
  /\ At(c, "unlock", "idle")
  /\ m_flush_mutex' = Free
  /\ due' = [due EXCEPT ![c] = {}]
  /\ UNCHANGED <<queueVars, owner, m_running, counters, loaded, flushes,
                 workVars, sinkVars, logged>>

FlushSpuriousWake(c) ==
  /\ At(c, "sleep", "lock")
  /\ UNCHANGED <<queueVars, owner, m_running, counters, flushVars, workVars,
                 sinkVars, logged>>
-----------------------------------------------------------------------------
(* worker_loop *)

\* Mutant: the worker ends with the first loop.
WorkerTestNoDrain ==
  /\ work = "test"
  /\ \/ m_running /\ work' = "pop" /\ PopCall
     \/ ~m_running /\ work' = "flush" /\ UNCHANGED queueVars
  /\ UNCHANGED <<owner, m_running, counters, client, flushVars, draining, sinkVars, logged>>

\* The condition of either loop up to the call of pop: the first loop loads
\* m_running, the second does not look at it.
WorkerTest ==
  /\ work = "test"
  /\ draining' = (draining \/ ~m_running)
  /\ work' = "pop"
  /\ PopCall
  /\ UNCHANGED <<owner, m_running, counters, client, flushVars, sinkVars, logged>>

WorkerPop ==
  /\ Pop
  /\ UNCHANGED <<owner, m_running, counters, client, flushVars, workVars, sinkVars, logged>>

\* Mutant: the drain loop writes before it looks at pop's answer.
WorkerPoppedUnchecked ==
  /\ work = "pop"
  /\ PopReturn
  /\ work' = IF pc[Consumer] = "returnTrue" \/ draining THEN "write" ELSE "test"
  /\ UNCHANGED <<owner, m_running, counters, client, flushVars, draining, sinkVars, logged>>

WorkerPopped ==
  /\ work = "pop"
  /\ PopReturn
  /\ work' = IF pc[Consumer] = "returnTrue" THEN "write"
             ELSE IF draining THEN "flush" ELSE "test"
  /\ UNCHANGED <<owner, m_running, counters, client, flushVars, draining, sinkVars, logged>>

\* Mutant: after an exception the worker may try again, and the sinks before
\* the one that threw get the record twice.
WorkerWriteRetry ==
  /\ work = "write"
  /\ \/ /\ written' = Append(written, record[Consumer])
        /\ work' = "count"
     \/ /\ MayThrow
        /\ written' = Append(written, record[Consumer])
        /\ UNCHANGED work
  /\ UNCHANGED <<queueVars, owner, m_running, counters, client, flushVars,
                 draining, failed, flushed, logged>>

\* format and write, inside the try block; an exception is swallowed.
WorkerWrite ==
  /\ work = "write"
  /\ \/ /\ written' = Append(written, record[Consumer])
        /\ UNCHANGED failed
     \/ /\ MayThrow
        /\ failed' = failed \cup {record[Consumer]}
        /\ UNCHANGED written
  /\ work' = "count"
  /\ UNCHANGED <<queueVars, owner, m_running, counters, client, flushVars,
                 draining, flushed, logged>>

WorkerCount ==
  /\ work = "count"
  /\ m_processed' = m_processed + 1
  /\ work' = IF draining THEN "test" ELSE "check"
  /\ UNCHANGED <<queueVars, owner, m_running, m_submitted, client, flushVars,
                 draining, sinkVars, logged>>

\* Mutant: the worker compares the count from before its fetch_add.
WorkerCheckBefore ==
  /\ work = "check"
  /\ work' = IF m_processed - 1 = m_submitted THEN "notify" ELSE "test"
  /\ UNCHANGED <<queueVars, owner, m_running, counters, client, flushVars,
                 draining, sinkVars, logged>>

\* Only the worker adds to m_processed, so its local copy is up to date.
WorkerCheck ==
  /\ work = "check"
  /\ work' = IF m_processed = m_submitted THEN "notify" ELSE "test"
  /\ UNCHANGED <<queueVars, owner, m_running, counters, client, flushVars,
                 draining, sinkVars, logged>>

\* lock_guard, notify_all and the release, with nothing in between.
WorkerNotify ==
  /\ work = "notify"
  /\ m_flush_mutex = Free
  /\ client' = [c \in Client |-> IF client[c] = "sleep" THEN "lock" ELSE client[c]]
  /\ work' = "test"
  /\ UNCHANGED <<queueVars, owner, m_running, counters, flushVars, draining,
                 sinkVars, logged>>

\* m_sinks->flush() after the drain, then the thread ends.
WorkerFlush ==
  /\ work = "flush"
  /\ flushed' = Len(written)
  /\ work' = "exited"
  /\ UNCHANGED <<queueVars, owner, m_running, counters, client, flushVars,
                 draining, written, failed, logged>>

Worker == \/ WorkerTest \/ WorkerPop \/ WorkerPopped \/ WorkerWrite
          \/ WorkerCount \/ WorkerCheck \/ WorkerNotify \/ WorkerFlush
-----------------------------------------------------------------------------
(* the destructor: stop *)

\* C++ lets an object be destroyed only when no thread is inside one of its
\* member functions or enters one later.
Stop ==
  /\ owner = "alive"
  /\ \A c \in Client : client[c] = "idle"
  /\ m_running
  /\ m_running' = FALSE
  /\ owner' = "stopping"
  /\ UNCHANGED <<queueVars, counters, client, flushVars, workVars, sinkVars, logged>>

StopShutdown ==
  /\ owner = "stopping"
  /\ ShutdownFlag \/ Shutdown
  /\ UNCHANGED <<owner, m_running, counters, client, flushVars, workVars, sinkVars, logged>>

StopJoin ==
  /\ owner = "stopping"
  /\ pc[Closer] = "closed"
  /\ work = "exited"
  /\ owner' = "joined"
  /\ UNCHANGED <<queueVars, m_running, counters, client, flushVars, workVars,
                 sinkVars, logged>>

Stopping == StopShutdown \/ StopJoin
-----------------------------------------------------------------------------
ClientStep(c) == \/ LogPush(c) \/ LogReturn(c)
                 \/ FlushLoadFirst(c) \/ FlushLoadSecond(c)
                 \/ FlushSinks(c) \/ FlushReturn(c)

Spurious ==
  /\ \E t \in Thread : SpuriousWake(t)
  /\ UNCHANGED <<owner, m_running, counters, client, flushVars, workVars, sinkVars, logged>>

\* The backend is gone; the program goes on without it.
Finished == owner = "joined" /\ UNCHANGED vars

Next ==
  /\ Alive
  /\ \/ Constructed \/ Stop \/ Stopping \/ Finished
     \/ \E c \in Client : \/ Log(c) \/ Flush(c) \/ ClientStep(c) \/ FlushLock(c)
                          \/ FlushSpuriousWake(c)
     \/ Worker
     \/ Spurious

Spec == Init /\ [][Next]_vars

\* Threads inside an operation are scheduled; the worker always is; the owner
\* finishes what it began.  m_flush_mutex can be taken and released over and
\* over while a thread waits for it, so its acquisition needs strong fairness:
\* the mutex starves nobody.  No thread is obliged to log, flush or stop.
Fairness ==
  /\ WF_vars(Alive /\ Constructed)
  /\ WF_vars(Alive /\ Stopping)
  /\ WF_vars(Alive /\ Worker)
  /\ SF_vars(Alive /\ WorkerNotify)
  /\ \A c \in Client : /\ WF_vars(Alive /\ ClientStep(c))
                       /\ SF_vars(Alive /\ FlushLock(c))

FairSpec == Spec /\ Fairness
-----------------------------------------------------------------------------
(* Properties *)

Held == pc[Consumer] \in {"notifyNotFull", "returnTrue"} \/ work \in {"write", "count"}

\* Pushed, but not yet added to m_submitted.
Uncounted == {c \in Client : pc[c] \in {"notifyNotEmpty", "returnTrue"}}

\* Accepted records that the worker has not dealt with.
Pending == {Contents[i] : i \in 1 .. m_size} \cup
           (IF pc[Consumer] \in {"notifyNotFull", "returnTrue"} \/ work = "write"
            THEN {record[Consumer]} ELSE {})

Members(s) == {s[i] : i \in 1 .. Len(s)}

\* Every record that enters the backend is accounted for: what the worker has
\* processed or holds, what is queued and what DropOldest has discarded is what
\* log has counted plus what it has pushed and not counted yet.  flush compares
\* the two counters, so this is what the comparison really says.
Conservation ==
  m_processed + m_size + (IF Held THEN 1 ELSE 0) + evicted
    = m_submitted + Cardinality(Uncounted)

\* The sinks see no empty or moved-from record, each record at most once, and
\* the records of one thread in the order it logged them (queue.hpp: many
\* producers, one consumer; the two loops of worker_loop).
WrittenInOrder ==
  /\ Members(written) \subseteq Record
  /\ \A i, j \in 1 .. Len(written) :
       i < j /\ written[i][1] = written[j][1] => written[i][2] < written[j][2]

\* When the destructor is done, no accepted record has been lost: each one
\* was discarded by DropOldest, failed, or was written and flushed, including
\* those that were still queued when stop() began (the drain loop).
DrainComplete ==
  owner = "joined" =>
    /\ Pending = {}
    /\ flushed = Len(written)
    /\ m_processed + evicted = m_submitted
    /\ evicted = 0 => logged = Members(written) \cup failed

\* flush keeps its word (async_backend.hpp): when it returns, no record that
\* had been logged before the call is still on its way, and those that reached
\* the sinks have been flushed.
FlushComplete ==
  \A c \in Client : client[c] = "unlock" =>
    /\ due[c] \cap Pending = {}
    /\ due[c] \cap Members(written) \subseteq Members(SubSeq(written, 1, flushed))

\* Every call of flush returns.
FlushReturns == \A c \in Client : client[c] = "lock" ~> client[c] = "idle"

\* Every call of log returns, with every policy, also where another thread takes
\* the slot that the worker's wakeup was for.  A queue of no slots is left out:
\* with Block log then waits for a shutdown that the destructor, which waits for
\* the caller, cannot begin.
LogReturns ==
  \A c \in Client : client[c] = "log" /\ m_capacity # 0 ~> client[c] = "idle"

\* The destructor never hangs: the worker notices the shutdown in whichever
\* loop and wait it is, drains the queue and ends.
StopReturns == owner = "stopping" ~> owner = "joined"
=============================================================================
