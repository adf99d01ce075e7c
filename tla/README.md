# Verification of logparse

TLA+ models, model-checking runs and machine-checked proofs for the logging
library in this repository. Paths are relative to the repository, whose root is
`src/` here (`src/src/queue.cpp` is the queue's implementation).

## The system

| Component | State | Operations | Talks to |
|---|---|---|---|
| `Queue` (`src/src/queue.cpp`) | ring `m_buffer`, `m_head`, `m_tail`, `m_size`; `m_capacity`, `m_policy`, `m_shutdown`; one mutex, two condition variables | `push`, `pop`, `shutdown` | called by the clients, the worker and the owner of an `AsyncBackend` |
| `AsyncBackend` (`src/src/async_backend.cpp`) | `m_running`, `m_submitted`, `m_processed`, `m_flush_mutex`, `m_flush_cv`, the worker thread | constructor, `log`, `flush`, `worker_loop`, `stop`/destructor | `Queue`, `Formatter`, `SinkManager` |
| `SyncBackend` (`src/src/sync_backend.cpp`) | a thread-local buffer | `log`, `flush` | `Formatter`, `SinkManager`, in the caller's thread |
| `SinkManager` and sinks (`src/src/sink.cpp`) | the list of sinks; a stream and a mutex per sink; a rotating sink also has its sizes and numbered backups | `add_sink`, `write`, `flush`, `rotate` | the file system |
| `Formatter` (`src/src/formatter.cpp`) | `m_pattern`, `m_tokens` under a shared mutex; a thread-local timestamp cache | `set_pattern`, `format` | called by both backends |
| `ConfigParser` (`src/src/parser.cpp`) | none | `parse`, `parse_file`, `parse_*` | produces a `Config` |
| `Logger` (`src/src/logger.cpp`, `src/include/logger/logger.hpp`) | `m_config`, `m_level`, the formatter, the sinks, a backend | constructor, `log`, `flush`, `set_level`, `set_pattern`, `add_sink` | all of the above |

The headers under `src/src/include/` repeat those of `src/include/` and
`src/src/sync_backend.hpp` repeats `sync_backend.cpp`; the build uses neither.

What is hard here, and what makes each component correct:

* **Queue.** Producers sleep on one condition variable and the consumer on
  another; both notifications come after the mutex is released and wake one
  thread. Correct means: the ring indexes agree, the order is first in first
  out, the policy decides what a full queue drops, no wakeup is lost, and
  `shutdown` gets everybody out.
* **AsyncBackend.** A record is in the queue before `m_submitted` counts it, the
  worker compares two counters to decide whether to wake a flush, and it may
  start before the members declared after it are initialized. Correct means:
  every accepted record is written once and in its thread's order, the
  destructor drains the queue and ends, `log` returns, and `flush` returns when
  - and not before - everything logged earlier has been written.
* **Sinks.** One sink may throw while others have written; rotation reads a
  file size that excludes what the stream still buffers, ignores rename errors
  and may fail to reopen, and the process may end in the middle of it. Correct
  means: the files, read from the oldest backup to the live one, are the log in
  order; only the oldest records go; the size is bounded.
* **SyncBackend.** Everything runs in the callers' threads and nothing locks
  across two sinks. Correct means: each sink gets a thread's records at most once
  and in order, with gaps only where an exception was reported, and flush covers
  every sink although others log meanwhile.
* **Formatter.** `set_pattern` races `format`; the pattern compiler has edge
  cases; the timestamp cache is per thread and the clock can step back. Correct
  means: a line is what one pattern, in force during the call, means for its
  record.
* **ConfigParser.** Repeated keys, aliases, invalid values. Correct means: the
  last valid value of each setting wins.
* **Logger.** Its constructor may throw after the backend's worker has started;
  `set_pattern` and `add_sink` are not synchronized with the threads that log.

The hazards are listed line by line in `PROJECT.json`.

## Modules

| Module | Models |
|---|---|
| `LogChannel` | the abstract bounded channel the queue promises: a sequence, a capacity, a policy, a closing |
| `Queue` | `queue.cpp`, thread by thread |
| `QueueProofs` | the theorems about `Queue` |
| `QueueRefinement` | the proof that `Queue` implements `LogChannel` |
| `AsyncBackend` | `async_backend.cpp`, on top of `Queue` |
| `AsyncProofs` | theorems about `AsyncBackend`: its use of the queue, its counters, the order of the records, the types, the destructor, flush for a single client, that it implements `Delivery` |
| `Delivery` | the abstract backend as one sink sees it: a client's records on their way are delivered once, the oldest first, or lost |
| `AsyncDelivery` | the mapping from `AsyncBackend` to `Delivery` |
| `RotatingFileSink` | the rotating sink of `sink.cpp`, with the file system's failures and crashes |
| `Formatter` | `formatter.cpp` as operators: compiling a pattern, rendering a token, the timestamp cache; levels and records |
| `SyncLogger` | a `Logger` with the synchronous backend at run time: `logger.cpp`, `sync_backend.cpp`, `SinkManager`, the sinks |
| `SyncProofs` | theorems about `SyncLogger`: what the sinks have in common, flush, that it implements `Delivery`, the line of a record |
| `ConfigParser` | `parser.cpp` as operators: what a line does to a `Config` |
| `Startup` | reading a configuration file and constructing a `Logger` |
| `Induction` | induction over the natural numbers, for a set |
| `RotationProofs`, `FormatterProofs`, `StartupProofs` | the theorems about `RotatingFileSink`, about `Formatter`, and about `ConfigParser` and `Startup` |
| `MCQueue`, `MCAsyncBackend`, `MCRotation`, `MCSyncLogger`, `MCStartup` | instances for TLC (symmetry sets; the values are in the `.cfg` files) |

### Queue

`m_buffer`, `m_head`, `m_tail`, `m_size`, `m_policy`, `m_capacity` and
`m_shutdown` are the members of the class. `pc[t]` says where thread `t` is
inside `push`, `pop` or `shutdown`, and `record[t]` is its local `LogRecord`.
What a thread does while it holds `m_mutex`, up to the unlock or to a wait
(which unlocks), is one action; a notification and a return are actions of their
own, because other threads may run between `unlock()` and `notify_one()`. A
woken thread goes back to the control point where it takes the mutex and tests
its predicate, so newcomers may overtake it. Waits may also end spuriously.
Wakers choose any sleeping thread.

A capacity of zero is included, since the parser accepts `queue_size=0`:
`DropOldest` then takes a remainder by zero, which stops the process (`PushTrap`),
and `Block` waits for a shutdown.

`LogRecord` is a pair of thread and call number. Records refused by a policy,
moved out of the buffer or not yet written are `NoRecord`. `empty`, `full`,
`size` and `capacity` only read and have no actions.

### AsyncBackend

The clients are the queue's producers, the worker its consumer and the owner,
who constructs and destroys the backend, its closer. Queue actions keep their
grain; `client[c]` and `work` are the positions inside `log`, `flush` and
`worker_loop`. Every access to `m_running`, `m_submitted` or `m_processed` is an
action. The order of the two loads in flush's predicate is free, as C++ leaves
the order of the operands of `==` free.

`m_running` starts with any value of `StaleRunning`: `m_worker` is declared
before `m_running`, so the worker may read the storage before its initializer
runs (`Constructed`). `format` and `write` are one step that appends to
`written` or, when `MayThrow`, throws and is swallowed.

The destructor requires what C++ requires: no client is inside a member
function and none enters one later.

`AsyncDelivery` reads `Delivery`'s `inflight` off the backend: for each client,
its record in the worker's hands, its queued ones and the one its `push`
holds; `submitted` is its number of calls. A refusal, an eviction and a sink that throws are losses.

### RotatingFileSink

`disk[0]` is `m_file` and `disk[n]` its backup `n`, each a sequence of records
with their sizes, or `NoFile`. `stream` says whether `m_stream` is open, and
`buffer` is what its `filebuf` holds back. `write` takes `m_mutex` for its whole
length, so one call is in progress at a time; `call` is its position and `i` the
loop variable of `rotate`. Each operation on the file system is an action
(`Write` reads the size, `Close`, `Rename` for one round of the loop, `Reopen`,
`AppendLine`) because the process can end between two of them (`Crash`, which
loses the buffer) and each can fail in its own way: `exists` or `file_size`
throws before a rotation (`WriteThrows`) or between two of its renames
(`RenameThrows`), `rename` fails and is ignored, the reopen fails and throws.
After the last two exceptions the sink lives on with its stream closed, after
`RenameThrows` also with its backups half renamed, and writes go nowhere until a
rotation succeeds. After a crash or a destruction a new sink takes over the files (`Construct`).

A record that does not fit in the buffer is written out together with what the
buffer holds, as libstdc++ does, so a record is never split by it; the model may
also write out earlier. A `write(2)` that fails, as on a full disk, is left out.

The header says "Rotates when the file reaches max_file_size"
(`src/include/logger/sink.hpp`). What the code compares is the size on disk plus
the new record; `SizeBound` states what follows: the file may exceed the limit
by less than the stream's buffer. A record as large as the limit rotates even an
empty file; `EmptyBackupsExplained` states that this is the only way to an empty
backup.

### Formatter

A pattern is a sequence of characters, a line a sequence of items: `<<c>>` for
a character, `<<kind, value>>` for what a token prints. `CompileStep` is the body
of the loop in `compile_pattern`, with the position it skips to in `next`. A
thread's timestamp cache is the second it stands for (`Refresh`). `Meaning` is
the reference: the table of `formatter.hpp` read from left to right, without
tokens. No directive produces a `Month` token, as `%m` alone is the message;
`append_time_component` still knows it.

### SyncLogger

`Log` is the level filter, `create_record` and the clearing of the thread's
buffer; a call below the level changes nothing and is not a step.
`FormatLock`, one `FormatToken` per token and `FormatDone` are `Formatter::format`
under the shared mutex, `WriteSink` one round of `SinkManager::write`, `FlushSink`
one of `SinkManager::flush`. Calls of one sink are atomic under the sink's mutex.
A sink in `Throwing` may throw (standard output fails, a rotation fails), which
ends the log call. `SetPattern` is `Logger::set_pattern` up to the lock and
`InstallPattern` what it does under it.

A sink is its lines and how many of them it has flushed. `inForce`, `returned`,
`due` and a sink's `since` are history variables: the patterns in force since a
call began, the records whose call returned normally, those of them that a flush
must cover, and those that were there before the sink.

What the code leaves unprotected is a precondition, since C++ gives a race no
outcome: one owner sets the pattern, and sinks are added while no thread is
inside `log` or `flush`.

### ConfigParser and Startup

A line is its words between `=` signs, each with its letters without case, a
flag for capitals and the sides on which white space surrounds it; that is all
that `trim`, `lower`, `find('=')` and the comparisons can tell apart. A word of
white space only has an empty text, and `trim` goes on to the word before it when
it is the last one of a value. `Numeral` gives texts of digits their values, and
`MaxSize` is the largest `size_t`: `parse_size` takes what does not exceed it.
`KeyField` and the `parse_*` tables are the chains of comparisons. `Startup` reads the file
line by line (`ReadLine`), then constructs: the formatter and the backend
(`Construct`), the console sink, the file sink. A file sink that cannot be opened
throws, and `Unwind` destroys what has been built. `BuiltAsAsked` goes from the
file to the logger: its backend, level and sinks are those of the last valid
lines, and the construction fails only when a file cannot be opened. A path without a directory
part is among those: `create_directories("")` throws.

The constructor reads neither the rotation settings nor `flush_on_error` nor
`flush_interval_ms`, which `README.md` lists: they are parsed and checked
(`LastValidWins`) and have no further effect.

## Runs

| Run | Instance | Shows |
|---|---|---|
| `MCQueueSafety` | 3 producers, 2 pushes each, capacities 0, 1, 2, all policies | `QueueTypeOK`, `RingCoherent`, `NoLostWakeup`, `WakeupsCoverFreeSlots` |
| `MCQueueLive` | 2 producers, 2 pushes each, capacities 0, 1, 2, all policies, fair | `ImplementsChannel` (refinement of `LogChannel`), `PushReturns`, `ShutdownReleases` |
| `MCAsyncSafety` | 2 clients, 2 logs and 1 flush each, capacity 1, all policies, throwing sinks, both stale values | `AsyncTypeOK`, `Conservation`, `WrittenInOrder`, `DrainComplete`, `BackendDelivers` (refinement of `Delivery`) |
| `MCAsyncOneClient` | 1 client, 3 logs, 2 flushes, capacity 2, no DropOldest, m_running read as true, fair, deadlock checked | `FlushComplete` and `FlushReturns` hold under these conditions, `LogReturns` |
| `MCAsyncLive` | 2 clients, 2 logs each, no flush, capacities 0 and 1, all policies, both stale values, fair | `LogReturns`, `StopReturns` |
| `MCRotation` | 6 writes of size 1 or 2, `max_file_size` 2 or 3, `max_files` 0 to 2, a buffer of 2, 2 faults | `RotTypeOK`, `OrderAcrossFiles`, `OldestGoFirst`, `SizeBound`, `EmptyBackupsExplained`, `WriteReturns` |
| `MCSyncLogger` | 2 clients, 3 logs and 1 flush in all, 1 setting, 2 patterns, 2 sinks, both may throw, 2 seconds in any order | `SyncTypeOK`, `LineOfOnePattern`, `FanOut`, `FlushDurable`, `SinksDeliver` (refinement of `Delivery` by each sink) |
| `MCStartup` | all files of up to 3 lines out of 25, all patterns of up to 4 out of 7 pieces | `StartTypeOK`, `LastValidWins`, `PatternMeaning`, `BuiltAsAsked` |
| `MCFlushEarly` | 2 clients, Block | violates `FlushComplete` |
| `MCFlushUncounted` | 2 clients, Block, fair | violates `FlushReturns` |
| `MCFlushEvicted` | 1 client, DropOldest, fair | violates `FlushReturns` |
| `MCFlushStale` | 1 client, stale m_running, fair | violates `FlushReturns` |

**Bounds.** `MaxPush` and `MaxFlush` bound the calls per thread; nothing else is
bounded. Three producers on one or two slots give two sleepers beside a
newcomer, which is what lost wakeups and barging need; two pushes per producer
make the ring wrap and every policy meet a full queue; one slot and two clients
make a client block while the other holds the only slot, and two logs of each
let the other take the slot its wakeup was for. `MCAsyncLive` has no flush, which
keeps it small enough for two clients; that the worker's wait for `m_flush_mutex`
holds up neither `log` nor `flush` is checked in `MCAsyncOneClient`. What finite calls
cannot show is starvation by an endless stream of newcomers: a thread woken
from `m_not_full` has no reservation, and with unbounded calls a producer could
be overtaken for ever. `PushReturns` and `LogReturns` speak of finitely many
calls, and of a queue that has a slot: with capacity 0 and `Block`, `push` waits
for a shutdown, and the destructor cannot begin one while its caller is inside
`log`.

`MaxWrites` and `MaxFaults` bound the rotating sink: six records fill the live
file, both backups and the buffer, push the oldest out, and then take up a
rotation that was left half done; two faults let a failed rename meet a crash, or
a failed reopen a second sink; two backups are
the fewest for which the order of the renames matters. In `SyncLogger`, `MaxLog`
and `MaxLogs` bound the logs of one client and of all, `MaxFlush` and `MaxSet`
the flushes and settings: three logs of two clients meet in both sinks in both
orders, and the second log of a client meets its used cache and buffer; one
change of the pattern meets every position of a record, and the two patterns
differ in length and at each place. One flush meets every position of a record;
that it may run beside other flushes is left to the theorem `FlushIsDurable`,
which bounds nothing. `MaxSinks` is 2: the second sink is added
while the first has records. In `MCStartup` three lines give a value, an invalid value or another
name for it, and a line that must not matter, in every order; 16777215 stands for
the largest `size_t`, and the numerals are those of the lines, one of them beyond
it; four pieces hold
every pair of neighbours between two others. The proofs hold whatever the bounds
are.

**Deadlock** is checked only in `MCAsyncOneClient`, where the sole state without
a step is one the module names (`Finished`). Elsewhere threads run out of calls,
or a trap has stopped the process.

**Fairness.** A thread inside an operation is scheduled until it leaves it; the
worker always is; the owner finishes a construction or destruction it has begun.
`m_flush_mutex` can be taken and released again and again while a thread waits
for it, so taking it is strongly fair: the mutex starves nobody. Nobody is
obliged to log, flush or stop, and no spurious wakeup is owed. A call of the
rotating sink that has begun is carried on with (`WF_vars(Step)`), as a running
thread is. `SyncLogger` and `Startup` state no fairness: a `std::shared_mutex`
promises nothing to a writer, so readers that keep coming may keep `set_pattern`
waiting, and nothing else in them waits.

**What the violations say.** `flush` is documented to block "until the worker has
processed everything currently in the queue"
(`src/include/logger/async_backend.hpp`). It compares `m_processed` with
`m_submitted`, and these do not describe the queue:

* `log` counts a record after pushing it. The worker may process an uncounted
  record while a counted one is still queued; the counters agree and flush
  returns early (`MCFlushEarly`). Or the last count comes after the worker's
  last comparison: the counters agree, nobody notifies (`MCFlushUncounted`).
* A record evicted by `DropOldest` was counted and is never processed: the
  counters never agree again (`MCFlushEvicted`).
* The drain loop does not notify; it is entered at once if the worker reads
  `m_running` before its initializer has run (`MCFlushStale`).

`Conservation` is the exact relation between the counters and the queue, and
explains the first two.

## Proofs

The theorems about the queue and the asynchronous backend hold for every finite
set of threads, those about `SyncLogger` for any set; all hold for every value
of the other constants: capacities, policies, sizes, patterns, files, bounds on
the calls, and which sinks throw. They rest on these assumptions:

* `QueueAssumption`: the consumer and the closer are threads of their own, the
  producers are finitely many, a capacity is a natural number (`size_t`, zero
  included), the policies are those of the enumeration, and `NoRecord` is not a
  record.
* `AsyncAssumption`: the bound on flushes is a natural number, `MayThrow` and the
  values of `StaleRunning` are booleans.
* `SyncAssumption`: a pattern is a sequence, levels are those of the enumeration,
  the seconds and the bounds are natural numbers.
* `RotationAssumption`: a record has at least one byte (its newline), the sizes,
  the numbers of backups and the bounds are natural numbers, and `NoFile` is not a
  file.
* `ParserAssumption`: `MaxSize` and the values of the numerals are natural numbers.
* `StartupAssumption`: a file is a sequence of lines, and a line has at least one
  word (`find('=')` leaves one when there is none to find); the words of a pattern
  are sequences of characters.

| Theorem | Says |
|---|---|
| `QueueProofs!TypeCorrect` | the indexes stay inside the ring, `m_size` within the capacity, each thread in its own operation |
| `QueueProofs!RingStaysCoherent` | `RingCoherent`: `m_tail` is `m_size` slots after `m_head`, and exactly the slots between them hold records |
| `QueueProofs!FreeSlotsCovered` | `WakeupsCoverFreeSlots`: wakeups on their way cover the free slots |
| `QueueProofs!WakeupsNotLost` | `NoLostWakeup` |
| `QueueRefinement!QueueImplementsChannel` | every behaviour of the queue is one of `LogChannel` |
| `AsyncProofs!BackendUsesQueue` | every behaviour of the backend is one of `Queue` |
| `AsyncProofs!BackendQueueSafe` | so the theorems above hold inside the backend |
| `AsyncProofs!CountersConserved` | `Conservation` |
| `AsyncProofs!RecordsWrittenInOrder` | `WrittenInOrder` |
| `AsyncProofs!BackendTypeCorrect` | `AsyncTypeOK` |
| `AsyncProofs!DestructorDrains` | `DrainComplete` |
| `AsyncProofs!FlushCompletesAlone` | `FlushComplete` when there is one client |
| `AsyncProofs!BackendImplementsDelivery` | `BackendDelivers`: every behaviour of the backend is one of `Delivery` |
| `SyncProofs!RecordsFanOut` | `FanOut` |
| `SyncProofs!FlushIsDurable` | `FlushDurable` |
| `SyncProofs!SyncLoggerDelivers` | `SinksDeliver`: each of the first two sinks implements `Delivery`; the lemmas hold for every sink |
| `SyncProofs!SyncTypeCorrect` | `SyncTypeOK` |
| `SyncProofs!LinesKeepOnePattern` | `LineOfOnePattern` |
| `RotationProofs!RotationTypeCorrect` | `RotTypeOK` |
| `RotationProofs!FilesStayInOrder` | `OrderAcrossFiles` |
| `RotationProofs!OldestAreGivenUp` | `OldestGoFirst` |
| `RotationProofs!LiveFileBounded` | `SizeBound` |
| `RotationProofs!EmptyBackupsHaveAReason` | `EmptyBackupsExplained` |
| `FormatterProofs!CompiledTokens` | a compiled pattern is a sequence of tokens |
| `FormatterProofs!CompiledPatternPrintsMeaning` | for every pattern and record, `Render` of `compile_pattern` is `Meaning` |
| `StartupProofs!StartTypeCorrect` | `StartTypeOK` |
| `StartupProofs!LastValidLineWins` | `LastValidWins` |
| `StartupProofs!PatternsMeanWhatTheySay` | `PatternMeaning` |
| `StartupProofs!LoggerIsBuiltAsAsked` | `BuiltAsAsked` |

* **Types.** A step moves one thread between control points of its own
  operation (`Belongs`) and wakes others from one of the two waits (`Wait`);
  `MoveTypeOK`, `NotifyOneTypeOK` and `NotifyAllTypeOK` are these facts.
* **Wakeups.** `FreeSlotAnnounced` is not inductive. With two free slots and one
  producer testing its predicate, that producer may take one slot and leave the
  others asleep beside the second one. `WakeupInv` therefore counts: producers
  at the predicate, plus the notification the consumer owes, are at least as many
  as the free slots (`WakeupsCoverFreeSlots`). A store takes one slot and one
  tester away; a pop adds a slot and a notification; a notification that finds a
  sleeper turns into a tester, and one that finds none leaves nobody asleep. It
  also needs that only `Block` has sleeping producers and that `m_shutdown` is
  set exactly when the closer has begun. `CoverImpliesAnnounced` derives
  `NoLostWakeup`. `TestingFinite`, `OneMoreTesting` and `OneLessTesting` are the
  cardinality facts.
* **The ring.** `RingInv` adds `PushersHold` to the types and the coherence of
  the indexes: a thread about to store a record still holds it, so the slot it
  fills is not empty. The lemmas `Around*` and `FullCircle` are the arithmetic of
  `(m_head + k) % m_capacity`: for different `k` below the capacity it is a
  different slot, every slot is reached, and the capacity leads back to `m_head`.
* **Refinement.** `Contents` reads the ring from `m_head` on; `Offers`,
  `Verdicts` and `Outcome` are what callers see of their calls, taken from `pc`.
  Stores map to `Accept` and `Replace` (`StoreAppends`, `EvictReplaces`), takes
  to `Take` (`TakeIsHead`), early returns to `Refuse` and `EndOfStream`; waits,
  notifications and wakeups are stutters (`SameView`).
* **The backend's queue.** `BackendStepsQueue`: each action of the backend is an
  action of the queue or leaves its variables alone, so `Spec => QueueSpec`, and
  the queue's invariants may be used in what follows.
* **The counters.** `Conservation` is inductive once it is known that the worker
  is at rest in the queue whenever it is not in `pop` (`CountInv`). Its sum runs
  over `Uncounted`, the clients that have pushed a record and not counted it; a
  step of the queue adds at most one client to it and the count in `log` takes
  one away.
* **The order.** A record travels from a client that has still to store it
  through the queue and the worker's hands to the sinks. `OrderInv` says that the
  records of one client are in call order along that whole path. `QueueEffect`
  reads off `LogChannel` all that a step of the queue can do to it: nothing,
  append a record, replace the oldest, or hand the oldest to the worker. That the
  path holds real records only gives `AsyncTypeOK`.
* **The drain.** `EndInv`: `m_shutdown` is set only after the last client has
  left, so the end that `pop` reports is final, and the worker flushes after it.
  `FateInv`: without evictions the accepted records are exactly those written,
  failed, in hand or queued. At the join the last two are empty
  (`DrainedAtJoin`).
* **The synchronous logger.** `SyncInv` says of a call how far it has come: a
  client at sink `k` of a write has given its record to every sink before `k`,
  and a client at sink `k` of a flush has flushed what was `due` in every sink
  before `k`. Sinks only grow, flushing only advances, and sinks are added
  between calls, so a step of another client keeps both; at the end of the loop
  they are `FanOut` and `FlushDurable`.
* **Delivery by the backend.** A record on its way is with the client that pushes
  it, in the queue or in the worker's hands (`WayPlaces`), and in one of them only
  (`OnePlace`, from `OrderInv`). `PlacesStep` reads off `LogChannel` how a step of
  the queue moves records between these places; a call adds one, a refusal, an
  eviction and a write take one out, and what the worker writes is the oldest of
  its client (`WriteWay`, `MoveWay`).
* **Delivery by the synchronous logger.** A client `Waits` for sink `s` until its write has come past it.
  `OnTheWay` is that record; the call of log submits it, a write of `s` delivers it, an exception before `s`
  or the end of a call loses it, every other step leaves it (`Seen`, one lemma
  per action).
* **Flush, alone.** `FlushInv` says what the two loads of flush's predicate have
  told the client. With one client that is not inside `log`, nothing is
  uncounted and `Conservation` makes the worker never ahead (`AloneOutsideLog`):
  if the loaded value of one counter is the present value of the other, they are
  equal, and then nothing is queued, held or discarded. With a second client that
  may be inside `log` the step fails, and `MCFlushEarly` is the counterexample.
  No condition on the policy is needed: after an eviction flush does not return.
* **Induction.** The prover cannot use the library's induction theorems, whose
  hypothesis is a predicate. `Induct` states induction for a set instead: a set
  that has 0 and with each number the next has every number. It follows from
  the existence of a least element (`Least`), that from the well-foundedness of
  `<` on the naturals. A recursive function `f[n] == ...` exists and satisfies its
  equation (`SumsDefined`, `PrintedDefined`, `AfterDefined`, `MeaningDefined`)
  because for each `n` there is a function up to `n`, by `Induct`.
* **The rotating sink.** `OrderInv` puts the files, the stream's buffer and the
  record of the call in one order, and is untouched by faults: a failed rename
  leaves a file in place, a crash takes the buffer, which is the newest part, and
  an exception between two renames leaves a gap, which the order does not mind.
  `GoneInv` says where a rotation may lose a record: at the place of the oldest
  backup only. `FaultFreeInv` has the shape of the backups without faults - no
  gap but the one the loop of `rotate` is about to fill - and `SizeInv` the
  comparison in `write`, carried to the append: a write that does not rotate finds
  the file below the limit, and at most a buffer full is not counted. `EmptyInv`
  says that an empty backup has right after it the record it made way for; during
  a rotation the gap may lie between the two, or the record may still be in the
  call.
* **The formatter.** `compile_pattern` goes over the positions of the
  pattern. `CompiledSoFar` is its invariant: at the position it goes on with,
  what the tokens and the pending literal print, followed by the meaning of
  the rest, is the meaning of the whole pattern. `RoundPrintsPiece` is one round,
  a case for each branch of `CompileStep`.
* **The line of a record.** `LineInv`: a client that waits for the mutex or
  holds it has the present pattern among those in force for it; one that holds
  it has printed exactly its tokens so far (`Printed`). A pattern is put in only
  when nobody holds the mutex, so the tokens do not change under a client; at the
  end the buffer is `Render`, which is `Meaning` by the theorem above, and with
  the record's own second whatever the cache held (`RefreshIsNow`). `SyncTypeOK`
  follows from the same invariant.
* **Startup.** `LastInv` is `LastValidWins` for the lines read so far; `ReadLine`
  extends it by one line, whose effect is the one of `Given`. `BuiltInv` ties
  the backend, the tokens and the sinks to the phase of the construction, and
  `PlaceInv` that phase to the end of the file and to whether its sink opens.
  `ConfigIsSetting` reads `LastInv` at the end of the file: every member of the
  `Config` is its `Setting`, so what was built is what the file asks for.

## Left to model checking

Liveness (`PushReturns`, `ShutdownReleases`, `FlushReturns`, `LogReturns`,
`StopReturns`, `WriteReturns`) depends on fairness and is beyond the prover; it is
checked on instances only. `FlushComplete` is false for several clients.

## Not modelled

* Weak memory. Atomic accesses take the latest value in some interleaving;
  `relaxed` and `acquire`/`release` allow more on weakly ordered machines.
* `format` and `write` inside `AsyncBackend` are one step; their own steps are
  in `SyncLogger`. A queued record is formatted with the pattern of the time the
  worker writes it, so a `set_pattern` after `log` applies to it.
* Two threads in `set_pattern`, or `add_sink` during `log`: races, see above.
* The destructor of a `Logger` with the synchronous backend.
* A `write(2)` that fails under a stream; sinks that log themselves and so
  overwrite the thread's buffer.
* The values that numerals and times print; colours; `NullSink`.
* Examples, tests, benchmark and build files.

## Plan

1. The destructor of `Logger` in `SyncLogger`.
