----------------------------- MODULE SyncLogger -----------------------------
(***************************************************************************)
(* A logger::Logger with the synchronous backend, at run time (logger.hpp, *)
(* logger.cpp, sync_backend.cpp, SinkManager and the sinks in sink.cpp):   *)
(* client threads log and flush, and one owner sets the level and the      *)
(* pattern and adds sinks.  The formatter is module Formatter.             *)
(*                                                                         *)
(* A sink holds records; the text of a record is looked at when it is      *)
(* complete in the thread's buffer.  Each call of a sink is one action,    *)
(* under the sink's mutex.  What the code leaves unprotected is used as    *)
(* C++ allows: one thread at a time sets the pattern, and no sink is added *)
(* while a thread is inside log or flush.                                  *)
(***************************************************************************)
EXTENDS Formatter

CONSTANTS
  Clients,     \* the threads that log
  Patterns,    \* the patterns the owner may set
  LogLevels,   \* the severities of the calls
  SetLevels,   \* the levels the owner may set
  Seconds,     \* what the system clock may show; it can step back
  MaxSinks,    \* bound: sinks of the logger
  Throwing,    \* the sinks whose write may throw
  MaxLog,      \* bound: calls of log per client that pass the filter
  MaxLogs,     \* bound: those calls of all clients together
  MaxFlush,    \* bound: calls of flush
  MaxSet       \* bound: calls that set the level or the pattern

\* A pattern is a string of characters.
ASSUME SyncAssumption ==
  /\ \A pattern \in Patterns : pattern \in Seq(ToSet(pattern))
  /\ LogLevels \cup SetLevels \subseteq 0 .. 6
  /\ Seconds \subseteq Nat \ {0}
  /\ MaxSinks \in Nat \ {0}
  /\ MaxLog \in Nat /\ MaxLogs \in Nat /\ MaxFlush \in Nat /\ MaxSet \in Nat

Id == Clients \X (1 .. MaxLog)

VARIABLES
  m_level,       \* Logger's threshold
  config,        \* m_config.pattern
  m_pattern, m_tokens,
  m_mutex,       \* the threads that hold the formatter's mutex, shared
  owner,         \* is the owner in set_pattern, with compiled tokens
  m_sinks,       \* for each sink, its lines and how many of them are flushed
  pc, k,         \* where each client is, and its place in a loop
  record,        \* the record it logs
  tls_buffer, cached_seconds,
  calls,         \* history: log calls each client has made past the filter
  flushes, sets, \* history: calls made, for the bounds
  inForce,       \* history: the patterns in force since a log call began
  returned,      \* history: the records whose log has returned normally
  due            \* history: returned, as it was when each flush began

settings == <<m_level, config, m_pattern, m_tokens, owner, sets>>
local    == <<pc, k, record, tls_buffer, cached_seconds>>
history  == <<calls, flushes, inForce, returned, due>>
vars     == <<settings, m_mutex, m_sinks, local, history>>

NoneOf(x) == [c \in Clients |-> x]

\* A sink, and (history) the records that had returned before it was added.
NewSink(since) == [lines |-> <<>>, flushed |-> 0, since |-> since]

SyncTypeOK ==
  /\ m_level \in 0 .. 6
  /\ config \in Patterns /\ m_pattern \in Patterns
  /\ m_mutex = {c \in Clients : pc[c] = "format"}
  /\ owner \in BOOLEAN
  /\ Len(m_sinks) <= MaxSinks
  /\ \A s \in DOMAIN m_sinks :
       m_sinks[s].lines \in Seq(Id) /\ m_sinks[s].flushed \in 0 .. Len(m_sinks[s].lines)
  /\ pc \in [Clients -> {"idle", "lock", "format", "write", "flush"}]
  /\ \A c \in Clients : k[c] \in 0 .. 1 + IF pc[c] = "format" THEN Len(m_tokens)
                                         ELSE Len(m_sinks)
  /\ cached_seconds \in [Clients -> Seconds \cup {0}]

Init ==
  /\ m_level \in SetLevels
  /\ config \in Patterns
  /\ m_pattern = config /\ m_tokens = compile_pattern(config)
  /\ m_mutex = {} /\ owner = FALSE
  /\ m_sinks = <<NewSink({})>>
  /\ pc = NoneOf("idle") /\ k = NoneOf(0)
  /\ record = NoneOf(<<>>) /\ tls_buffer = NoneOf(<<>>)
  /\ cached_seconds = NoneOf(0)
  /\ calls = NoneOf(0) /\ flushes = 0 /\ sets = 0
  /\ inForce = NoneOf({}) /\ returned = {} /\ due = NoneOf({})

\* ConsoleSink and FileSink::write and flush, under the sink's mutex: the line
\* goes to stdout or the stream, and flush to the terminal or the file.
Put(s, entry) == m_sinks' = [m_sinks EXCEPT ![s].lines = Append(@, entry)]
Drain(s)      == m_sinks' = [m_sinks EXCEPT ![s].flushed = Len(m_sinks[s].lines)]

\* fmt::print throws when stdout fails, RotatingFileSink::write as it rotates.
Fails(s) == s \in Throwing

At(c, from, to) == pc[c] = from /\ pc' = [pc EXCEPT ![c] = to]
Goto(c, place)  == k' = [k EXCEPT ![c] = place]
-----------------------------------------------------------------------------
(* log *)

CallsMade == FoldFunction(+, 0, calls)

\* create_record, and the message of the call.
create_record(c, level, now) ==
  LogRecord(now, level, c, "process", "here", <<c, calls[c] + 1>>)

\* trace ... fatal: the filter, create_record, the message and, in the backend,
\* tls_buffer.clear().  A call below the level changes nothing.
Log(c, level, now) ==
  /\ level >= m_level
  /\ calls[c] < MaxLog /\ CallsMade < MaxLogs
  /\ At(c, "idle", "lock")
  /\ calls' = [calls EXCEPT ![c] = @ + 1]
  /\ record' = [record EXCEPT ![c] = create_record(c, level, now)]
  /\ tls_buffer' = [tls_buffer EXCEPT ![c] = <<>>]
  /\ inForce' = [inForce EXCEPT ![c] = {m_pattern}]
  /\ UNCHANGED <<settings, m_mutex, m_sinks, k, cached_seconds, flushes, returned, due>>

\* format takes the mutex shared; set_pattern holds it for one action.
FormatLock(c) ==
  /\ At(c, "lock", "format")
  /\ m_mutex' = m_mutex \cup {c}
  /\ Goto(c, 1)
  /\ UNCHANGED <<settings, m_sinks, record, tls_buffer, cached_seconds, history>>

\* append_token for the next token.
FormatToken(c) ==
  /\ pc[c] = "format"
  /\ k[c] <= Len(m_tokens)
  /\ LET token == m_tokens[k[c]] IN
     /\ cached_seconds' = [cached_seconds EXCEPT ![c] =
                             IF token.kind = "Timestamp" THEN Refresh(@, record[c]) ELSE @]
     /\ tls_buffer' = [tls_buffer EXCEPT ![c] =
                         append_token(@, token, record[c], cached_seconds'[c])]
  /\ Goto(c, k[c] + 1)
  /\ UNCHANGED <<settings, m_mutex, m_sinks, pc, record, history>>

\* Mutant: the mutex is not released.
FormatDoneHolds(c) ==
  /\ At(c, "format", "write")
  /\ k[c] = Len(m_tokens) + 1
  /\ tls_buffer' = [tls_buffer EXCEPT ![c] = Append(@, <<"\n">>)]
  /\ Goto(c, 1)
  /\ UNCHANGED <<settings, m_mutex, m_sinks, record, cached_seconds, history>>

\* The newline, and the release of the mutex.
FormatDone(c) ==
  /\ At(c, "format", "write")
  /\ k[c] = Len(m_tokens) + 1
  /\ tls_buffer' = [tls_buffer EXCEPT ![c] = Append(@, <<"\n">>)]
  /\ m_mutex' = m_mutex \ {c}
  /\ Goto(c, 1)
  /\ UNCHANGED <<settings, m_sinks, record, cached_seconds, history>>

\* Mutant: the manager goes on after a sink that threw, and reports nothing.
WriteSinkSwallow(c) ==
  /\ pc[c] = "write"
  /\ k[c] \in DOMAIN m_sinks
  /\ \/ Put(k[c], record[c].message)
     \/ Fails(k[c]) /\ UNCHANGED m_sinks
  /\ Goto(c, k[c] + 1)
  /\ UNCHANGED <<settings, m_mutex, pc, record, tls_buffer, cached_seconds, history>>

\* Mutant: a write that threw is tried again by writing to every sink anew.
WriteSinkRetry(c) ==
  /\ pc[c] = "write"
  /\ k[c] \in DOMAIN m_sinks
  /\ \/ /\ Put(k[c], record[c].message)
        /\ Goto(c, k[c] + 1)
     \/ Fails(k[c]) /\ Goto(c, 1) /\ UNCHANGED m_sinks
  /\ UNCHANGED <<settings, m_mutex, pc, record, tls_buffer, cached_seconds, history>>

\* The next sink of SinkManager::write.  An exception leaves log at once: the
\* sinks before this one have the record, those after it never get it.
WriteSink(c) ==
  /\ pc[c] = "write"
  /\ k[c] \in DOMAIN m_sinks
  /\ \/ /\ Put(k[c], record[c].message)
        /\ Goto(c, k[c] + 1)
        /\ UNCHANGED <<pc, inForce>>
     \/ /\ Fails(k[c])
        /\ At(c, "write", "idle")
        /\ Goto(c, 0)
        /\ inForce' = [inForce EXCEPT ![c] = {}]
        /\ UNCHANGED m_sinks
  /\ UNCHANGED <<settings, m_mutex, record, tls_buffer, cached_seconds, calls, flushes,
                 returned, due>>

LogReturn(c) ==
  /\ At(c, "write", "idle")
  /\ k[c] = Len(m_sinks) + 1
  /\ Goto(c, 0)
  /\ inForce' = [inForce EXCEPT ![c] = {}]
  /\ returned' = returned \cup {record[c].message}
  /\ UNCHANGED <<settings, m_mutex, m_sinks, record, tls_buffer, cached_seconds, calls,
                 flushes, due>>
-----------------------------------------------------------------------------
(* flush *)

Flush(c) ==
  /\ flushes < MaxFlush
  /\ At(c, "idle", "flush")
  /\ Goto(c, 1)
  /\ flushes' = flushes + 1
  /\ due' = [due EXCEPT ![c] = returned]
  /\ UNCHANGED <<settings, m_mutex, m_sinks, record, tls_buffer, cached_seconds, calls,
                 inForce, returned>>

\* Mutant: flush starts with the second sink.
FlushSinkSkip(c) ==
  /\ pc[c] = "flush"
  /\ k[c] \in DOMAIN m_sinks
  /\ m_sinks' = [m_sinks EXCEPT ![k[c]].flushed = IF k[c] = 1 THEN @ ELSE Len(m_sinks[k[c]].lines)]
  /\ Goto(c, k[c] + 1)
  /\ UNCHANGED <<settings, m_mutex, pc, record, tls_buffer, cached_seconds, history>>

FlushSink(c) ==
  /\ pc[c] = "flush"
  /\ k[c] \in DOMAIN m_sinks
  /\ Drain(k[c])
  /\ Goto(c, k[c] + 1)
  /\ UNCHANGED <<settings, m_mutex, pc, record, tls_buffer, cached_seconds, history>>

FlushReturn(c) ==
  /\ At(c, "flush", "idle")
  /\ k[c] = Len(m_sinks) + 1
  /\ Goto(c, 0)
  /\ due' = [due EXCEPT ![c] = {}]
  /\ UNCHANGED <<settings, m_mutex, m_sinks, record, tls_buffer, cached_seconds, calls,
                 flushes, inForce, returned>>
-----------------------------------------------------------------------------
(* the owner *)

SetLevel(level) ==
  /\ sets < MaxSet
  /\ sets' = sets + 1
  /\ m_level' = level
  /\ UNCHANGED <<config, m_pattern, m_tokens, owner, m_mutex, m_sinks, local, history>>

\* Logger::set_pattern up to the lock in Formatter::set_pattern.
SetPattern(pattern) ==
  /\ ~owner
  /\ sets < MaxSet
  /\ sets' = sets + 1
  /\ config' = pattern
  /\ owner' = TRUE
  /\ UNCHANGED <<m_level, m_pattern, m_tokens, m_mutex, m_sinks, local, history>>

\* Mutant: the pattern is assigned without the lock.
InstallPatternUnlocked ==
  /\ owner
  /\ owner' = FALSE
  /\ m_pattern' = config /\ m_tokens' = compile_pattern(config)
  /\ inForce' = [c \in Clients |-> IF pc[c] = "lock" THEN inForce[c] \cup {config} ELSE inForce[c]]
  /\ UNCHANGED <<m_level, config, sets, m_mutex, m_sinks, local, calls, flushes, returned, due>>

\* unique_lock, the two assignments and the release.
InstallPattern ==
  /\ owner /\ m_mutex = {}
  /\ owner' = FALSE
  /\ m_pattern' = config /\ m_tokens' = compile_pattern(config)
  /\ inForce' = [c \in Clients |-> IF pc[c] = "lock" THEN inForce[c] \cup {config} ELSE inForce[c]]
  /\ UNCHANGED <<m_level, config, sets, m_mutex, m_sinks, local, calls, flushes, returned, due>>

\* Logger::add_sink, SinkManager::emplace_sink and add_sink.
AddSink ==
  /\ Len(m_sinks) < MaxSinks
  /\ \A c \in Clients : pc[c] = "idle"
  /\ m_sinks' = Append(m_sinks, NewSink(returned))
  /\ UNCHANGED <<settings, m_mutex, local, history>>
-----------------------------------------------------------------------------
ClientStep(c) == \/ FormatLock(c) \/ FormatToken(c) \/ FormatDone(c)
                 \/ WriteSink(c) \/ LogReturn(c)
                 \/ FlushSink(c) \/ FlushReturn(c)

Next ==
  \/ \E c \in Clients : \/ \E level \in LogLevels, now \in Seconds : Log(c, level, now)
                        \/ Flush(c) \/ ClientStep(c)
  \/ \E level \in SetLevels : SetLevel(level)
  \/ \E pattern \in Patterns : SetPattern(pattern)
  \/ InstallPattern \/ AddSink

Spec == Init /\ [][Next]_vars
-----------------------------------------------------------------------------
(* Properties *)

\* The line of a record is the meaning of one pattern that was in force while
\* its call formatted it, with the fields and the second of this record: no
\* line mixes two patterns, takes a stale timestamp from the thread's cache
\* (the clock can step back) or begins with the rest of an earlier line.
LineOfOnePattern ==
  \A c \in Clients : pc[c] = "write" =>
    \E pattern \in inForce[c] : tls_buffer[c] = Meaning(pattern, record[c])

\* A sink never has a record that a sink before it misses, and a log call that
\* returned without an exception has given its record to every sink there was.
FanOut ==
  \A s \in DOMAIN m_sinks :
    /\ s > 1 => ToSet(m_sinks[s].lines) \subseteq ToSet(m_sinks[s - 1].lines)
    /\ returned \ m_sinks[s].since \subseteq ToSet(m_sinks[s].lines)

\* When flush returns, every record whose log had returned before the call
\* began is flushed in each sink that has it, whatever other threads log and
\* flush meanwhile.
FlushDurable ==
  \A c \in Clients : pc[c] = "flush" /\ k[c] = Len(m_sinks) + 1 =>
    \A s \in DOMAIN m_sinks :
      due[c] \cap ToSet(m_sinks[s].lines)
        \subseteq ToSet(SubSeq(m_sinks[s].lines, 1, m_sinks[s].flushed))

\* The record of a call that has not come to sink s yet is on its way to it.
OnTheWay(s) ==
  [c \in Clients |->
     IF pc[c] \in {"lock", "format"} \/ (pc[c] = "write" /\ k[c] <= s)
     THEN {record[c].message} ELSE {}]

LinesOf(s) == IF s \in DOMAIN m_sinks THEN m_sinks[s].lines ELSE <<>>

FirstSink == INSTANCE Delivery WITH
  submitted <- calls, inflight <- OnTheWay(1), delivered <- LinesOf(1)

SecondSink == INSTANCE Delivery WITH
  submitted <- calls, inflight <- OnTheWay(2), delivered <- LinesOf(2)

\* Each sink gets the records of a thread at most once and in the order the
\* thread logged them, with a gap where a sink threw; two sinks may still see
\* the records of two threads in different orders.
SinksDeliver == FirstSink!Spec /\ SecondSink!Spec
=============================================================================
