----------------------------- MODULE SyncProofs ------------------------------
(***************************************************************************)
(* The synchronous logger keeps its promises for any set of clients, any   *)
(* number of sinks and any sinks that throw: a record that a call reported *)
(* as logged is in every sink, and a flush that returns has flushed it.    *)
(***************************************************************************)
EXTENDS SyncLogger, FormatterProofs, TLAPS

Logging == {"lock", "format", "write"}
Sink    == [lines : Seq(Id), flushed : Nat, since : SUBSET Id]
Own(c)  == <<c, calls[c]>>

Lines(s)   == ToSet(m_sinks[s].lines)
Flushed(s) == ToSet(SubSeq(m_sinks[s].lines, 1, m_sinks[s].flushed))

SinkTypeOK ==
  /\ m_sinks \in Seq(Sink)
  /\ \A s \in DOMAIN m_sinks : m_sinks[s].flushed <= Len(m_sinks[s].lines)

CallTypeOK ==
  /\ pc \in [Clients -> {"idle", "lock", "format", "write", "flush"}]
  /\ k \in [Clients -> Nat]
  /\ calls \in [Clients -> 0 .. MaxLog]
  /\ DOMAIN record = Clients
  /\ returned \subseteq Id
  /\ due \in [Clients -> SUBSET Id]

\* A client logs its newest record, whose log has not returned yet.
RecordInv ==
  \A c \in Clients : pc[c] \in Logging =>
    calls[c] > 0 /\ record[c].message = Own(c) /\ Own(c) \notin returned

\* Nothing has returned that has not been called.
ReturnedInv == \A c \in Clients, n \in Nat : n > calls[c] => <<c, n>> \notin returned

\* The sinks before the client's place in the loop of write have its record ...
WriteInv ==
  \A c \in Clients : pc[c] = "write" =>
    \A s \in DOMAIN m_sinks : s < k[c] => Own(c) \in Lines(s)

\* ... and those before its place in the loop of flush have flushed its dues.
FlushInv ==
  \A c \in Clients : pc[c] = "flush" =>
    /\ due[c] \subseteq returned
    /\ \A s \in DOMAIN m_sinks : s < k[c] => due[c] \cap Lines(s) \subseteq Flushed(s)

SyncInv == SinkTypeOK /\ CallTypeOK /\ RecordInv /\ ReturnedInv /\ WriteInv /\ FlushInv /\ FanOut
-----------------------------------------------------------------------------
(* Sequences and sinks *)

\* What Append and SubSeq do to the members of a sequence.
LEMMA Members ==
  ASSUME NEW S, NEW s \in Seq(S), NEW r \in S
  PROVE  /\ Append(s, r) \in Seq(S) /\ Len(Append(s, r)) = Len(s) + 1
         /\ ToSet(Append(s, r)) = ToSet(s) \cup {r}
         /\ \A n \in 0 .. Len(s) : SubSeq(Append(s, r), 1, n) = SubSeq(s, 1, n)
         /\ SubSeq(s, 1, Len(s)) = s
         /\ \A n \in 0 .. Len(s) : ToSet(SubSeq(s, 1, n)) \subseteq ToSet(s)
<1>1. Len(s) \in Nat /\ DOMAIN s = 1 .. Len(s)
  OBVIOUS
<1>2. /\ Append(s, r) \in Seq(S) /\ Len(Append(s, r)) = Len(s) + 1
      /\ \A j \in 1 .. Len(s) : Append(s, r)[j] = s[j]
      /\ Append(s, r)[Len(s) + 1] = r
      /\ DOMAIN Append(s, r) = 1 .. Len(s) + 1
  OBVIOUS
<1>3. ToSet(Append(s, r)) = ToSet(s) \cup {r}
  BY <1>1, <1>2 DEF ToSet
<1>4. \A n \in 0 .. Len(s) : SubSeq(Append(s, r), 1, n) = SubSeq(s, 1, n)
  BY <1>1, <1>2
<1>5. SubSeq(s, 1, Len(s)) = s
  BY <1>1
<1>6. \A n \in 0 .. Len(s) : ToSet(SubSeq(s, 1, n)) \subseteq ToSet(s)
  BY <1>1 DEF ToSet
<1> QED
  BY <1>2, <1>3, <1>4, <1>5, <1>6

LEMMA SinkFacts ==
  ASSUME SinkTypeOK
  PROVE  /\ Len(m_sinks) \in Nat /\ DOMAIN m_sinks = 1 .. Len(m_sinks)
         /\ \A s \in DOMAIN m_sinks :
              /\ m_sinks[s] \in Sink /\ m_sinks[s].lines \in Seq(Id)
              /\ Len(m_sinks[s].lines) \in Nat
              /\ m_sinks[s].flushed \in 0 .. Len(m_sinks[s].lines)
<1>1. m_sinks \in Seq(Sink)
  BY DEF SinkTypeOK
<1>2. /\ Len(m_sinks) \in Nat /\ DOMAIN m_sinks = 1 .. Len(m_sinks)
      /\ \A s \in DOMAIN m_sinks : m_sinks[s] \in Sink
  BY <1>1
<1>3. \A s \in DOMAIN m_sinks : m_sinks[s].lines \in Seq(Id) /\ m_sinks[s].flushed \in Nat
  BY <1>2 DEF Sink
<1>4. \A s \in DOMAIN m_sinks : Len(m_sinks[s].lines) \in Nat
  BY <1>3
<1> QED
  BY <1>2, <1>3, <1>4 DEF SinkTypeOK

LEMMA FlushedMembers ==
  ASSUME SinkTypeOK, NEW s \in DOMAIN m_sinks
  PROVE  Flushed(s) \subseteq Lines(s)
<1>1. /\ m_sinks[s].lines \in Seq(Id) /\ Len(m_sinks[s].lines) \in Nat
      /\ m_sinks[s].flushed \in 0 .. Len(m_sinks[s].lines)
  BY SinkFacts
<1> QED
  BY <1>1 DEF Flushed, Lines, ToSet

\* A write to sink s adds one record to it and leaves the others as they are.
LEMMA PutEffect ==
  ASSUME SinkTypeOK, NEW s \in DOMAIN m_sinks, NEW r \in Id, Put(s, r)
  PROVE  /\ SinkTypeOK' /\ DOMAIN m_sinks' = DOMAIN m_sinks /\ Len(m_sinks') = Len(m_sinks)
         /\ \A t \in DOMAIN m_sinks :
              /\ m_sinks'[t].since = m_sinks[t].since
              /\ Lines(t)' = Lines(t) \cup (IF t = s THEN {r} ELSE {})
              /\ Flushed(t)' = Flushed(t)
<1>1. m_sinks[s] \in Sink /\ m_sinks[s].lines \in Seq(Id)
  BY SinkFacts
<1> DEFINE new == [m_sinks[s] EXCEPT !.lines = Append(@, r)]
<1>2. /\ Append(m_sinks[s].lines, r) \in Seq(Id)
      /\ Len(Append(m_sinks[s].lines, r)) = Len(m_sinks[s].lines) + 1
      /\ ToSet(Append(m_sinks[s].lines, r)) = ToSet(m_sinks[s].lines) \cup {r}
      /\ SubSeq(Append(m_sinks[s].lines, r), 1, m_sinks[s].flushed)
           = SubSeq(m_sinks[s].lines, 1, m_sinks[s].flushed)
  <2>1. m_sinks[s].flushed \in 0 .. Len(m_sinks[s].lines)
    BY SinkFacts
  <2> QED
    BY <1>1, <2>1, Members
<1>3. /\ new \in Sink /\ new.lines = Append(m_sinks[s].lines, r)
      /\ new.flushed = m_sinks[s].flushed /\ new.since = m_sinks[s].since
  BY <1>1, <1>2 DEF Sink
<1>4. m_sinks' = [m_sinks EXCEPT ![s] = new]
  BY DEF Put
<1> HIDE DEF new
<1>5. /\ m_sinks' \in Seq(Sink) /\ Len(m_sinks') = Len(m_sinks)
      /\ DOMAIN m_sinks' = DOMAIN m_sinks
      /\ \A t \in DOMAIN m_sinks : m_sinks'[t] = IF t = s THEN new ELSE m_sinks[t]
  BY <1>3, <1>4 DEF SinkTypeOK
<1>6. SinkTypeOK'
  <2>1. Len(m_sinks[s].lines) \in Nat /\ m_sinks[s].flushed \in Nat
    BY <1>1 DEF Sink
  <2> QED
    BY <1>2, <1>3, <1>5, <2>1 DEF SinkTypeOK
<1> QED
  BY <1>2, <1>3, <1>5, <1>6 DEF Lines, Flushed

\* A flush of sink s covers all of its records.
LEMMA DrainEffect ==
  ASSUME SinkTypeOK, NEW s \in DOMAIN m_sinks, Drain(s)
  PROVE  /\ SinkTypeOK' /\ DOMAIN m_sinks' = DOMAIN m_sinks /\ Len(m_sinks') = Len(m_sinks)
         /\ \A t \in DOMAIN m_sinks :
              /\ m_sinks'[t].since = m_sinks[t].since
              /\ m_sinks'[t].lines = m_sinks[t].lines
              /\ Lines(t)' = Lines(t)
              /\ Flushed(t)' = IF t = s THEN Lines(t) ELSE Flushed(t)
<1>1. m_sinks[s] \in Sink /\ m_sinks[s].lines \in Seq(Id)
  BY SinkFacts
<1> DEFINE new == [m_sinks[s] EXCEPT !.flushed = Len(m_sinks[s].lines)]
<1>2. Len(m_sinks[s].lines) \in Nat /\ SubSeq(m_sinks[s].lines, 1, Len(m_sinks[s].lines)) = m_sinks[s].lines
  BY <1>1
<1>3. /\ new \in Sink /\ new.lines = m_sinks[s].lines
      /\ new.flushed = Len(m_sinks[s].lines) /\ new.since = m_sinks[s].since
  BY <1>1, <1>2 DEF Sink
<1>4. m_sinks' = [m_sinks EXCEPT ![s] = new]
  BY DEF Drain
<1> HIDE DEF new
<1>5. /\ m_sinks' \in Seq(Sink) /\ Len(m_sinks') = Len(m_sinks)
      /\ DOMAIN m_sinks' = DOMAIN m_sinks
      /\ \A t \in DOMAIN m_sinks : m_sinks'[t] = IF t = s THEN new ELSE m_sinks[t]
  BY <1>3, <1>4 DEF SinkTypeOK
<1>6. SinkTypeOK'
  BY <1>2, <1>3, <1>5 DEF SinkTypeOK
<1> QED
  BY <1>2, <1>3, <1>5, <1>6 DEF Lines, Flushed
-----------------------------------------------------------------------------
(* The invariant *)

LEMMA SyncInit == Init => SyncInv
<1> SUFFICES ASSUME Init PROVE SyncInv
  OBVIOUS
<1>1. m_sinks = <<NewSink({})>> /\ NewSink({}) \in Sink
  BY DEF Init, NewSink, Sink
<1>2. m_sinks \in Seq(Sink) /\ DOMAIN m_sinks = {1} /\ m_sinks[1] = NewSink({})
  BY <1>1
<1>3. SinkTypeOK
  BY <1>2 DEF SinkTypeOK, NewSink
<1>4. CallTypeOK /\ RecordInv /\ ReturnedInv /\ WriteInv /\ FlushInv
  BY SyncAssumption DEF Init, NoneOf, CallTypeOK, RecordInv, ReturnedInv, WriteInv, FlushInv, Logging
<1>5. FanOut
  BY <1>2 DEF FanOut, Init
<1> QED
  BY <1>3, <1>4, <1>5 DEF SyncInv

\* The parts that speak of sinks survive a step that changes none of the sinks
\* and moves no client inside write or flush.
LEMMA QuietSinks ==
  ASSUME SyncInv, UNCHANGED <<m_sinks, returned>>, CallTypeOK',
         \A c \in Clients : pc'[c] \in {"write", "flush"} =>
           pc'[c] = pc[c] /\ k'[c] = k[c] /\ due'[c] = due[c] /\ calls'[c] = calls[c]
  PROVE  SinkTypeOK' /\ WriteInv' /\ FlushInv' /\ FanOut'
<1>2. \A s : Lines(s)' = Lines(s) /\ Flushed(s)' = Flushed(s)
  BY DEF Lines, Flushed
<1>3. SinkTypeOK' /\ FanOut'
  BY DEF SyncInv, SinkTypeOK, FanOut
<1>4. WriteInv'
  BY <1>2 DEF SyncInv, WriteInv, Own
<1>5. FlushInv'
  BY <1>2 DEF SyncInv, FlushInv
<1> QED
  BY <1>3, <1>4, <1>5

LEMMA LogKeeps ==
  ASSUME SyncInv, NEW c \in Clients, NEW level \in LogLevels, NEW now \in Seconds, Log(c, level, now)
  PROVE  SyncInv'
<1> USE DEF Log, At, history, settings
<1>1. CallTypeOK'
  BY SyncAssumption DEF SyncInv, CallTypeOK
<1>2. /\ pc[c] = "idle" /\ pc' = [pc EXCEPT ![c] = "lock"]
      /\ calls' = [calls EXCEPT ![c] = calls[c] + 1]
      /\ record' = [record EXCEPT ![c] = create_record(c, level, now)]
      /\ create_record(c, level, now).message = <<c, calls[c] + 1>>
  <2>1. create_record(c, level, now).message = <<c, calls[c] + 1>>
    BY DEF create_record, LogRecord
  <2>2. /\ pc[c] = "idle" /\ pc' = [pc EXCEPT ![c] = "lock"]
        /\ calls' = [calls EXCEPT ![c] = calls[c] + 1]
        /\ record' = [record EXCEPT ![c] = create_record(c, level, now)]
    OBVIOUS
  <2> QED
    BY <2>1, <2>2
<1>3. /\ \A d \in Clients : /\ calls[d] \in Nat
                            /\ calls'[d] = IF d = c THEN calls[c] + 1 ELSE calls[d]
      /\ UNCHANGED <<returned, due, k, m_sinks>>
  BY <1>2, SyncAssumption DEF SyncInv, CallTypeOK
<1> HIDE DEF Log
<1>4. RecordInv' /\ ReturnedInv'
  <2>1. ReturnedInv'
    <3> SUFFICES ASSUME NEW d \in Clients, NEW n \in Nat, n > calls'[d]
                 PROVE  <<d, n>> \notin returned
      BY <1>3 DEF ReturnedInv
    <3>1. n > calls[d]
      BY <1>3
    <3> QED
      BY <3>1 DEF SyncInv, ReturnedInv
  <2>2. <<c, calls[c] + 1>> \notin returned
    BY <1>3 DEF SyncInv, ReturnedInv
  <2>3. RecordInv'
    <3> SUFFICES ASSUME NEW d \in Clients, pc'[d] \in Logging
                 PROVE  calls'[d] > 0 /\ record'[d].message = Own(d)' /\ Own(d)' \notin returned
      BY <1>3 DEF RecordInv
    <3>1. CASE d = c
      BY <1>2, <1>3, <2>2, <3>1 DEF SyncInv, CallTypeOK, Own
    <3>2. CASE d # c
      BY <1>2, <1>3, <3>2 DEF SyncInv, CallTypeOK, RecordInv, Own
    <3> QED
      BY <3>1, <3>2
  <2> QED
    BY <2>1, <2>3
<1>5. SinkTypeOK' /\ WriteInv' /\ FlushInv' /\ FanOut'
  BY <1>1, <1>2, <1>3, QuietSinks DEF SyncInv, CallTypeOK
<1> QED
  BY <1>1, <1>4, <1>5 DEF SyncInv

\* Formatting: the client gets from the filter to the loop of write.
LEMMA FormatKeeps ==
  ASSUME SyncInv, NEW c \in Clients, FormatLock(c) \/ FormatToken(c) \/ FormatDone(c)
  PROVE  SyncInv'
<1> USE DEF FormatLock, FormatToken, FormatDone, At, Goto, history, settings
<1>0. UNCHANGED <<calls, record, returned, due, m_sinks>>
  OBVIOUS
<1>1. CallTypeOK' /\ (pc[c] \in Logging /\ pc'[c] \in Logging)
      /\ \A d \in Clients : d # c => pc'[d] = pc[d] /\ k'[d] = k[d]
  BY DEF SyncInv, CallTypeOK, Logging
<1>2. RecordInv' /\ ReturnedInv'
  BY <1>0, <1>1 DEF SyncInv, RecordInv, ReturnedInv, Own
<1>3. CASE FormatDone(c)
  <2>1. k'[c] = 1 /\ pc'[c] = "write"
    BY <1>3 DEF SyncInv, CallTypeOK
  <2>2. \A s : Lines(s)' = Lines(s) /\ Flushed(s)' = Flushed(s)
    BY <1>0 DEF Lines, Flushed
  <2>3. WriteInv'
    <3> SUFFICES ASSUME NEW d \in Clients, pc'[d] = "write", NEW s \in DOMAIN m_sinks', s < k'[d]
                 PROVE  Own(d)' \in Lines(s)'
      BY DEF WriteInv
    <3>1. d # c
      BY <2>1, SinkFacts, <1>0 DEF SyncInv
    <3> QED
      BY <3>1, <1>0, <1>1, <2>2 DEF SyncInv, WriteInv, Own
  <2>4. FlushInv'
    BY <1>0, <1>1, <2>1, <2>2 DEF SyncInv, FlushInv
  <2>5. SinkTypeOK' /\ FanOut'
    BY <1>0 DEF SyncInv, SinkTypeOK, FanOut
  <2> QED
    BY <1>1, <1>2, <2>3, <2>4, <2>5 DEF SyncInv
<1>4. CASE FormatLock(c) \/ FormatToken(c)
  <2>1. pc'[c] = "format"
    BY <1>4 DEF SyncInv, CallTypeOK
  <2>2. SinkTypeOK' /\ WriteInv' /\ FlushInv' /\ FanOut'
    BY <1>0, <1>1, <2>1, QuietSinks
  <2> QED
    BY <1>1, <1>2, <2>2 DEF SyncInv
<1> QED
  BY <1>3, <1>4
LEMMA WriteKeeps ==
  ASSUME SyncInv, NEW c \in Clients, WriteSink(c)
  PROVE  SyncInv'
<1> USE DEF settings
<1>1. /\ pc[c] = "write" /\ k[c] \in DOMAIN m_sinks
      /\ UNCHANGED <<calls, record, returned, due>>
      /\ calls[c] > 0 /\ record[c].message = Own(c) /\ Own(c) \notin returned
  BY DEF WriteSink, SyncInv, RecordInv, Logging
<1>2. \A s \in DOMAIN m_sinks : s < k[c] => Own(c) \in Lines(s)
  BY <1>1 DEF SyncInv, WriteInv
<1>3. CallTypeOK' /\ (pc'[c] = "write" \/ pc'[c] = "idle")
      /\ \A d \in Clients : d # c => pc'[d] = pc[d] /\ k'[d] = k[d]
  <2>1. k[c] \in Nat /\ k[c] + 1 \in Nat
    BY DEF SyncInv, CallTypeOK
  <2> QED
    BY <1>1, <2>1 DEF WriteSink, At, Goto, SyncInv, CallTypeOK
<1>4. RecordInv' /\ ReturnedInv'
  BY <1>1, <1>3 DEF SyncInv, RecordInv, ReturnedInv, Own, Logging
<1>5. CASE /\ Put(k[c], record[c].message) /\ UNCHANGED pc /\ k' = [k EXCEPT ![c] = k[c] + 1]
  <2>1. Own(c) \in Id
    BY <1>1, SyncAssumption DEF SyncInv, CallTypeOK, Own, Id
  <2>2. /\ SinkTypeOK' /\ DOMAIN m_sinks' = DOMAIN m_sinks
        /\ \A t \in DOMAIN m_sinks :
             /\ m_sinks'[t].since = m_sinks[t].since
             /\ Lines(t)' = Lines(t) \cup (IF t = k[c] THEN {Own(c)} ELSE {})
             /\ Flushed(t)' = Flushed(t)
    BY <1>1, <1>5, <2>1, PutEffect DEF SyncInv
  <2>3. WriteInv'
    <3> SUFFICES ASSUME NEW d \in Clients, pc'[d] = "write", NEW s \in DOMAIN m_sinks, s < k'[d]
                 PROVE  Own(d)' \in Lines(s)'
      BY <2>2 DEF WriteInv
    <3>1. Own(d)' = Own(d)
      BY <1>1 DEF Own
    <3>2. CASE d = c
      <4>1. k'[c] = k[c] + 1 /\ k[c] \in Nat /\ s \in Nat
        BY <1>5, SinkFacts DEF SyncInv, CallTypeOK
      <4>2. s < k[c] \/ s = k[c]
        BY <3>2, <4>1
      <4> QED
        BY <1>2, <2>2, <3>1, <3>2, <4>2
    <3>3. CASE d # c
      BY <1>3, <1>5, <2>2, <3>1, <3>3 DEF SyncInv, WriteInv
    <3> QED
      BY <3>2, <3>3
  <2>4. FlushInv'
    <3> SUFFICES ASSUME NEW d \in Clients, pc'[d] = "flush"
                 PROVE  /\ due'[d] \subseteq returned'
                        /\ \A s \in DOMAIN m_sinks : s < k'[d] =>
                             due'[d] \cap Lines(s)' \subseteq Flushed(s)'
      BY <2>2 DEF FlushInv
    <3>1. d # c /\ pc[d] = "flush" /\ k'[d] = k[d]
      BY <1>1, <1>3, <1>5
    <3>2. due'[d] = due[d] /\ due[d] \subseteq returned /\ Own(c) \notin due[d]
      BY <1>1, <3>1 DEF SyncInv, FlushInv
    <3> QED
      BY <1>1, <2>2, <3>1, <3>2 DEF SyncInv, FlushInv
  <2>5. FanOut'
    <3>1. \A s \in DOMAIN m_sinks : s > 1 => Lines(s) \subseteq Lines(s - 1)
      BY DEF SyncInv, FanOut, Lines
    <3>2. \A s \in DOMAIN m_sinks : returned \ m_sinks[s].since \subseteq Lines(s)
      BY DEF SyncInv, FanOut, Lines
    <3>3. \A s \in DOMAIN m_sinks : s > 1 => Lines(s)' \subseteq Lines(s - 1)'
      <4> SUFFICES ASSUME NEW s \in DOMAIN m_sinks, s > 1
                   PROVE  Lines(s)' \subseteq Lines(s - 1)'
        OBVIOUS
      <4>1. s - 1 \in DOMAIN m_sinks /\ s - 1 < s
        BY SinkFacts DEF SyncInv
      <4>2. Lines(s - 1) \subseteq Lines(s - 1)'
        BY <2>2, <4>1
      <4>3. s = k[c] => Own(c) \in Lines(s - 1)
        BY <1>2, <4>1
      <4> QED
        BY <2>2, <3>1, <4>2, <4>3
    <3>4. \A s \in DOMAIN m_sinks : returned' \ m_sinks'[s].since \subseteq Lines(s)'
      BY <1>1, <2>2, <3>2
    <3> QED
      BY <2>2, <3>3, <3>4 DEF FanOut, Lines
  <2> QED
    BY <1>3, <1>4, <2>2, <2>3, <2>4, <2>5 DEF SyncInv
<1>6. CASE pc'[c] = "idle" /\ UNCHANGED m_sinks
  <2>1. SinkTypeOK' /\ WriteInv' /\ FlushInv' /\ FanOut'
    BY <1>1, <1>3, <1>6, QuietSinks
  <2> QED
    BY <1>3, <1>4, <2>1 DEF SyncInv
<1> QED
  BY <1>5, <1>6 DEF WriteSink, At, Goto, SyncInv, CallTypeOK

LEMMA LogReturnKeeps ==
  ASSUME SyncInv, NEW c \in Clients, LogReturn(c)
  PROVE  SyncInv'
<1>1. /\ pc[c] = "write" /\ pc' = [pc EXCEPT ![c] = "idle"] /\ k[c] = Len(m_sinks) + 1
      /\ k' = [k EXCEPT ![c] = 0]
      /\ returned' = returned \cup {Own(c)}
      /\ UNCHANGED <<calls, record, due, m_sinks>>
  BY DEF LogReturn, At, Goto, SyncInv, RecordInv, Logging, settings
<1>2. Own(c) \in Id /\ calls[c] \in Nat
  BY <1>1, SyncAssumption DEF SyncInv, CallTypeOK, RecordInv, Logging, Own, Id
<1>3. CallTypeOK' /\ \A d \in Clients : IF d = c THEN pc'[d] = "idle" ELSE pc'[d] = pc[d] /\ k'[d] = k[d]
  BY <1>1, <1>2 DEF SyncInv, CallTypeOK
<1>4. RecordInv'
  BY <1>1, <1>3 DEF SyncInv, RecordInv, Own, Logging
<1>5. ReturnedInv'
  BY <1>1, <1>2 DEF SyncInv, ReturnedInv, Own
<1>6. \A s : Lines(s)' = Lines(s) /\ Flushed(s)' = Flushed(s)
  BY <1>1 DEF Lines, Flushed
<1>7. SinkTypeOK' /\ WriteInv' /\ FlushInv'
  BY <1>1, <1>3, <1>6 DEF SyncInv, SinkTypeOK, WriteInv, FlushInv, Own
<1>8. FanOut'
  <2>1. \A s \in DOMAIN m_sinks : Own(c) \in Lines(s)
    BY <1>1, SinkFacts DEF SyncInv, WriteInv
  <2> QED
    BY <1>1, <2>1 DEF SyncInv, FanOut, Lines
<1> QED
  BY <1>3, <1>4, <1>5, <1>7, <1>8 DEF SyncInv

LEMMA FlushKeeps ==
  ASSUME SyncInv, NEW c \in Clients, Flush(c) \/ FlushReturn(c)
  PROVE  SyncInv'
<1>1. /\ pc[c] \in {"idle", "flush"} /\ pc'[c] \in {"idle", "flush"}
      /\ \A d \in Clients : d # c => pc'[d] = pc[d] /\ k'[d] = k[d] /\ due'[d] = due[d]
      /\ pc'[c] = "flush" => k'[c] = 1 /\ due'[c] = returned
      /\ CallTypeOK'
      /\ UNCHANGED <<calls, record, returned, m_sinks>>
  <2>1. CASE Flush(c)
    BY <2>1 DEF Flush, At, Goto, SyncInv, CallTypeOK, settings
  <2>2. CASE FlushReturn(c)
    BY <2>2 DEF FlushReturn, At, Goto, SyncInv, CallTypeOK, settings
  <2> QED
    BY <2>1, <2>2
<1>2. RecordInv' /\ ReturnedInv'
  BY <1>1 DEF SyncInv, RecordInv, ReturnedInv, Own, Logging
<1>3. \A s : Lines(s)' = Lines(s) /\ Flushed(s)' = Flushed(s)
  BY <1>1 DEF Lines, Flushed
<1>4. SinkTypeOK' /\ WriteInv' /\ FanOut'
  BY <1>1, <1>3 DEF SyncInv, SinkTypeOK, WriteInv, FanOut, Own
<1>5. FlushInv'
  <2>1. \A s \in DOMAIN m_sinks : ~(s < 1)
    BY SinkFacts DEF SyncInv
  <2> QED
    BY <1>1, <1>3, <2>1 DEF SyncInv, FlushInv
<1> QED
  BY <1>1, <1>2, <1>4, <1>5 DEF SyncInv
LEMMA FlushSinkKeeps ==
  ASSUME SyncInv, NEW c \in Clients, FlushSink(c)
  PROVE  SyncInv'
<1>1. /\ pc[c] = "flush" /\ k[c] \in DOMAIN m_sinks /\ k' = [k EXCEPT ![c] = k[c] + 1]
      /\ Drain(k[c])
      /\ UNCHANGED <<pc, calls, record, returned, due>>
  BY DEF FlushSink, Goto, history
<1>2. CallTypeOK'
  BY <1>1 DEF SyncInv, CallTypeOK
<1>3. RecordInv' /\ ReturnedInv'
  BY <1>1 DEF SyncInv, RecordInv, ReturnedInv, Own
<1>4. /\ SinkTypeOK' /\ DOMAIN m_sinks' = DOMAIN m_sinks
      /\ \A t \in DOMAIN m_sinks :
           /\ m_sinks'[t].since = m_sinks[t].since /\ m_sinks'[t].lines = m_sinks[t].lines
           /\ Lines(t)' = Lines(t)
           /\ Flushed(t)' = IF t = k[c] THEN Lines(t) ELSE Flushed(t)
  BY <1>1, DrainEffect DEF SyncInv
<1>5. WriteInv'
  BY <1>1, <1>4 DEF SyncInv, WriteInv, Own, CallTypeOK
<1>6. FlushInv'
  <2> SUFFICES ASSUME NEW d \in Clients, pc[d] = "flush"
               PROVE  /\ due[d] \subseteq returned
                      /\ \A s \in DOMAIN m_sinks : s < k'[d] =>
                           due[d] \cap Lines(s)' \subseteq Flushed(s)'
    BY <1>1, <1>4 DEF FlushInv
  <2>1. /\ due[d] \subseteq returned
        /\ \A s \in DOMAIN m_sinks : s < k[d] => due[d] \cap Lines(s) \subseteq Flushed(s)
    BY DEF SyncInv, FlushInv
  <2>2. \A s \in DOMAIN m_sinks : s < k'[d] => s < k[d] \/ s = k[c]
    BY <1>1, SinkFacts DEF SyncInv, CallTypeOK
  <2>3. \A s \in DOMAIN m_sinks : Lines(s)' = Lines(s)
    BY <1>4
  <2>4. \A s \in DOMAIN m_sinks : Flushed(s) \subseteq Lines(s)
    BY SinkFacts, FlushedMembers DEF SyncInv
  <2>5. \A s \in DOMAIN m_sinks : Flushed(s) \subseteq Flushed(s)'
    BY <1>4, <2>4
  <2> QED
    BY <1>4, <2>1, <2>2, <2>3, <2>5
<1>7. FanOut'
  <2>1. \A s \in DOMAIN m_sinks : s > 1 => s - 1 \in DOMAIN m_sinks
    BY SinkFacts DEF SyncInv
  <2> QED
    BY <1>1, <1>4, <2>1 DEF SyncInv, FanOut
<1> QED
  BY <1>2, <1>3, <1>4, <1>5, <1>6, <1>7 DEF SyncInv

\* A new sink is empty, and nothing that had returned is due to it.
LEMMA AddSinkKeeps ==
  ASSUME SyncInv, AddSink
  PROVE  SyncInv'
<1>1. /\ \A c \in Clients : pc[c] = "idle"
      /\ m_sinks' = Append(m_sinks, NewSink(returned))
      /\ UNCHANGED <<pc, k, calls, record, returned, due>>
  BY DEF AddSink, local, history
<1>2. CallTypeOK' /\ RecordInv' /\ ReturnedInv' /\ WriteInv' /\ FlushInv'
  BY <1>1 DEF SyncInv, CallTypeOK, RecordInv, ReturnedInv, WriteInv, FlushInv, Own, Logging
<1>3. NewSink(returned) \in Sink /\ NewSink(returned).lines = <<>>
      /\ NewSink(returned).flushed = 0 /\ NewSink(returned).since = returned
  BY DEF NewSink, Sink, SyncInv, CallTypeOK
<1>4. /\ m_sinks' \in Seq(Sink) /\ DOMAIN m_sinks' = 1 .. Len(m_sinks) + 1
      /\ \A s \in 1 .. Len(m_sinks) : m_sinks'[s] = m_sinks[s]
      /\ m_sinks'[Len(m_sinks) + 1] = NewSink(returned)
      /\ Len(m_sinks) \in Nat /\ DOMAIN m_sinks = 1 .. Len(m_sinks)
  BY <1>1, <1>3, SinkFacts DEF SyncInv, SinkTypeOK
<1>5. SinkTypeOK'
  BY <1>3, <1>4 DEF SyncInv, SinkTypeOK
<1>6. FanOut'
  <2> SUFFICES ASSUME NEW s \in DOMAIN m_sinks'
               PROVE  /\ s > 1 => ToSet(m_sinks'[s].lines) \subseteq ToSet(m_sinks'[s - 1].lines)
                      /\ returned \ m_sinks'[s].since \subseteq ToSet(m_sinks'[s].lines)
    BY <1>1 DEF FanOut
  <2>1. CASE s = Len(m_sinks) + 1
    BY <1>3, <1>4, <2>1 DEF ToSet
  <2>2. CASE s # Len(m_sinks) + 1
    <3>1. s \in DOMAIN m_sinks /\ (s > 1 => s - 1 \in 1 .. Len(m_sinks))
      BY <1>4, <2>2
    <3> QED
      BY <1>4, <3>1 DEF SyncInv, FanOut
  <2> QED
    BY <2>1, <2>2
<1> QED
  BY <1>2, <1>5, <1>6 DEF SyncInv

LEMMA OwnerKeeps ==
  ASSUME SyncInv, UNCHANGED <<pc, k, calls, record, returned, due, m_sinks>>
  PROVE  SyncInv'
<1>1. CallTypeOK' /\ RecordInv' /\ ReturnedInv'
  BY DEF SyncInv, CallTypeOK, RecordInv, ReturnedInv, Own
<1>2. SinkTypeOK' /\ WriteInv' /\ FlushInv' /\ FanOut'
  BY <1>1, QuietSinks
<1> QED
  BY <1>1, <1>2 DEF SyncInv

LEMMA SyncStep == SyncInv /\ [Next]_vars => SyncInv'
<1> SUFFICES ASSUME SyncInv, [Next]_vars PROVE SyncInv'
  OBVIOUS
<1>1. CASE \E c \in Clients, level \in LogLevels, now \in Seconds : Log(c, level, now)
  BY <1>1, LogKeeps
<1>2. CASE \E c \in Clients : Flush(c) \/ FlushReturn(c)
  BY <1>2, FlushKeeps
<1>3. CASE \E c \in Clients : FormatLock(c) \/ FormatToken(c) \/ FormatDone(c)
  BY <1>3, FormatKeeps
<1>4. CASE \E c \in Clients : WriteSink(c)
  BY <1>4, WriteKeeps
<1>5. CASE \E c \in Clients : LogReturn(c)
  BY <1>5, LogReturnKeeps
<1>6. CASE \E c \in Clients : FlushSink(c)
  BY <1>6, FlushSinkKeeps
<1>7. CASE AddSink
  BY <1>7, AddSinkKeeps
<1>8. CASE \/ \E level \in SetLevels : SetLevel(level)
           \/ \E pattern \in Patterns : SetPattern(pattern)
           \/ InstallPattern \/ UNCHANGED vars
  BY <1>8, OwnerKeeps DEF SetLevel, SetPattern, InstallPattern, vars, local, history
<1> QED
  BY <1>1, <1>2, <1>3, <1>4, <1>5, <1>6, <1>7, <1>8 DEF Next, ClientStep

LEMMA SyncInvariant == Spec => []SyncInv
<1> QED
  BY SyncInit, SyncStep, PTL DEF Spec

\* For any number of clients and sinks, and whichever sinks throw: no sink has
\* a record that one before it misses, and a log call that returned normally
\* has reached every sink (SinkManager::write).
THEOREM RecordsFanOut == Spec => []FanOut
<1>1. SyncInv => FanOut
  BY DEF SyncInv
<1> QED
  BY <1>1, SyncInvariant, PTL

\* For any number of clients and sinks: when flush returns, what had been
\* logged before it began is flushed in every sink (SyncBackend::flush).
THEOREM FlushIsDurable == Spec => []FlushDurable
<1>1. SyncInv => FlushDurable
  <2> SUFFICES ASSUME SyncInv, NEW c \in Clients, pc[c] = "flush", k[c] = Len(m_sinks) + 1,
                      NEW s \in DOMAIN m_sinks
               PROVE  due[c] \cap Lines(s) \subseteq Flushed(s)
    BY DEF FlushDurable, Lines, Flushed
  <2>1. s < k[c]
    BY SinkFacts DEF SyncInv
  <2> QED
    BY <2>1 DEF SyncInv, FlushInv
<1> QED
  BY <1>1, SyncInvariant, PTL
-----------------------------------------------------------------------------
(* Each sink sees a delivery *)

\* Client c has a record that has not come to sink s.
Waits(c, s) == pc[c] \in {"lock", "format"} \/ (pc[c] = "write" /\ k[c] <= s)

Shows(c, s) == IF Waits(c, s) THEN {record[c].message} ELSE {}

LEMMA WayShows ==
  ASSUME NEW s
  PROVE  /\ OnTheWay(s) = [c \in Clients |-> Shows(c, s)]
         /\ OnTheWay(s)' = [c \in Clients |-> Shows(c, s)']
BY DEF OnTheWay, Shows, Waits

\* Nobody starts or stops waiting.
LEMMA SameWay ==
  ASSUME NEW s, \A c \in Clients : Shows(c, s)' = Shows(c, s)
  PROVE  OnTheWay(s)' = OnTheWay(s)
BY WayShows

\* One client's part of what is on its way changes.
LEMMA OneWay ==
  ASSUME NEW s, NEW c \in Clients, NEW x, Shows(c, s)' = x,
         \A d \in Clients : d # c => Shows(d, s)' = Shows(d, s)
  PROVE  OnTheWay(s)' = [OnTheWay(s) EXCEPT ![c] = x] /\ OnTheWay(s)[c] = Shows(c, s)
BY WayShows

\* The steps of Delivery as sink s may see them.
Submits(s) == \E c \in Clients :
  /\ calls' = [calls EXCEPT ![c] = @ + 1]
  /\ OnTheWay(s)' = [OnTheWay(s) EXCEPT ![c] = @ \cup {<<c, calls'[c]>>}]
  /\ UNCHANGED LinesOf(s)

Delivers(s) == \E c \in Clients : \E r \in OnTheWay(s)[c] :
  /\ \A other \in OnTheWay(s)[c] : r[2] <= other[2]
  /\ LinesOf(s)' = Append(LinesOf(s), r)
  /\ OnTheWay(s)' = [OnTheWay(s) EXCEPT ![c] = @ \ {r}]

Loses(s) == \E c \in Clients : \E r \in OnTheWay(s)[c] :
  /\ OnTheWay(s)' = [OnTheWay(s) EXCEPT ![c] = @ \ {r}]
  /\ UNCHANGED LinesOf(s)

Idles(s) == UNCHANGED <<OnTheWay(s), LinesOf(s)>>

Moves(s) == Delivers(s) \/ Loses(s) \/ Idles(s)

Seen(s) == Submits(s) \/ (UNCHANGED calls /\ Moves(s))

\* A client that stops waiting without a write loses its record.
LEMMA Leaves ==
  ASSUME NEW s, NEW c \in Clients, Waits(c, s), ~Waits(c, s)', UNCHANGED LinesOf(s),
         \A d \in Clients : d # c => Shows(d, s)' = Shows(d, s)
  PROVE  Loses(s)
<1>1. Shows(c, s) = {record[c].message} /\ Shows(c, s)' = {}
  BY DEF Shows
<1>2. OnTheWay(s)' = [OnTheWay(s) EXCEPT ![c] = {}] /\ OnTheWay(s)[c] = {record[c].message}
  BY <1>1, OneWay
<1> QED
  BY <1>2 DEF Loses

LEMMA LogSeen ==
  ASSUME SyncInv, NEW s, NEW c \in Clients, NEW level \in LogLevels, NEW now \in Seconds,
         Log(c, level, now)
  PROVE  Submits(s)
<1>1. /\ pc[c] = "idle" /\ pc' = [pc EXCEPT ![c] = "lock"]
      /\ record' = [record EXCEPT ![c] = create_record(c, level, now)]
      /\ calls' = [calls EXCEPT ![c] = @ + 1]
      /\ UNCHANGED <<k, m_sinks>>
  BY DEF Log, At
<1>2. create_record(c, level, now).message = <<c, calls[c] + 1>>
  BY DEF create_record, LogRecord
<1>3. calls'[c] = calls[c] + 1
  BY <1>1 DEF SyncInv, CallTypeOK
<1>4. /\ pc'[c] = "lock" /\ record'[c].message = <<c, calls[c] + 1>>
      /\ \A d \in Clients : d # c => pc'[d] = pc[d] /\ record'[d] = record[d] /\ k'[d] = k[d]
  BY <1>1, <1>2 DEF SyncInv, CallTypeOK
<1>5. /\ Shows(c, s) = {} /\ Shows(c, s)' = {<<c, calls[c] + 1>>}
      /\ \A d \in Clients : d # c => Shows(d, s)' = Shows(d, s)
  <2>1. Shows(c, s) = {}
    BY <1>1 DEF Shows, Waits
  <2>2. Waits(c, s)'
    BY <1>4 DEF Waits
  <2>3. Shows(c, s)' = {<<c, calls[c] + 1>>}
    BY <2>2, <1>4 DEF Shows
  <2>4. \A d \in Clients : d # c => Shows(d, s)' = Shows(d, s)
    BY <1>4 DEF Shows, Waits
  <2> QED
    BY <2>1, <2>3, <2>4
<1>6. /\ OnTheWay(s)' = [OnTheWay(s) EXCEPT ![c] = {<<c, calls[c] + 1>>}]
      /\ OnTheWay(s)[c] = {}
  BY <1>5, OneWay
<1>7. UNCHANGED LinesOf(s)
  BY <1>1 DEF LinesOf
<1> QED
  BY <1>1, <1>3, <1>6, <1>7 DEF Submits

LEMMA FormatSeen ==
  ASSUME SyncInv, NEW s \in Nat \ {0}, NEW c \in Clients,
         FormatLock(c) \/ FormatToken(c) \/ FormatDone(c)
  PROVE  Idles(s)
<1>1. /\ UNCHANGED <<record, m_sinks>>
      /\ \A d \in Clients : d # c => pc'[d] = pc[d] /\ k'[d] = k[d]
      /\ pc[c] \in {"lock", "format"}
      /\ pc'[c] = "format" \/ (pc'[c] = "write" /\ k'[c] = 1)
  BY DEF FormatLock, FormatToken, FormatDone, At, Goto, SyncInv, CallTypeOK
<1>2. Shows(c, s)' = Shows(c, s)
  BY <1>1 DEF Shows, Waits
<1>3. \A d \in Clients : d # c => Shows(d, s)' = Shows(d, s)
  BY <1>1 DEF Shows, Waits
<1>4. UNCHANGED LinesOf(s)
  BY <1>1 DEF LinesOf
<1> QED
  BY <1>2, <1>3, <1>4, SameWay DEF Idles

LEMMA WriteSeen ==
  ASSUME SyncInv, NEW s \in Nat \ {0}, NEW c \in Clients, WriteSink(c)
  PROVE  Moves(s)
<1>1. /\ pc[c] = "write" /\ k[c] \in DOMAIN m_sinks /\ k[c] \in Nat
      /\ UNCHANGED record
      /\ \A d \in Clients : d # c => pc'[d] = pc[d] /\ k'[d] = k[d]
  BY DEF WriteSink, At, Goto, SyncInv, CallTypeOK
<1>2. \A d \in Clients : d # c => Shows(d, s)' = Shows(d, s)
  BY <1>1 DEF Shows, Waits
<1>3. CASE Put(k[c], record[c].message) /\ pc'[c] = "write" /\ k'[c] = k[c] + 1
  <2>1. /\ DOMAIN m_sinks' = DOMAIN m_sinks
        /\ \A t \in DOMAIN m_sinks :
             m_sinks'[t].lines = IF t = k[c] THEN Append(m_sinks[t].lines, record[c].message)
                                 ELSE m_sinks[t].lines
    <3>1. m_sinks[k[c]] \in Sink
      BY <1>1, SinkFacts DEF SyncInv
    <3> QED
      BY <1>1, <1>3, <3>1 DEF Put, Sink
  <2>2. CASE k[c] = s
    <3>1. Shows(c, s) = {record[c].message} /\ Shows(c, s)' = {}
      BY <1>1, <1>3, <2>2 DEF Shows, Waits
    <3>2. /\ OnTheWay(s)' = [OnTheWay(s) EXCEPT ![c] = {}]
          /\ OnTheWay(s)[c] = {record[c].message}
      BY <1>2, <3>1, OneWay
    <3>3. LinesOf(s)' = Append(LinesOf(s), record[c].message)
      BY <1>1, <2>1, <2>2 DEF LinesOf
    <3>4. record[c].message[2] \in Nat
      <4>1. record[c].message = <<c, calls[c]>>
        BY <1>1 DEF SyncInv, RecordInv, Own, Logging
      <4>2. calls[c] \in Nat
        BY SyncAssumption DEF SyncInv, CallTypeOK
      <4> QED
        BY <4>1, <4>2
    <3>5. record[c].message[2] <= record[c].message[2]
      BY <3>4
    <3> QED
      BY <3>2, <3>3, <3>5 DEF Delivers, Moves
  <2>3. CASE k[c] # s
    <3>1. Shows(c, s)' = Shows(c, s)
      BY <1>1, <1>3, <2>3 DEF Shows, Waits
    <3>2. UNCHANGED LinesOf(s)
      BY <2>1, <2>3 DEF LinesOf
    <3> QED
      BY <1>2, <3>1, <3>2, SameWay DEF Idles, Moves
  <2> QED
    BY <2>2, <2>3
<1>4. CASE pc'[c] = "idle" /\ UNCHANGED m_sinks
  <2>1. UNCHANGED LinesOf(s) /\ ~Waits(c, s)'
    BY <1>4 DEF LinesOf, Waits
  <2>2. CASE Waits(c, s)
    BY <1>2, <2>1, <2>2, Leaves DEF Moves
  <2>3. CASE ~Waits(c, s)
    <3>1. Shows(c, s)' = Shows(c, s)
      BY <2>1, <2>3 DEF Shows
    <3> QED
      BY <1>2, <2>1, <3>1, SameWay DEF Idles, Moves
  <2> QED
    BY <2>2, <2>3
<1> QED
  BY <1>1, <1>3, <1>4 DEF WriteSink, At, Goto, SyncInv, CallTypeOK

LEMMA ReturnSeen ==
  ASSUME SyncInv, NEW s \in Nat \ {0}, NEW c \in Clients, LogReturn(c)
  PROVE  Moves(s)
<1>1. /\ pc'[c] = "idle" /\ UNCHANGED <<record, m_sinks>>
      /\ \A d \in Clients : d # c => pc'[d] = pc[d] /\ k'[d] = k[d]
  BY DEF LogReturn, At, Goto, SyncInv, CallTypeOK
<1>2. \A d \in Clients : d # c => Shows(d, s)' = Shows(d, s)
  BY <1>1 DEF Shows, Waits
<1>3. UNCHANGED LinesOf(s) /\ ~Waits(c, s)'
  BY <1>1 DEF LinesOf, Waits
<1>4. CASE Waits(c, s)
  BY <1>2, <1>3, <1>4, Leaves DEF Moves
<1>5. CASE ~Waits(c, s)
  <2>1. Shows(c, s)' = Shows(c, s)
    BY <1>3, <1>5 DEF Shows
  <2> QED
    BY <1>2, <1>3, <2>1, SameWay DEF Idles, Moves
<1> QED
  BY <1>4, <1>5

LEMMA FlushSeen ==
  ASSUME SyncInv, NEW s, NEW c \in Clients, Flush(c) \/ FlushSink(c) \/ FlushReturn(c)
  PROVE  Idles(s)
<1>1. /\ pc[c] \in {"idle", "flush"} /\ pc'[c] \in {"idle", "flush"} /\ UNCHANGED record
      /\ \A d \in Clients : d # c => pc'[d] = pc[d] /\ k'[d] = k[d]
  BY DEF Flush, FlushSink, FlushReturn, At, Goto, SyncInv, CallTypeOK
<1>2. \A d \in Clients : Shows(d, s)' = Shows(d, s)
  BY <1>1 DEF Shows, Waits
<1>3. UNCHANGED LinesOf(s)
  <2>1. CASE FlushSink(c)
    <3>1. k[c] \in DOMAIN m_sinks /\ Drain(k[c])
      BY <2>1 DEF FlushSink
    <3> QED
      BY <3>1, DrainEffect DEF SyncInv, LinesOf
  <2>2. CASE Flush(c) \/ FlushReturn(c)
    BY <2>2 DEF Flush, FlushReturn, LinesOf
  <2> QED
    BY <2>1, <2>2
<1> QED
  BY <1>2, <1>3, SameWay DEF Idles

LEMMA OwnerSeen ==
  ASSUME SyncInv, NEW s, UNCHANGED <<pc, k, record>>, AddSink \/ UNCHANGED m_sinks
  PROVE  Idles(s)
<1>1. \A d \in Clients : Shows(d, s)' = Shows(d, s)
  BY DEF Shows, Waits
<1>2. UNCHANGED LinesOf(s)
  <2>1. CASE AddSink
    <3>1. /\ DOMAIN m_sinks = 1 .. Len(m_sinks) /\ DOMAIN m_sinks' = 1 .. Len(m_sinks) + 1
          /\ Len(m_sinks) \in Nat
          /\ \A t \in 1 .. Len(m_sinks) : m_sinks'[t] = m_sinks[t]
          /\ m_sinks'[Len(m_sinks) + 1] = NewSink(returned)
      <4>1. m_sinks \in Seq(Sink) /\ NewSink(returned) \in Sink
        BY DEF SyncInv, SinkTypeOK, CallTypeOK, NewSink, Sink
      <4>2. m_sinks' = Append(m_sinks, NewSink(returned))
        BY <2>1 DEF AddSink
      <4> QED
        BY <4>1, <4>2
    <3>2. NewSink(returned).lines = <<>>
      BY DEF NewSink
    <3>3. CASE s = Len(m_sinks) + 1
      BY <3>1, <3>2, <3>3 DEF LinesOf
    <3>4. CASE s # Len(m_sinks) + 1
      BY <3>1, <3>4 DEF LinesOf
    <3> QED
      BY <3>3, <3>4
  <2>2. CASE UNCHANGED m_sinks
    BY <2>2 DEF LinesOf
  <2> QED
    BY <2>1, <2>2
<1> QED
  BY <1>1, <1>2, SameWay DEF Idles

LEMMA StepSeen ==
  ASSUME SyncInv, [Next]_vars, NEW s \in Nat \ {0}
  PROVE  Seen(s)
<1>1. CASE \E c \in Clients, level \in LogLevels, now \in Seconds : Log(c, level, now)
  BY <1>1, LogSeen DEF Seen
<1>2. CASE \E c \in Clients : FormatLock(c) \/ FormatToken(c) \/ FormatDone(c)
  <2>1. UNCHANGED calls
    BY <1>2 DEF FormatLock, FormatToken, FormatDone, history
  <2> QED
    BY <1>2, <2>1, FormatSeen DEF Seen, Moves
<1>3. CASE \E c \in Clients : WriteSink(c) \/ LogReturn(c)
  <2>1. UNCHANGED calls
    BY <1>3 DEF WriteSink, LogReturn
  <2> QED
    BY <1>3, <2>1, WriteSeen, ReturnSeen DEF Seen
<1>4. CASE \E c \in Clients : Flush(c) \/ FlushSink(c) \/ FlushReturn(c)
  <2>1. UNCHANGED calls
    BY <1>4 DEF Flush, FlushSink, FlushReturn, history
  <2> QED
    BY <1>4, <2>1, FlushSeen DEF Seen, Moves
<1>5. CASE \/ \E level \in SetLevels : SetLevel(level)
           \/ \E pattern \in Patterns : SetPattern(pattern)
           \/ InstallPattern \/ AddSink \/ UNCHANGED vars
  <2>1. UNCHANGED <<pc, k, record, calls>> /\ (AddSink \/ UNCHANGED m_sinks)
    BY <1>5 DEF SetLevel, SetPattern, InstallPattern, AddSink, vars, local, history
  <2> QED
    BY <2>1, OwnerSeen DEF Seen, Moves
<1> QED
  BY <1>1, <1>2, <1>3, <1>4, <1>5 DEF Next, ClientStep

\* At the start nothing is on its way and no sink has been given anything.
LEMMA InitSeen ==
  ASSUME Init, NEW s
  PROVE  /\ calls = [c \in Clients |-> 0]
         /\ OnTheWay(s) = [c \in Clients |-> {}] /\ LinesOf(s) = <<>>
<1>1. \A c \in Clients : ~Waits(c, s)
  BY DEF Init, NoneOf, Waits
<1>2. m_sinks = <<NewSink({})>> /\ NewSink({}).lines = <<>>
  BY DEF Init, NewSink
<1>3. LinesOf(s) = <<>>
  BY <1>2 DEF LinesOf
<1> QED
  BY <1>1, <1>3, WayShows DEF Shows, Init, NoneOf

\* For any number of clients and whichever sinks throw, the first two sinks
\* each get the records of a thread at most once and in the order it logged them
\* (SyncBackend::log, SinkManager::write).  The lemmas hold for every sink.
THEOREM SyncLoggerDelivers == Spec => SinksDeliver
<1>1. Init => FirstSink!Init /\ SecondSink!Init
  BY InitSeen DEF FirstSink!Init, SecondSink!Init
<1>2. SyncInv /\ [Next]_vars => [FirstSink!Next]_<<calls, OnTheWay(1), LinesOf(1)>>
  <2> SUFFICES ASSUME SyncInv, [Next]_vars
               PROVE  [FirstSink!Next]_<<calls, OnTheWay(1), LinesOf(1)>>
    OBVIOUS
  <2>1. Submits(1) \/ (UNCHANGED calls /\ (Delivers(1) \/ Loses(1) \/ Idles(1)))
    BY StepSeen DEF Seen, Moves
  <2>2. CASE Submits(1)
    BY <2>2 DEF Submits, FirstSink!Next, FirstSink!Submit
  <2>3. CASE UNCHANGED calls /\ Delivers(1)
    BY <2>3 DEF Delivers, FirstSink!Next, FirstSink!Deliver
  <2>4. CASE UNCHANGED calls /\ Loses(1)
    BY <2>4 DEF Loses, FirstSink!Next, FirstSink!Lose
  <2>5. CASE UNCHANGED calls /\ Idles(1)
    BY <2>5 DEF Idles
  <2> QED
    BY <2>1, <2>2, <2>3, <2>4, <2>5
<1>3. SyncInv /\ [Next]_vars => [SecondSink!Next]_<<calls, OnTheWay(2), LinesOf(2)>>
  <2> SUFFICES ASSUME SyncInv, [Next]_vars
               PROVE  [SecondSink!Next]_<<calls, OnTheWay(2), LinesOf(2)>>
    OBVIOUS
  <2>1. Submits(2) \/ (UNCHANGED calls /\ (Delivers(2) \/ Loses(2) \/ Idles(2)))
    BY StepSeen DEF Seen, Moves
  <2>2. CASE Submits(2)
    BY <2>2 DEF Submits, SecondSink!Next, SecondSink!Submit
  <2>3. CASE UNCHANGED calls /\ Delivers(2)
    BY <2>3 DEF Delivers, SecondSink!Next, SecondSink!Deliver
  <2>4. CASE UNCHANGED calls /\ Loses(2)
    BY <2>4 DEF Loses, SecondSink!Next, SecondSink!Lose
  <2>5. CASE UNCHANGED calls /\ Idles(2)
    BY <2>5 DEF Idles
  <2> QED
    BY <2>1, <2>2, <2>3, <2>4, <2>5
<1> QED
  BY <1>1, <1>2, <1>3, SyncInvariant, PTL
  DEF Spec, SinksDeliver, FirstSink!Spec, SecondSink!Spec
-----------------------------------------------------------------------------
(* The line of a record *)

SettingsTypeOK ==
  /\ m_level \in 0 .. 6 /\ owner \in BOOLEAN
  /\ Len(m_sinks) <= MaxSinks
  /\ config \in Patterns /\ m_pattern \in Patterns
  /\ m_tokens = compile_pattern(m_pattern)
  /\ m_mutex = {c \in Clients : pc[c] = "format"}
  /\ inForce \in [Clients -> SUBSET Patterns]
  /\ DOMAIN tls_buffer = Clients
  /\ cached_seconds \in [Clients -> Seconds \cup {0}]

\* A client's place in the loop it is in.
Places(c) ==
  CASE pc[c] = "format"            -> 1 .. Len(m_tokens) + 1
    [] pc[c] \in {"write", "flush"} -> 1 .. Len(m_sinks) + 1
    [] OTHER                       -> {0}

PlaceInv == \A c \in Clients : k[c] \in Places(c)

\* A client that waits for the mutex or holds it formats with a pattern in
\* force, and its buffer has what the tokens so far print of its record.
BufferInv ==
  \A c \in Clients :
    /\ pc[c] \in {"lock", "format"} =>
         m_pattern \in inForce[c] /\ record[c].timestamp \in Seconds
    /\ pc[c] = "lock" => tls_buffer[c] = <<>>
    /\ pc[c] = "format" => tls_buffer[c] = Printed(m_tokens, record[c])[k[c] - 1]

LineInv == SettingsTypeOK /\ PlaceInv /\ BufferInv /\ LineOfOnePattern

\* The tokens of a pattern print the line one by one.
LEMMA PatternFacts ==
  ASSUME NEW pattern \in Patterns, NEW r
  PROVE  /\ Len(compile_pattern(pattern)) \in Nat
         /\ Printed(compile_pattern(pattern), r)[0] = <<>>
         /\ \A n \in 1 .. Len(compile_pattern(pattern)) :
              Printed(compile_pattern(pattern), r)[n]
                = Printed(compile_pattern(pattern), r)[n - 1]
                    \o Text(compile_pattern(pattern)[n], r)
         /\ Append(Printed(compile_pattern(pattern), r)[Len(compile_pattern(pattern))], <<"\n">>)
              = Meaning(pattern, r)
<1> DEFINE tokens == compile_pattern(pattern)
<1>1. pattern \in Seq(ToSet(pattern))
  BY SyncAssumption
<1>2. tokens \in Seq(Tokens(ToSet(pattern) \cup {"%"}))
  BY <1>1, CompiledTokens
<1>3. Render(tokens, r) = Meaning(pattern, r)
  BY <1>1, CompiledPatternPrintsMeaning
<1> HIDE DEF tokens
<1>4. Len(tokens) \in Nat
  BY <1>2
<1>5. /\ Render(tokens, r) = Append(All(tokens, r), <<"\n">>)
      /\ Printed(tokens, r)[0] = <<>>
      /\ \A n \in 1 .. Len(tokens) :
           Printed(tokens, r)[n] = Printed(tokens, r)[n - 1] \o Text(tokens[n], r)
  BY <1>4, PrintedDefined
<1> QED
  BY <1>3, <1>4, <1>5 DEF tokens, All

LEMMA LineInit == Init => LineInv
<1> SUFFICES ASSUME Init PROVE LineInv
  OBVIOUS
<1>1. \A c \in Clients : pc[c] = "idle" /\ k[c] = 0
  BY DEF Init, NoneOf
<1>2. Len(m_sinks) = 1
  BY DEF Init
<1>3. SettingsTypeOK
  <2>1. m_level \in 0 .. 6 /\ Len(m_sinks) <= MaxSinks
    BY <1>2, SyncAssumption DEF Init
  <2>2. m_mutex = {c \in Clients : pc[c] = "format"}
    BY <1>1 DEF Init
  <2>3. inForce \in [Clients -> SUBSET Patterns] /\ DOMAIN tls_buffer = Clients
    BY DEF Init, NoneOf
  <2>4. cached_seconds \in [Clients -> Seconds \cup {0}]
    BY DEF Init, NoneOf
  <2> QED
    BY <2>1, <2>2, <2>3, <2>4 DEF Init, SettingsTypeOK
<1>4. PlaceInv
  BY <1>1 DEF PlaceInv, Places
<1>5. BufferInv /\ LineOfOnePattern
  BY <1>1 DEF BufferInv, LineOfOnePattern
<1> QED
  BY <1>3, <1>4, <1>5 DEF LineInv

\* A step of one client, which leaves the pattern alone: what is to be shown.
LEMMA ClientKeepsLines ==
  ASSUME SyncInv, LineInv, NEW c \in Clients, UNCHANGED <<settings, Len(m_sinks)>>,
         pc' \in [Clients -> {"idle", "lock", "format", "write", "flush"}],
         \A d \in Clients : d # c =>
           /\ pc'[d] = pc[d] /\ k'[d] = k[d] /\ record'[d] = record[d]
           /\ tls_buffer'[d] = tls_buffer[d] /\ inForce'[d] = inForce[d],
         m_mutex' = {d \in Clients : pc'[d] = "format"},
         inForce' \in [Clients -> SUBSET Patterns],
         DOMAIN tls_buffer' = Clients,
         cached_seconds' \in [Clients -> Seconds \cup {0}],
         k'[c] \in Places(c)',
         pc'[c] \in {"lock", "format"} =>
           m_pattern \in inForce'[c] /\ record'[c].timestamp \in Seconds,
         pc'[c] = "lock" => tls_buffer'[c] = <<>>,
         pc'[c] = "format" => tls_buffer'[c] = Printed(m_tokens, record'[c])[k'[c] - 1],
         pc'[c] = "write" =>
           \E pattern \in inForce'[c] : tls_buffer'[c] = Meaning(pattern, record'[c])
  PROVE  LineInv'
<1>0. UNCHANGED <<m_level, config, m_pattern, m_tokens, owner>>
  BY DEF settings
<1>1. SettingsTypeOK'
  BY <1>0 DEF LineInv, SettingsTypeOK
<1>2. PlaceInv'
  <2> SUFFICES ASSUME NEW d \in Clients PROVE k'[d] \in Places(d)'
    BY DEF PlaceInv
  <2>1. CASE d # c
    BY <1>0, <2>1 DEF LineInv, PlaceInv, Places
  <2> QED
    BY <2>1
<1>3. BufferInv'
  <2> SUFFICES ASSUME NEW d \in Clients
               PROVE  /\ pc'[d] \in {"lock", "format"} =>
                           m_pattern' \in inForce'[d] /\ record'[d].timestamp \in Seconds
                      /\ pc'[d] = "lock" => tls_buffer'[d] = <<>>
                      /\ pc'[d] = "format" =>
                           tls_buffer'[d] = Printed(m_tokens', record'[d])[k'[d] - 1]
    BY DEF BufferInv
  <2>1. CASE d = c
    BY <1>0, <2>1
  <2>2. CASE d # c
    BY <1>0, <2>2 DEF LineInv, BufferInv
  <2> QED
    BY <2>1, <2>2
<1>4. LineOfOnePattern'
  <2> SUFFICES ASSUME NEW d \in Clients, pc'[d] = "write"
               PROVE  \E pattern \in inForce'[d] : tls_buffer'[d] = Meaning(pattern, record'[d])
    BY DEF LineOfOnePattern
  <2>1. CASE d # c
    BY <2>1 DEF LineInv, LineOfOnePattern
  <2> QED
    BY <2>1
<1> QED
  BY <1>1, <1>2, <1>3, <1>4 DEF LineInv

LEMMA LogLine ==
  ASSUME SyncInv, LineInv, NEW c \in Clients, NEW level \in LogLevels, NEW now \in Seconds,
         Log(c, level, now)
  PROVE  LineInv'
<1>1. /\ pc[c] = "idle" /\ pc' = [pc EXCEPT ![c] = "lock"]
      /\ record' = [record EXCEPT ![c] = create_record(c, level, now)]
      /\ tls_buffer' = [tls_buffer EXCEPT ![c] = <<>>]
      /\ inForce' = [inForce EXCEPT ![c] = {m_pattern}]
      /\ UNCHANGED <<settings, m_mutex, m_sinks, k, cached_seconds>>
  BY DEF Log, At
<1>2. create_record(c, level, now).timestamp = now
  BY DEF create_record, LogRecord
<1>3. /\ pc' \in [Clients -> {"idle", "lock", "format", "write", "flush"}]
      /\ pc'[c] = "lock" /\ k'[c] = k[c]
      /\ record'[c] = create_record(c, level, now)
      /\ tls_buffer'[c] = <<>> /\ inForce'[c] = {m_pattern}
      /\ \A d \in Clients : d # c =>
           /\ pc'[d] = pc[d] /\ k'[d] = k[d] /\ record'[d] = record[d]
           /\ tls_buffer'[d] = tls_buffer[d] /\ inForce'[d] = inForce[d]
      /\ inForce' \in [Clients -> SUBSET Patterns] /\ DOMAIN tls_buffer' = Clients
  BY <1>1 DEF SyncInv, CallTypeOK, LineInv, SettingsTypeOK
<1>4. m_mutex' = {d \in Clients : pc'[d] = "format"}
  BY <1>1, <1>3 DEF LineInv, SettingsTypeOK
<1>5. k'[c] \in Places(c)'
  BY <1>1, <1>3 DEF LineInv, PlaceInv, Places
<1>6. cached_seconds' \in [Clients -> Seconds \cup {0}]
  BY <1>1 DEF LineInv, SettingsTypeOK
<1>7. record'[c].timestamp \in Seconds
  BY <1>2, <1>3
<1>8. UNCHANGED <<settings, Len(m_sinks)>>
  BY <1>1
<1> QED
  BY <1>3, <1>4, <1>5, <1>6, <1>7, <1>8, ClientKeepsLines

LEMMA LockLine ==
  ASSUME SyncInv, LineInv, NEW c \in Clients, FormatLock(c)
  PROVE  LineInv'
<1>1. /\ pc[c] = "lock" /\ pc' = [pc EXCEPT ![c] = "format"]
      /\ m_mutex' = m_mutex \cup {c} /\ k' = [k EXCEPT ![c] = 1]
      /\ UNCHANGED <<settings, m_sinks, record, tls_buffer, cached_seconds, inForce>>
  BY DEF FormatLock, At, Goto, history
<1>2. /\ pc' \in [Clients -> {"idle", "lock", "format", "write", "flush"}]
      /\ pc'[c] = "format" /\ k'[c] = 1
      /\ \A d \in Clients : d # c =>
           /\ pc'[d] = pc[d] /\ k'[d] = k[d] /\ record'[d] = record[d]
           /\ tls_buffer'[d] = tls_buffer[d] /\ inForce'[d] = inForce[d]
      /\ inForce' \in [Clients -> SUBSET Patterns] /\ DOMAIN tls_buffer' = Clients
      /\ cached_seconds' \in [Clients -> Seconds \cup {0}]
  BY <1>1 DEF SyncInv, CallTypeOK, LineInv, SettingsTypeOK
<1>3. m_mutex' = {d \in Clients : pc'[d] = "format"}
  BY <1>1, <1>2 DEF LineInv, SettingsTypeOK
<1>4. m_tokens = compile_pattern(m_pattern) /\ m_pattern \in Patterns /\ m_tokens' = m_tokens
  BY <1>1 DEF LineInv, SettingsTypeOK, settings
<1>5. Len(m_tokens) \in Nat /\ Printed(m_tokens, record'[c])[0] = <<>>
  BY <1>4, PatternFacts
<1>6. k'[c] \in Places(c)'
  BY <1>2, <1>4, <1>5 DEF Places
<1>7. m_pattern \in inForce'[c] /\ record'[c].timestamp \in Seconds /\ tls_buffer'[c] = <<>>
  BY <1>1 DEF LineInv, BufferInv
<1>8. tls_buffer'[c] = Printed(m_tokens, record'[c])[k'[c] - 1]
  BY <1>2, <1>5, <1>7
<1>9. UNCHANGED <<settings, Len(m_sinks)>>
  BY <1>1
<1> QED
  BY <1>2, <1>3, <1>6, <1>7, <1>8, <1>9, ClientKeepsLines

LEMMA TokenLine ==
  ASSUME SyncInv, LineInv, NEW c \in Clients, FormatToken(c)
  PROVE  LineInv'
<1> DEFINE token == m_tokens[k[c]]
           after == IF token.kind = "Timestamp" THEN Refresh(cached_seconds[c], record[c])
                    ELSE cached_seconds[c]
           out   == append_token(tls_buffer[c], token, record[c], cached_seconds'[c])
<1>1. /\ pc[c] = "format" /\ k[c] <= Len(m_tokens) /\ k' = [k EXCEPT ![c] = k[c] + 1]
      /\ cached_seconds' = [cached_seconds EXCEPT ![c] = after]
      /\ tls_buffer' = [tls_buffer EXCEPT ![c] = out]
      /\ UNCHANGED <<settings, m_mutex, m_sinks, pc, record, inForce>>
  BY DEF FormatToken, Goto, history
<1>2. /\ m_tokens = compile_pattern(m_pattern) /\ m_pattern \in Patterns /\ m_tokens' = m_tokens
      /\ m_pattern \in inForce[c] /\ record[c].timestamp \in Seconds
      /\ tls_buffer[c] = Printed(m_tokens, record[c])[k[c] - 1]
      /\ cached_seconds \in [Clients -> Seconds \cup {0}]
      /\ cached_seconds[c] \in Seconds \cup {0}
  BY <1>1 DEF LineInv, SettingsTypeOK, BufferInv, settings
<1>3. Len(m_tokens) \in Nat
      /\ \A n \in 1 .. Len(m_tokens) :
           Printed(m_tokens, record[c])[n]
             = Printed(m_tokens, record[c])[n - 1] \o Text(m_tokens[n], record[c])
  BY <1>2, PatternFacts
<1>4. k[c] \in 1 .. Len(m_tokens) + 1
  BY <1>1 DEF LineInv, PlaceInv, Places
<1>5. k[c] \in 1 .. Len(m_tokens)
  BY <1>1, <1>3, <1>4
<1>6. after \in Seconds \cup {0} /\ (token.kind = "Timestamp" => after = record[c].timestamp)
  BY <1>2, RefreshIsNow
<1> HIDE DEF after
<1>7. cached_seconds' \in [Clients -> Seconds \cup {0}] /\ cached_seconds'[c] = after
  BY <1>1, <1>2, <1>6
<1>8. out = tls_buffer[c] \o Text(token, record[c])
  <2>1. token.kind = "Timestamp" => cached_seconds'[c] = record[c].timestamp
    BY <1>6, <1>7
  <2> HIDE DEF token
  <2> QED
    BY <2>1, TokenText
<1> HIDE DEF out, token
<1>9. out = Printed(m_tokens, record[c])[k[c]]
  <2>1. Printed(m_tokens, record[c])[k[c]]
          = Printed(m_tokens, record[c])[k[c] - 1] \o Text(token, record[c])
    BY <1>3, <1>5 DEF token
  <2> QED
    BY <1>2, <1>8, <2>1
<1>10. /\ pc' \in [Clients -> {"idle", "lock", "format", "write", "flush"}]
       /\ pc'[c] = "format" /\ k'[c] = k[c] + 1 /\ tls_buffer'[c] = out
       /\ \A d \in Clients : d # c =>
            /\ pc'[d] = pc[d] /\ k'[d] = k[d] /\ record'[d] = record[d]
            /\ tls_buffer'[d] = tls_buffer[d] /\ inForce'[d] = inForce[d]
       /\ inForce' \in [Clients -> SUBSET Patterns] /\ DOMAIN tls_buffer' = Clients
  BY <1>1 DEF SyncInv, CallTypeOK, LineInv, SettingsTypeOK
<1>11. m_mutex' = {d \in Clients : pc'[d] = "format"}
  BY <1>1 DEF LineInv, SettingsTypeOK
<1>12. k'[c] \in Places(c)'
  <2>1. k[c] + 1 \in 1 .. Len(m_tokens) + 1
    BY <1>3, <1>5
  <2> QED
    BY <1>2, <1>10, <2>1 DEF Places
<1>13. tls_buffer'[c] = Printed(m_tokens, record'[c])[k'[c] - 1]
  <2>1. (k[c] + 1) - 1 = k[c]
    BY <1>5
  <2> QED
    BY <1>1, <1>9, <1>10, <2>1
<1>14. m_pattern \in inForce'[c] /\ record'[c].timestamp \in Seconds
  BY <1>1, <1>2
<1>15. UNCHANGED <<settings, Len(m_sinks)>>
  BY <1>1
<1> QED
  BY <1>7, <1>10, <1>11, <1>12, <1>13, <1>14, <1>15, ClientKeepsLines

LEMMA DoneLine ==
  ASSUME SyncInv, LineInv, NEW c \in Clients, FormatDone(c)
  PROVE  LineInv'
<1> DEFINE line == Append(tls_buffer[c], <<"\n">>)
<1>1. /\ pc[c] = "format" /\ pc' = [pc EXCEPT ![c] = "write"] /\ k[c] = Len(m_tokens) + 1
      /\ tls_buffer' = [tls_buffer EXCEPT ![c] = line]
      /\ m_mutex' = m_mutex \ {c} /\ k' = [k EXCEPT ![c] = 1]
      /\ UNCHANGED <<settings, m_sinks, record, cached_seconds, inForce>>
  BY DEF FormatDone, At, Goto, history
<1>2. /\ m_tokens = compile_pattern(m_pattern) /\ m_pattern \in Patterns
      /\ m_pattern \in inForce[c]
      /\ tls_buffer[c] = Printed(m_tokens, record[c])[k[c] - 1]
  BY <1>1 DEF LineInv, SettingsTypeOK, BufferInv
<1>3. /\ Len(m_tokens) \in Nat
      /\ Append(Printed(m_tokens, record[c])[Len(m_tokens)], <<"\n">>)
           = Meaning(m_pattern, record[c])
  BY <1>2, PatternFacts
<1>4. line = Meaning(m_pattern, record[c])
  <2>1. k[c] - 1 = Len(m_tokens)
    BY <1>1, <1>3
  <2> QED
    BY <1>2, <1>3, <2>1
<1> HIDE DEF line
<1>5. /\ pc' \in [Clients -> {"idle", "lock", "format", "write", "flush"}]
      /\ pc'[c] = "write" /\ k'[c] = 1 /\ tls_buffer'[c] = line
      /\ \A d \in Clients : d # c =>
           /\ pc'[d] = pc[d] /\ k'[d] = k[d] /\ record'[d] = record[d]
           /\ tls_buffer'[d] = tls_buffer[d] /\ inForce'[d] = inForce[d]
      /\ inForce' \in [Clients -> SUBSET Patterns] /\ DOMAIN tls_buffer' = Clients
      /\ cached_seconds' \in [Clients -> Seconds \cup {0}]
  BY <1>1 DEF SyncInv, CallTypeOK, LineInv, SettingsTypeOK
<1>6. m_mutex' = {d \in Clients : pc'[d] = "format"}
  BY <1>1, <1>5 DEF LineInv, SettingsTypeOK
<1>7. k'[c] \in Places(c)'
  <2>1. Len(m_sinks') \in Nat
    BY <1>1, SinkFacts DEF SyncInv
  <2> QED
    BY <1>5, <2>1 DEF Places
<1>8. \E pattern \in inForce'[c] : tls_buffer'[c] = Meaning(pattern, record'[c])
  BY <1>1, <1>2, <1>4, <1>5
<1>9. UNCHANGED <<settings, Len(m_sinks)>>
  BY <1>1
<1> QED
  BY <1>5, <1>6, <1>7, <1>8, <1>9, ClientKeepsLines

\* The steps of write and flush leave the buffer alone.
LEMMA SinkStepLine ==
  ASSUME SyncInv, LineInv, NEW c \in Clients,
         \/ WriteSink(c) \/ LogReturn(c) \/ Flush(c) \/ FlushSink(c) \/ FlushReturn(c)
  PROVE  LineInv'
<1>1. /\ UNCHANGED <<settings, m_mutex, record, tls_buffer, cached_seconds>>
      /\ pc[c] \notin {"lock", "format"} /\ pc'[c] \notin {"lock", "format"}
      /\ pc' \in [Clients -> {"idle", "lock", "format", "write", "flush"}]
      /\ pc'[c] = "write" => pc[c] = "write" /\ inForce'[c] = inForce[c]
      /\ \A d \in Clients : d # c =>
           pc'[d] = pc[d] /\ k'[d] = k[d] /\ inForce'[d] = inForce[d]
      /\ inForce' \in [Clients -> SUBSET Patterns]
  <2> USE DEF SyncInv, CallTypeOK, LineInv, SettingsTypeOK, At, Goto, history
  <2>1. CASE WriteSink(c)
    BY <2>1 DEF WriteSink
  <2>2. CASE LogReturn(c)
    BY <2>2 DEF LogReturn
  <2>3. CASE Flush(c)
    BY <2>3 DEF Flush
  <2>4. CASE FlushSink(c)
    BY <2>4 DEF FlushSink
  <2>5. CASE FlushReturn(c)
    BY <2>5 DEF FlushReturn
  <2> QED
    BY <2>1, <2>2, <2>3, <2>4, <2>5
<1>2. m_mutex' = {d \in Clients : pc'[d] = "format"}
  BY <1>1 DEF LineInv, SettingsTypeOK
<1>3. Len(m_sinks') = Len(m_sinks) /\ Len(m_sinks) \in Nat /\ DOMAIN m_sinks = 1 .. Len(m_sinks)
  <2>1. CASE UNCHANGED m_sinks
    BY <2>1, SinkFacts DEF SyncInv
  <2>2. CASE \E s, r : Put(s, r)
    BY <2>2, SinkFacts DEF SyncInv, SinkTypeOK, Put
  <2>3. CASE \E s : Drain(s)
    BY <2>3, SinkFacts DEF SyncInv, SinkTypeOK, Drain
  <2> QED
    BY <2>1, <2>2, <2>3 DEF WriteSink, LogReturn, Flush, FlushSink, FlushReturn
<1>4. k'[c] \in Places(c)'
  <2>1. k[c] \in Nat
    BY DEF SyncInv, CallTypeOK
  <2>2. \/ pc'[c] = "idle" /\ k'[c] = 0
        \/ pc'[c] \in {"write", "flush"} /\ k'[c] \in 1 .. Len(m_sinks) + 1
    <3> USE DEF SyncInv, CallTypeOK, At, Goto
    <3>1. CASE WriteSink(c)
      BY <1>3, <2>1, <3>1 DEF WriteSink
    <3>2. CASE LogReturn(c)
      BY <3>2 DEF LogReturn
    <3>3. CASE Flush(c)
      BY <1>3, <3>3 DEF Flush
    <3>4. CASE FlushSink(c)
      BY <1>3, <2>1, <3>4 DEF FlushSink
    <3>5. CASE FlushReturn(c)
      BY <3>5 DEF FlushReturn
    <3> QED
      BY <3>1, <3>2, <3>3, <3>4, <3>5
  <2> QED
    BY <1>3, <2>2 DEF Places
<1>5. pc'[c] = "write" =>
        \E pattern \in inForce'[c] : tls_buffer'[c] = Meaning(pattern, record'[c])
  BY <1>1 DEF LineInv, LineOfOnePattern
<1>6. /\ DOMAIN tls_buffer' = Clients
      /\ cached_seconds' \in [Clients -> Seconds \cup {0}]
  BY <1>1 DEF LineInv, SettingsTypeOK
<1> QED
  BY <1>1, <1>2, <1>3, <1>4, <1>5, <1>6, ClientKeepsLines

\* A new pattern is put in while no client formats; those that wait for the
\* mutex will use it.
LEMMA InstallLine ==
  ASSUME SyncInv, LineInv, InstallPattern
  PROVE  LineInv'
<1>1. /\ m_mutex = {} /\ owner' = FALSE
      /\ m_pattern' = config /\ m_tokens' = compile_pattern(config)
      /\ inForce' = [c \in Clients |-> IF pc[c] = "lock" THEN inForce[c] \cup {config}
                                       ELSE inForce[c]]
      /\ UNCHANGED <<m_level, config, m_mutex, m_sinks, pc, k, record, tls_buffer, cached_seconds>>
  BY DEF InstallPattern, local
<1>2. \A c \in Clients : pc[c] # "format"
  BY <1>1 DEF LineInv, SettingsTypeOK
<1>3. SettingsTypeOK'
  BY <1>1 DEF LineInv, SettingsTypeOK
<1>4. PlaceInv'
  BY <1>1, <1>2 DEF LineInv, PlaceInv, Places
<1>5. BufferInv'
  BY <1>1, <1>2 DEF LineInv, BufferInv
<1>6. LineOfOnePattern'
  BY <1>1 DEF LineInv, LineOfOnePattern
<1> QED
  BY <1>3, <1>4, <1>5, <1>6 DEF LineInv

LEMMA SettingLine ==
  ASSUME LineInv, \/ \E level \in SetLevels : SetLevel(level)
                  \/ \E pattern \in Patterns : SetPattern(pattern)
                  \/ UNCHANGED vars
  PROVE  LineInv'
<1>1. /\ UNCHANGED <<m_pattern, m_tokens, m_mutex, m_sinks, pc, k, record, tls_buffer,
                     cached_seconds, inForce>>
      /\ config' \in Patterns /\ m_level' \in 0 .. 6 /\ owner' \in BOOLEAN
  <2> USE DEF LineInv, SettingsTypeOK, local, history
  <2>1. CASE \E level \in SetLevels : SetLevel(level)
    BY <2>1, SyncAssumption DEF SetLevel
  <2>2. CASE \E pattern \in Patterns : SetPattern(pattern)
    BY <2>2 DEF SetPattern
  <2>3. CASE UNCHANGED vars
    BY <2>3 DEF vars, settings
  <2> QED
    BY <2>1, <2>2, <2>3
<1> QED
  BY <1>1 DEF LineInv, SettingsTypeOK, PlaceInv, Places, BufferInv, LineOfOnePattern

LEMMA AddSinkLine ==
  ASSUME SyncInv, LineInv, AddSink
  PROVE  LineInv'
<1>1. /\ \A c \in Clients : pc[c] = "idle"
      /\ Len(m_sinks) < MaxSinks /\ m_sinks' = Append(m_sinks, NewSink(returned))
      /\ UNCHANGED <<m_level, config, m_pattern, m_tokens, owner, m_mutex, pc, k, record,
                     tls_buffer, cached_seconds, inForce>>
  BY DEF AddSink, settings, local, history
<1>2. Len(m_sinks') = Len(m_sinks) + 1 /\ Len(m_sinks) \in Nat
  BY <1>1 DEF SyncInv, SinkTypeOK
<1>3. SettingsTypeOK'
  BY <1>1, <1>2, SyncAssumption DEF LineInv, SettingsTypeOK
<1>4. PlaceInv'
  BY <1>1 DEF LineInv, PlaceInv, Places
<1>5. BufferInv' /\ LineOfOnePattern'
  BY <1>1 DEF BufferInv, LineOfOnePattern
<1> QED
  BY <1>3, <1>4, <1>5 DEF LineInv

LEMMA LineStep == SyncInv /\ LineInv /\ [Next]_vars => LineInv'
<1> SUFFICES ASSUME SyncInv, LineInv, [Next]_vars PROVE LineInv'
  OBVIOUS
<1>1. CASE \E c \in Clients, level \in LogLevels, now \in Seconds : Log(c, level, now)
  BY <1>1, LogLine
<1>2. CASE \E c \in Clients : FormatLock(c) \/ FormatToken(c) \/ FormatDone(c)
  BY <1>2, LockLine, TokenLine, DoneLine
<1>3. CASE \E c \in Clients : \/ WriteSink(c) \/ LogReturn(c)
                              \/ Flush(c) \/ FlushSink(c) \/ FlushReturn(c)
  BY <1>3, SinkStepLine
<1>4. CASE \/ \E level \in SetLevels : SetLevel(level)
           \/ \E pattern \in Patterns : SetPattern(pattern)
           \/ UNCHANGED vars
  BY <1>4, SettingLine
<1>5. CASE InstallPattern
  BY <1>5, InstallLine
<1>6. CASE AddSink
  BY <1>6, AddSinkLine
<1> QED
  BY <1>1, <1>2, <1>3, <1>4, <1>5, <1>6 DEF Next, ClientStep

LEMMA LineInvariant == Spec => [](SyncInv /\ LineInv)
<1> QED
  BY SyncInit, SyncStep, LineInit, LineStep, PTL DEF Spec

\* Every client is at a place its loop has, the formatter's mutex is held by
\* those that format, and there are at most MaxSinks sinks (logger.cpp).
THEOREM SyncTypeCorrect == Spec => []SyncTypeOK
<1>1. SyncInv /\ LineInv => SyncTypeOK
  <2> SUFFICES ASSUME SyncInv, LineInv PROVE SyncTypeOK
    OBVIOUS
  <2>1. Len(m_tokens) \in Nat /\ Len(m_sinks) \in Nat
    <3>1. m_tokens = compile_pattern(m_pattern) /\ m_pattern \in Patterns
      BY DEF LineInv, SettingsTypeOK
    <3> QED
      BY <3>1, PatternFacts, SinkFacts DEF SyncInv
  <2>2. \A c \in Clients : k[c] \in 0 .. 1 + IF pc[c] = "format" THEN Len(m_tokens)
                                              ELSE Len(m_sinks)
    <3> TAKE c \in Clients
    <3>1. k[c] \in Places(c)
      BY DEF LineInv, PlaceInv
    <3> QED
      BY <2>1, <3>1 DEF Places
  <2>3. \A s \in DOMAIN m_sinks :
          m_sinks[s].lines \in Seq(Id) /\ m_sinks[s].flushed \in 0 .. Len(m_sinks[s].lines)
    BY SinkFacts DEF SyncInv
  <2> QED
    BY <2>2, <2>3 DEF SyncInv, CallTypeOK, LineInv, SettingsTypeOK, SyncTypeOK
<1> QED
  BY <1>1, LineInvariant, PTL

\* For every pattern, clock and number of clients: the line a client writes is
\* what one pattern in force during the call means for its own record, however
\* set_pattern and the other clients' calls interleave with it
\* (Formatter::format and set_pattern, SyncBackend::log).
THEOREM LinesKeepOnePattern == Spec => []LineOfOnePattern
<1>1. LineInv => LineOfOnePattern
  BY DEF LineInv
<1> QED
  BY <1>1, LineInvariant, PTL
=============================================================================
