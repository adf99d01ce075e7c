-------------------------- MODULE RotatingFileSink --------------------------
(***************************************************************************)
(* logger::RotatingFileSink (src/sink.cpp): an append-only file and its    *)
(* numbered backups.  m_mutex makes the calls one at a time, so there is   *)
(* one call in progress; its steps matter because an operation of the file *)
(* system can fail at each of them and the process can crash between them. *)
(*                                                                         *)
(* The file system and std::ofstream are modelled as the code uses them:   *)
(* bytes written stay in the stream's buffer until it is full, flushed or  *)
(* closed; a write to a stream that is not open only sets its error bits;  *)
(* a successful open clears them.  A write(2) that fails is left out.      *)
(***************************************************************************)
EXTENDS Naturals, SequencesExt

CONSTANTS
  Sizes,        \* the sizes a formatted record can have, in bytes
  FileSizes,    \* the values of max_file_size under consideration
  FileCounts,   \* the values of max_files under consideration
  BufferSize,   \* bytes the stream can hold back
  MaxWrites,    \* bound: records written
  MaxFaults,    \* bound: failures, crashes and destructions
  NoFile        \* stands for a path that does not exist

\* A record in a file: which one it is, and its size.
Line == [id : 1 .. MaxWrites, size : Sizes]

ASSUME RotationAssumption ==
  /\ Sizes \subseteq Nat \ {0}
  /\ FileSizes \subseteq Nat /\ FileCounts \subseteq Nat
  /\ BufferSize \in Nat /\ MaxWrites \in Nat /\ MaxFaults \in Nat
  /\ NoFile \notin Seq(Line)

VARIABLES
  m_max_file_size, m_max_files,
  disk,          \* disk[0] is m_file, disk[i] is m_file.i
  stream,        \* is m_stream open
  buffer,        \* records it holds back
  call,          \* where the call in progress is
  i,             \* the loop variable of rotate
  line,          \* the records the call has to append: one, or none
  issued,        \* history: records written so far
  dropped,       \* history: records lost with an exception, a closed stream or a crash
  faults,        \* history: how much of MaxFaults is used up
  renameFailed   \* history: has a rename failed

params  == <<m_max_file_size, m_max_files>>
history == <<issued, dropped, faults, renameFailed>>
vars    == <<params, disk, stream, buffer, call, i, line, history>>

File(k) == IF disk[k] = NoFile THEN <<>> ELSE disk[k]
Bytes(s) ==
  LET sum[n \in 0 .. Len(s)] == IF n = 0 THEN 0 ELSE sum[n - 1] + s[n].size
  IN sum[Len(s)]
Ids(s)  == {l.id : l \in ToSet(s)}

RotTypeOK ==
  /\ m_max_file_size \in FileSizes /\ m_max_files \in FileCounts
  /\ DOMAIN disk = 0 .. m_max_files
  /\ \A k \in DOMAIN disk : disk[k] # NoFile => disk[k] \in Seq(Line)
  /\ stream \in BOOLEAN
  /\ buffer \in Seq(Line) /\ Bytes(buffer) <= BufferSize
  /\ call \in {"absent", "idle", "close", "rename", "reopen", "append"}
  /\ i \in 0 .. m_max_files
  /\ line \in Seq(Line) /\ Len(line) <= 1
  /\ issued \in 0 .. MaxWrites /\ dropped \subseteq 1 .. issued
  /\ faults \in 0 .. MaxFaults /\ renameFailed \in BOOLEAN

Init ==
  /\ m_max_file_size \in FileSizes /\ m_max_files \in FileCounts
  /\ disk = [k \in 0 .. m_max_files |-> NoFile]
  /\ stream = FALSE /\ buffer = <<>>
  /\ call = "absent" /\ i = 0 /\ line = <<>>
  /\ issued = 0 /\ dropped = {} /\ faults = 0 /\ renameFailed = FALSE

Fault == faults < MaxFaults /\ faults' = faults + 1
At(from, to) == call = from /\ call' = to

\* open with ios::app creates the file where there is none.
Open ==
  /\ stream' = TRUE
  /\ disk' = [disk EXCEPT ![0] = File(0)]

\* The call ends with an exception and its record is not written.
Throw ==
  /\ Fault
  /\ dropped' = dropped \cup Ids(line)
  /\ line' = <<>>
-----------------------------------------------------------------------------
\* The constructor; if it throws there is no sink.
Construct ==
  /\ call = "absent"
  /\ \/ /\ Open
        /\ call' = "idle"
        /\ UNCHANGED faults
     \/ /\ Fault
        /\ UNCHANGED <<disk, stream, call>>
  /\ UNCHANGED <<params, buffer, i, line, issued, dropped, renameFailed>>

\* Mutant: the size of the record is left out of the comparison.
WriteFileSizeOnly(size) ==
  /\ issued < MaxWrites
  /\ issued' = issued + 1
  /\ line' = <<[id |-> issued + 1, size |-> size]>>
  /\ At("idle", IF Bytes(File(0)) >= m_max_file_size THEN "close" ELSE "append")
  /\ UNCHANGED <<params, disk, stream, buffer, i, dropped, faults, renameFailed>>

\* Mutant: rotation one byte early.
WriteOneEarly(size) ==
  /\ issued < MaxWrites
  /\ issued' = issued + 1
  /\ line' = <<[id |-> issued + 1, size |-> size]>>
  /\ At("idle", IF Bytes(File(0)) + size + 1 >= m_max_file_size THEN "close" ELSE "append")
  /\ UNCHANGED <<params, disk, stream, buffer, i, dropped, faults, renameFailed>>

\* write: the size is that of the file, without what the stream holds back.
Write(size) ==
  /\ issued < MaxWrites
  /\ issued' = issued + 1
  /\ line' = <<[id |-> issued + 1, size |-> size]>>
  /\ At("idle", IF Bytes(File(0)) + size >= m_max_file_size THEN "close" ELSE "append")
  /\ UNCHANGED <<params, disk, stream, buffer, i, dropped, faults, renameFailed>>

\* exists or file_size throws.
WriteThrows(size) ==
  /\ issued < MaxWrites
  /\ call = "idle"
  /\ Fault
  /\ issued' = issued + 1
  /\ dropped' = dropped \cup {issued + 1}
  /\ UNCHANGED <<params, disk, stream, buffer, call, i, line, renameFailed>>

\* What the stream holds back goes to the file it has open.
Spill ==
  /\ disk' = IF stream THEN [disk EXCEPT ![0] = File(0) \o buffer] ELSE disk
  /\ buffer' = <<>>

\* Mutant: the loop starts one backup too far.
CloseOneTooMany ==
  /\ At("close", "rename")
  /\ Spill
  /\ stream' = FALSE
  /\ i' = m_max_files + 1
  /\ UNCHANGED <<params, line, history>>

\* rotate: m_stream.close().
Close ==
  /\ At("close", "rename")
  /\ Spill
  /\ stream' = FALSE
  /\ i' = m_max_files
  /\ UNCHANGED <<params, line, history>>

\* Mutant: the backups are renamed from the newest to the oldest.
RenameAscending ==
  /\ i > 0
  /\ call = "rename"
  /\ i' = i - 1
  /\ LET src == m_max_files - i IN
     /\ disk[src] # NoFile
     /\ disk' = [disk EXCEPT ![src + 1] = disk[src], ![src] = NoFile]
  /\ UNCHANGED <<params, stream, buffer, call, line, history>>

\* Mutant: a source that is missing skips the decrement.
RenameStuck ==
  /\ i > 0
  /\ call = "rename"
  /\ disk[i - 1] # NoFile
  /\ i' = i - 1
  /\ disk' = [disk EXCEPT ![i] = disk[i - 1], ![i - 1] = NoFile]
  /\ UNCHANGED <<params, stream, buffer, call, line, history>>

\* One round of the loop.  rename replaces the destination; its error is ignored.
Rename ==
  /\ i > 0
  /\ call = "rename"
  /\ i' = i - 1
  /\ \/ /\ disk[i - 1] # NoFile
        /\ disk' = [disk EXCEPT ![i] = disk[i - 1], ![i - 1] = NoFile]
        /\ UNCHANGED <<faults, renameFailed>>
     \/ /\ disk[i - 1] = NoFile
        /\ UNCHANGED <<disk, faults, renameFailed>>
     \/ /\ disk[i - 1] # NoFile
        /\ Fault
        /\ renameFailed' = TRUE
        /\ UNCHANGED disk
  /\ UNCHANGED <<params, stream, buffer, call, line, issued, dropped>>

\* exists throws in the middle of the loop: the sink lives on with its stream
\* closed and some of its backups renamed.
RenameThrows ==
  /\ i > 0
  /\ At("rename", "idle")
  /\ Throw
  /\ i' = 0
  /\ UNCHANGED <<params, disk, stream, buffer, issued, renameFailed>>

RenameDone ==
  /\ i = 0
  /\ At("rename", "reopen")
  /\ UNCHANGED <<params, disk, stream, buffer, i, line, history>>

\* A reopen that fails leaves the stream closed and throws out of write.
Reopen ==
  /\ \/ /\ At("reopen", "append")
        /\ Open
        /\ UNCHANGED <<line, dropped, faults>>
     \/ /\ At("reopen", "idle")
        /\ Throw
        /\ UNCHANGED <<disk, stream>>
  /\ UNCHANGED <<params, buffer, i, issued, renameFailed>>

\* Mutant: what the stream holds back is forgotten when a record does not fit.
AppendLineForgets ==
  /\ stream
  /\ At("append", "idle")
  /\ \/ /\ Bytes(buffer \o line) <= BufferSize
        /\ buffer' = buffer \o line
        /\ UNCHANGED disk
     \/ /\ disk' = [disk EXCEPT ![0] = File(0) \o line]
        /\ UNCHANGED buffer
  /\ line' = <<>>
  /\ UNCHANGED <<params, stream, i, history>>

\* m_stream.write: the record is held back if it fits, or what is held back
\* goes out with it.  On a stream that is not open it is lost without a word.
AppendLine ==
  /\ At("append", "idle")
  /\ \/ /\ stream
        /\ Bytes(buffer \o line) <= BufferSize
        /\ buffer' = buffer \o line
        /\ UNCHANGED <<disk, dropped>>
     \/ /\ stream
        /\ disk' = [disk EXCEPT ![0] = File(0) \o buffer \o line]
        /\ buffer' = <<>>
        /\ UNCHANGED dropped
     \/ /\ ~stream
        /\ dropped' = dropped \cup Ids(line)
        /\ UNCHANGED <<disk, buffer>>
  /\ line' = <<>>
  /\ UNCHANGED <<params, stream, i, issued, faults, renameFailed>>

Flush ==
  /\ call = "idle"
  /\ Spill
  /\ UNCHANGED <<params, stream, call, i, line, history>>

\* The destructor closes the stream; a later sink may take over its files.
Destroy ==
  /\ Fault
  /\ At("idle", "absent")
  /\ Spill
  /\ stream' = FALSE
  /\ UNCHANGED <<params, i, line, issued, dropped, renameFailed>>

\* The process ends at any point; what has not reached the file is lost.
Crash ==
  /\ call # "absent"
  /\ Fault
  /\ call' = "absent"
  /\ stream' = FALSE /\ buffer' = <<>> /\ i' = 0 /\ line' = <<>>
  /\ dropped' = dropped \cup Ids(buffer) \cup Ids(line)
  /\ UNCHANGED <<params, disk, issued, renameFailed>>

Step == Close \/ Rename \/ RenameDone \/ Reopen \/ AppendLine

Next ==
  \/ Construct \/ Step \/ RenameThrows \/ Flush \/ Destroy \/ Crash
  \/ \E size \in Sizes : Write(size) \/ WriteThrows(size)

\* A call that has begun is carried on with.
Spec == Init /\ [][Next]_vars /\ WF_vars(Step)
-----------------------------------------------------------------------------
(* Properties *)

\* The files from the oldest backup to the live one, and the stream's buffer.
Retained ==
  FlattenSeq([k \in 1 .. m_max_files + 1 |-> File(m_max_files + 1 - k)]) \o buffer

Lost == (1 .. issued) \ (Ids(Retained) \cup Ids(line))

\* Read from the oldest backup to the live file, the log is in the order of
\* the writes and repeats nothing, at every step of a rotation, whatever check,
\* rename or reopen failed, after a rotation that an exception left half done,
\* and wherever the process crashed and came back.
OrderAcrossFiles ==
  \A a, b \in 1 .. Len(Retained) : a < b => Retained[a].id < Retained[b].id

\* A rotation gives up the oldest records and no others: unless a rename
\* failed, a record that was not reported or crashed away is lost only after
\* everything older, also by a rotation that takes up where an exception left
\* another one, and without any fault only once every backup is in use.
OldestGoFirst ==
  /\ ~renameFailed => \A lost \in Lost \ dropped : \A kept \in Ids(Retained) : lost < kept
  /\ faults = 0 /\ call = "idle" /\ Lost # {} =>
       m_max_files > 0 /\ \A k \in 1 .. m_max_files : disk[k] # NoFile

\* Without faults the live file outgrows max_file_size by less than what the
\* stream can hold back, or holds one record that is too large by itself:
\* the check in write does not see the buffer.
SizeBound ==
  faults = 0 /\ m_max_files > 0 /\ call = "idle" =>
    LET live == File(0) \o buffer IN
    Len(live) <= 1 \/ Bytes(live) < m_max_file_size + BufferSize

TooLarge(s) == s # <<>> /\ s[1].size >= m_max_file_size

\* A backup is an empty file only where a record as large as max_file_size came:
\* rotate moved the empty live file away for it.  If there is no such record, no
\* backup is empty; without faults, one that is has the record right after it.
EmptyBackupsExplained ==
  /\ (\A size \in Sizes : size < m_max_file_size) =>
       \A k \in 1 .. m_max_files : disk[k] # <<>>
  /\ faults = 0 /\ call = "idle" =>
       \A k \in 1 .. m_max_files : disk[k] = <<>> =>
         TooLarge(File(k - 1) \o IF k = 1 THEN buffer ELSE <<>>)

\* Every call of write returns or throws: the loop over size_t ends at 0, or by
\* an exception of one of its checks.
WriteReturns == call \notin {"absent", "idle"} ~> call \in {"absent", "idle"}
=============================================================================
