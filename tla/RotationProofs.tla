--------------------------- MODULE RotationProofs ---------------------------
(***************************************************************************)
(* What RotatingFileSink keeps, for every size of a record and of a file,  *)
(* every number of backups and of writes, and wherever a call fails or the *)
(* process crashes: the order across the files, which records a rotation   *)
(* gives up, the bound on the live file, and what an empty backup is from. *)
(***************************************************************************)
EXTENDS RotatingFileSink, Induction, SequenceTheorems

Kept(k) == Ids(File(k))

\* Every record of A is older than every record of B.
Before(A, B) == \A a \in A : \A b \in B : a < b

Sorted(s) == \A a, b \in 1 .. Len(s) : a < b => s[a].id < s[b].id

ParamsOK == m_max_file_size \in FileSizes /\ m_max_files \in FileCounts

DiskOK == disk \in [0 .. m_max_files -> Seq(Line) \cup {NoFile}]

StreamOK ==
  /\ stream \in BOOLEAN
  /\ buffer \in Seq(Line) /\ Bytes(buffer) <= BufferSize
  /\ ~stream \/ call \in {"rename", "reopen"} => buffer = <<>>

CallOK ==
  /\ call \in {"absent", "idle", "close", "rename", "reopen", "append"}
  /\ i \in 0 .. m_max_files
  /\ line \in Seq(Line) /\ Len(line) <= 1
  /\ line = <<>> <=> call \in {"absent", "idle"}

HistoryOK ==
  /\ issued \in 0 .. MaxWrites
  /\ dropped \subseteq 1 .. issued
  /\ Ids(buffer) \subseteq 1 .. issued /\ Ids(line) \subseteq {issued} /\ Ids(line) \subseteq 1 .. issued
  /\ faults \in 0 .. MaxFaults /\ renameFailed \in BOOLEAN

TypeInv == ParamsOK /\ DiskOK /\ StreamOK /\ CallOK /\ HistoryOK

\* Where each record is: the files from the oldest backup to the live one, the
\* stream's buffer and the record of the call follow one another.
OrderInv ==
  /\ \A k \in 0 .. m_max_files : Sorted(File(k)) /\ Kept(k) \subseteq 1 .. issued
  /\ \A j, k \in 0 .. m_max_files : j < k => Before(Kept(k), Kept(j))
  /\ \A k \in 0 .. m_max_files : Before(Kept(k), Ids(buffer)) /\ Before(Kept(k), Ids(line))
  /\ Sorted(buffer) /\ Before(Ids(buffer), Ids(line))

AllKept == (UNION {Kept(k) : k \in 0 .. m_max_files}) \cup Ids(buffer)
Gone == (1 .. issued) \ (AllKept \cup Ids(line))

\* What a rotation gives up is older than what is kept; the place it moves the
\* next file to is free, unless it is the place of the oldest backup.
GoneInv ==
  ~renameFailed =>
    /\ Before(Gone \ dropped, AllKept)
    /\ call = "rename" /\ i < m_max_files => disk[i] = NoFile

\* The place that a rotation has emptied and not filled yet.
Hole == IF call = "rename" /\ i < m_max_files THEN {i}
        ELSE IF call = "reopen" /\ m_max_files > 0 THEN {0} ELSE {}

\* Without faults the files are numbered without a gap, but for the hole, and
\* once a record is gone there is a file at every number.
FaultFreeInv ==
  faults = 0 =>
    /\ dropped = {} /\ ~renameFailed
    /\ call \in {"idle", "append", "close"} => stream
    /\ call = "absent" => issued = 0
    /\ \A k \in Hole : disk[k] = NoFile
    /\ 0 \notin Hole /\ call # "absent" => disk[0] # NoFile
    /\ \A j, k \in 0 .. m_max_files :
         j < k /\ j \notin Hole /\ disk[k] # NoFile => disk[j] # NoFile
    /\ Gone # {} => /\ m_max_files > 0
                    /\ \A k \in (1 .. m_max_files) \ Hole : disk[k] # NoFile

\* What the check in write has left room for.
SizeInv ==
  faults = 0 /\ m_max_files > 0 =>
    /\ call = "idle" \/ call = "absent" =>
         \/ Len(File(0)) + Len(buffer) <= 1
         \/ Bytes(File(0)) + Bytes(buffer) < m_max_file_size + BufferSize
    /\ call = "append" =>
         \/ File(0) = <<>> /\ buffer = <<>>
         \/ Bytes(File(0)) + Bytes(line) < m_max_file_size

\* The live file has a record whenever a rotation moves it.
BackupInv ==
  (\A size \in Sizes : size < m_max_file_size) =>
    /\ \A k \in 1 .. m_max_files : disk[k] # <<>>
    /\ call = "close" => File(0) # <<>>
    /\ call = "rename" /\ i > 0 => disk[0] # <<>>

\* What follows a backup: the file before it in number, and for the first one
\* the live file with what the stream holds back and what is being appended.
Newest == File(0) \o buffer \o (IF call = "append" THEN line ELSE <<>>)
Newer(k) == IF k = 0 THEN Newest ELSE File(k)

\* The record that moved an empty file away comes right after it; in a rotation
\* the hole may lie between them, or the record may not be in a file yet.
FollowedByTooLarge(k) ==
  IF k - 1 \notin Hole THEN TooLarge(Newer(k - 1))
  ELSE IF k = 1 THEN TooLarge(line) ELSE TooLarge(Newer(k - 2))

EmptyInv ==
  faults = 0 =>
    /\ \A k \in 1 .. m_max_files : disk[k] = <<>> => FollowedByTooLarge(k)
    /\ call = "close" /\ File(0) \o buffer = <<>> => TooLarge(line)
    /\ call = "rename" /\ i > 0 /\ disk[0] = <<>> => TooLarge(line)
-----------------------------------------------------------------------------
(* Operators *)

Sums(s) ==
  CHOOSE sum : sum = [n \in 0 .. Len(s) |-> IF n = 0 THEN 0 ELSE sum[n - 1] + s[n].size]

\* The sums over the prefixes of a sequence exist and are its equations'.
LEMMA SumsDefined ==
  ASSUME NEW s, Len(s) \in Nat
  PROVE  /\ Bytes(s) = Sums(s)[Len(s)]
         /\ Sums(s)[0] = 0
         /\ \A n \in 1 .. Len(s) : Sums(s)[n] = Sums(s)[n - 1] + s[n].size
<1> DEFINE Sum(f, m) == f = [n \in 0 .. m |-> IF n = 0 THEN 0 ELSE f[n - 1] + s[n].size]
           S == {m \in Nat : \E f : Sum(f, m)}
<1>1. 0 \in S
  <2> DEFINE f == [n \in 0 .. 0 |-> 0]
  <2>1. Sum(f, 0)
    OBVIOUS
  <2> QED
    BY <2>1
<1>2. ASSUME NEW m \in Nat, m \in S PROVE m + 1 \in S
  <2>1. PICK f : Sum(f, m)
    BY <1>2
  <2> DEFINE g == [n \in 0 .. m + 1 |-> IF n = m + 1 THEN f[m] + s[m + 1].size ELSE f[n]]
  <2>2. \A n \in 0 .. m : f[n] = IF n = 0 THEN 0 ELSE f[n - 1] + s[n].size
    BY <2>1
  <2>3. ASSUME NEW n \in 0 .. m + 1
        PROVE  g[n] = IF n = 0 THEN 0 ELSE g[n - 1] + s[n].size
    <3>1. CASE n = m + 1
      BY <3>1
    <3>2. CASE n \in 0 .. m
      BY <3>2, <2>2
    <3> QED
      BY <3>1, <3>2
  <2>4. Sum(g, m + 1)
    BY <2>3
  <2> HIDE DEF g, Sum
  <2> QED
    BY <2>4
<1>3. \E f : Sum(f, Len(s))
  <2> HIDE DEF Sum
  <2>1. \A m \in Nat : m \in S
    BY <1>1, <1>2, Induct
  <2> QED
    BY <2>1
<1>4. Sum(Sums(s), Len(s))
  BY <1>3 DEF Sums
<1>5. \A n \in 0 .. Len(s) : Sums(s)[n] = IF n = 0 THEN 0 ELSE Sums(s)[n - 1] + s[n].size
  BY <1>4
<1> QED
  BY <1>5 DEF Bytes, Sums

\* Sizes add up when sequences are put together.
LEMMA BytesOfConcat ==
  ASSUME NEW s \in Seq(Line), NEW t \in Seq(Line)
  PROVE  /\ Bytes(s) \in Nat
         /\ Bytes(s \o t) = Bytes(s) + Bytes(t)
<1> DEFINE st == s \o t
           Whole == {n \in Nat : n <= Len(s) => Sums(s)[n] \in Nat /\ Sums(st)[n] = Sums(s)[n]}
           Rest == {n \in Nat : n <= Len(t) =>
                      Sums(t)[n] \in Nat /\ Sums(st)[Len(s) + n] = Sums(s)[Len(s)] + Sums(t)[n]}
<1>1. /\ Len(s) \in Nat /\ Len(t) \in Nat /\ Len(st) = Len(s) + Len(t)
      /\ \A n \in 1 .. Len(s) : st[n] = s[n] /\ s[n].size \in Nat
      /\ \A n \in 1 .. Len(t) : st[Len(s) + n] = t[n] /\ t[n].size \in Nat
  <2>1. \A l \in Line : l.size \in Nat
    BY RotationAssumption DEF Line
  <2>2. Len(s) \in Nat /\ Len(t) \in Nat /\ Len(st) = Len(s) + Len(t)
    OBVIOUS
  <2>3. \A n \in 1 .. Len(s) : st[n] = s[n] /\ s[n] \in Line
    OBVIOUS
  <2>4. \A n \in 1 .. Len(t) : st[Len(s) + n] = t[n] /\ t[n] \in Line
    OBVIOUS
  <2> QED
    BY <2>1, <2>2, <2>3, <2>4
<1> HIDE DEF st
<1>2. Bytes(s) = Sums(s)[Len(s)] /\ Bytes(t) = Sums(t)[Len(t)] /\ Bytes(st) = Sums(st)[Len(st)]
  <2>1. Len(st) \in Nat
    BY <1>1
  <2>2. Bytes(st) = Sums(st)[Len(st)]
    BY <2>1, SumsDefined
  <2> QED
    BY <2>2, <1>1, SumsDefined
<1>3. Sums(s)[0] = 0 /\ Sums(t)[0] = 0 /\ Sums(st)[0] = 0
  BY <1>1, SumsDefined
<1>4. /\ \A n \in 1 .. Len(s) : Sums(s)[n] = Sums(s)[n - 1] + s[n].size
      /\ \A n \in 1 .. Len(t) : Sums(t)[n] = Sums(t)[n - 1] + t[n].size
      /\ \A n \in 1 .. Len(st) : Sums(st)[n] = Sums(st)[n - 1] + st[n].size
  <2>1. \A n \in 1 .. Len(s) : Sums(s)[n] = Sums(s)[n - 1] + s[n].size
    BY <1>1, SumsDefined
  <2>2. \A n \in 1 .. Len(t) : Sums(t)[n] = Sums(t)[n - 1] + t[n].size
    BY <1>1, SumsDefined
  <2>3. \A n \in 1 .. Len(st) : Sums(st)[n] = Sums(st)[n - 1] + st[n].size
    <3>1. Len(st) \in Nat
      BY <1>1
    <3> QED
      BY <3>1, SumsDefined
  <2> QED
    BY <2>1, <2>2, <2>3
<1>5. \A n \in Nat : n \in Whole
  <2>1. 0 \in Whole
    BY <1>3
  <2>2. ASSUME NEW n \in Nat, n \in Whole PROVE n + 1 \in Whole
    <3> SUFFICES ASSUME n + 1 <= Len(s)
                 PROVE  Sums(s)[n + 1] \in Nat /\ Sums(st)[n + 1] = Sums(s)[n + 1]
      OBVIOUS
    <3>1. n + 1 \in 1 .. Len(s) /\ n + 1 \in 1 .. Len(st) /\ (n + 1) - 1 = n
      BY <1>1
    <3>2. Sums(s)[n + 1] = Sums(s)[n] + s[n + 1].size
      BY <3>1, <1>4
    <3>3. Sums(st)[n + 1] = Sums(st)[n] + st[n + 1].size
      BY <3>1, <1>4
    <3> QED
      BY <3>1, <3>2, <3>3, <2>2, <1>1
  <2> HIDE DEF Whole
  <2> QED
    BY <2>1, <2>2, Induct
<1>6. Sums(s)[Len(s)] \in Nat /\ Sums(st)[Len(s)] = Sums(s)[Len(s)]
  BY <1>5, <1>1
<1>7. \A n \in Nat : n \in Rest
  <2>1. 0 \in Rest
    BY <1>3, <1>6, <1>1
  <2>2. ASSUME NEW n \in Nat, n \in Rest PROVE n + 1 \in Rest
    <3> SUFFICES ASSUME n + 1 <= Len(t)
                 PROVE  /\ Sums(t)[n + 1] \in Nat
                        /\ Sums(st)[Len(s) + (n + 1)] = Sums(s)[Len(s)] + Sums(t)[n + 1]
      OBVIOUS
    <3>1. /\ n + 1 \in 1 .. Len(t) /\ (n + 1) - 1 = n /\ n <= Len(t)
          /\ Len(s) + (n + 1) \in 1 .. Len(st) /\ (Len(s) + (n + 1)) - 1 = Len(s) + n
      BY <1>1
    <3>2. Sums(t)[n + 1] = Sums(t)[n] + t[n + 1].size
      BY <3>1, <1>4
    <3>3. Sums(st)[Len(s) + (n + 1)] = Sums(st)[Len(s) + n] + st[Len(s) + (n + 1)].size
      BY <3>1, <1>4
    <3>4. Sums(t)[n] \in Nat /\ Sums(st)[Len(s) + n] = Sums(s)[Len(s)] + Sums(t)[n]
      BY <2>2, <3>1
    <3>5. st[Len(s) + (n + 1)] = t[n + 1] /\ t[n + 1].size \in Nat
      BY <1>1, <3>1
    <3> QED
      BY <3>2, <3>3, <3>4, <3>5, <1>6
  <2> HIDE DEF Rest
  <2> QED
    BY <2>1, <2>2, Induct
<1> QED
  BY <1>7, <1>6, <1>2, <1>1 DEF st

\* The empty sequence.
LEMMA Nothing ==
  /\ <<>> \in Seq(Line) /\ Ids(<<>>) = {} /\ Bytes(<<>>) = 0 /\ Sorted(<<>>)
<1>1. Bytes(<<>>) = 0
  <2>1. Len(<<>>) = 0
    OBVIOUS
  <2> QED
    BY <2>1, SumsDefined
<1> QED
  BY <1>1 DEF Ids, Sorted, ToSet

\* The numbers of the records in a sequence, by position.
LEMMA IdsAt ==
  ASSUME NEW s \in Seq(Line)
  PROVE  /\ Ids(s) = {s[n].id : n \in 1 .. Len(s)}
         /\ \A n \in 1 .. Len(s) : s[n] \in Line /\ s[n].id \in 1 .. MaxWrites
<1>1. DOMAIN s = 1 .. Len(s)
  OBVIOUS
<1>2. \A n \in 1 .. Len(s) : s[n] \in Line
  OBVIOUS
<1> QED
  BY <1>1, <1>2 DEF Ids, ToSet, Line

\* Sequences put together have the records of both.
LEMMA IdsOfConcat ==
  ASSUME NEW s \in Seq(Line), NEW t \in Seq(Line)
  PROVE  s \o t \in Seq(Line) /\ Ids(s \o t) = Ids(s) \cup Ids(t)
<1> DEFINE st == s \o t
<1>1. /\ st \in Seq(Line) /\ Len(st) = Len(s) + Len(t)
      /\ Len(s) \in Nat /\ Len(t) \in Nat
  OBVIOUS
<1>2. \A n \in 1 .. Len(s) : n \in 1 .. Len(st) /\ st[n] = s[n]
  OBVIOUS
<1>3. \A n \in 1 .. Len(t) : Len(s) + n \in 1 .. Len(st) /\ st[Len(s) + n] = t[n]
  OBVIOUS
<1>4. ASSUME NEW n \in 1 .. Len(st)
      PROVE  n \in 1 .. Len(s) \/ \E m \in 1 .. Len(t) : n = Len(s) + m
  <2>1. CASE n > Len(s)
    <3>1. n - Len(s) \in 1 .. Len(t) /\ n = Len(s) + (n - Len(s))
      BY <2>1, <1>1
    <3> QED
      BY <3>1
  <2> QED
    BY <2>1, <1>1
<1> HIDE DEF st
<1>5. Ids(st) = {st[n].id : n \in 1 .. Len(st)}
  BY <1>1, IdsAt
<1>6. Ids(s) = {s[n].id : n \in 1 .. Len(s)} /\ Ids(t) = {t[n].id : n \in 1 .. Len(t)}
  BY IdsAt
<1>7. Ids(st) \subseteq Ids(s) \cup Ids(t)
  <2>1. ASSUME NEW n \in 1 .. Len(st) PROVE st[n].id \in Ids(s) \cup Ids(t)
    <3>1. CASE n \in 1 .. Len(s)
      BY <3>1, <1>2, <1>6
    <3>2. ASSUME NEW m \in 1 .. Len(t), n = Len(s) + m PROVE st[n].id \in Ids(t)
      <4>1. st[n] = t[m]
        BY <3>2, <1>3
      <4> QED
        BY <4>1, <1>6
    <3> QED
      BY <3>1, <3>2, <1>4
  <2> QED
    BY <2>1, <1>5
<1>8. Ids(s) \cup Ids(t) \subseteq Ids(st)
  BY <1>2, <1>3, <1>5, <1>6
<1> QED
  BY <1>1, <1>7, <1>8 DEF st

\* Two ordered sequences, the first before the second, are ordered together.
LEMMA SortedConcat ==
  ASSUME NEW s \in Seq(Line), NEW t \in Seq(Line),
         Sorted(s), Sorted(t), Before(Ids(s), Ids(t))
  PROVE  Sorted(s \o t)
<1>1. ASSUME NEW a \in 1 .. Len(s \o t), NEW b \in 1 .. Len(s \o t), a < b
      PROVE  (s \o t)[a].id < (s \o t)[b].id
  <2>1. Len(s) \in Nat /\ Len(t) \in Nat /\ Len(s \o t) = Len(s) + Len(t)
    OBVIOUS
  <2>2. CASE b <= Len(s)
    <3>1. (s \o t)[a] = s[a] /\ (s \o t)[b] = s[b] /\ a \in 1 .. Len(s) /\ b \in 1 .. Len(s)
      BY <1>1, <2>1, <2>2
    <3> QED
      BY <3>1, <1>1 DEF Sorted
  <2>3. CASE a > Len(s)
    <3>1. /\ (s \o t)[a] = t[a - Len(s)] /\ (s \o t)[b] = t[b - Len(s)]
          /\ a - Len(s) \in 1 .. Len(t) /\ b - Len(s) \in 1 .. Len(t) /\ a - Len(s) < b - Len(s)
      BY <1>1, <2>1, <2>3
    <3> QED
      BY <3>1 DEF Sorted
  <2>4. CASE a <= Len(s) /\ b > Len(s)
    <3>1. /\ (s \o t)[a] = s[a] /\ (s \o t)[b] = t[b - Len(s)]
          /\ a \in 1 .. Len(s) /\ b - Len(s) \in 1 .. Len(t)
      BY <1>1, <2>1, <2>4
    <3>2. s[a].id \in Ids(s) /\ t[b - Len(s)].id \in Ids(t)
      BY <3>1, IdsAt
    <3> QED
      BY <3>1, <3>2 DEF Before
  <2> QED
    BY <2>1, <2>2, <2>3, <2>4
<1> QED
  BY <1>1 DEF Sorted

Flattened(f) ==
  CHOOSE flatten : flatten = [n \in 1 .. Len(f) |->
                                IF n = 1 THEN f[n] ELSE flatten[n - 1] \o f[n]]

\* What FlattenSeq puts together, prefix by prefix.
LEMMA FlattenDefined ==
  ASSUME NEW f, Len(f) \in Nat, Len(f) > 0
  PROVE  /\ FlattenSeq(f) = Flattened(f)[Len(f)]
         /\ Flattened(f)[1] = f[1]
         /\ \A n \in 2 .. Len(f) : Flattened(f)[n] = Flattened(f)[n - 1] \o f[n]
<1> DEFINE Flat(g, m) == g = [n \in 1 .. m |-> IF n = 1 THEN f[n] ELSE g[n - 1] \o f[n]]
           S == {m \in Nat : \E g : Flat(g, m)}
<1>1. 0 \in S
  <2> DEFINE g == [n \in 1 .. 0 |-> f[n]]
  <2>1. Flat(g, 0)
    OBVIOUS
  <2> QED
    BY <2>1
<1>2. ASSUME NEW m \in Nat, m \in S PROVE m + 1 \in S
  <2>1. PICK g : Flat(g, m)
    BY <1>2
  <2> DEFINE h == [n \in 1 .. m + 1 |->
                     IF n = m + 1 THEN (IF n = 1 THEN f[n] ELSE g[m] \o f[n]) ELSE g[n]]
  <2>2. \A n \in 1 .. m : g[n] = IF n = 1 THEN f[n] ELSE g[n - 1] \o f[n]
    BY <2>1
  <2>3. ASSUME NEW n \in 1 .. m + 1
        PROVE  h[n] = IF n = 1 THEN f[n] ELSE h[n - 1] \o f[n]
    <3>1. CASE n = m + 1
      BY <3>1
    <3>2. CASE n \in 1 .. m
      BY <3>2, <2>2
    <3> QED
      BY <3>1, <3>2
  <2>4. Flat(h, m + 1)
    BY <2>3
  <2> HIDE DEF h, Flat
  <2> QED
    BY <2>4
<1>3. \E g : Flat(g, Len(f))
  <2> HIDE DEF Flat
  <2>1. \A m \in Nat : m \in S
    BY <1>1, <1>2, Induct
  <2> QED
    BY <2>1
<1>4. Flat(Flattened(f), Len(f))
  BY <1>3 DEF Flattened
<1>5. \A n \in 1 .. Len(f) :
        Flattened(f)[n] = IF n = 1 THEN f[n] ELSE Flattened(f)[n - 1] \o f[n]
  BY <1>4
<1>6. FlattenSeq(f) = Flattened(f)[Len(f)]
  BY DEF FlattenSeq, Flattened
<1>7. Flattened(f)[1] = f[1]
  BY <1>5
<1>8. ASSUME NEW n \in 2 .. Len(f)
      PROVE  Flattened(f)[n] = Flattened(f)[n - 1] \o f[n]
  <2>1. n \in 1 .. Len(f) /\ n # 1
    OBVIOUS
  <2> QED
    BY <2>1, <1>5
<1> QED
  BY <1>6, <1>7, <1>8

\* Ordered sequences, each before the next, are ordered when put together.
LEMMA FlattenSorted ==
  ASSUME NEW f, Len(f) \in Nat, Len(f) > 0,
         \A n \in 1 .. Len(f) : f[n] \in Seq(Line) /\ Sorted(f[n]),
         \A n, m \in 1 .. Len(f) : n < m => Before(Ids(f[n]), Ids(f[m]))
  PROVE  /\ FlattenSeq(f) \in Seq(Line) /\ Sorted(FlattenSeq(f))
         /\ Ids(FlattenSeq(f)) = UNION {Ids(f[n]) : n \in 1 .. Len(f)}
<1> DEFINE F == Flattened(f)
           Good(m) == /\ F[m] \in Seq(Line) /\ Sorted(F[m])
                      /\ Ids(F[m]) = UNION {Ids(f[n]) : n \in 1 .. m}
           S == {m \in Nat : m + 1 <= Len(f) => Good(m + 1)}
<1>1. 0 \in S
  <2>1. F[1] = f[1] /\ f[1] \in Seq(Line) /\ Sorted(f[1])
    <3>1. F[1] = f[1]
      BY FlattenDefined
    <3>2. 1 \in 1 .. Len(f)
      OBVIOUS
    <3> QED
      BY <3>1, <3>2
  <2>2. 1 .. 0 + 1 = {1}
    OBVIOUS
  <2> HIDE DEF F
  <2> QED
    BY <2>1, <2>2
<1>2. ASSUME NEW m \in Nat, m \in S PROVE m + 1 \in S
  <2> SUFFICES ASSUME m + 2 <= Len(f) PROVE Good(m + 2)
    OBVIOUS
  <2>1. Good(m + 1) /\ m + 2 \in 2 .. Len(f) /\ (m + 2) - 1 = m + 1
    BY <1>2
  <2>2. F[m + 2] = F[m + 1] \o f[m + 2]
    BY <2>1, FlattenDefined
  <2>3. f[m + 2] \in Seq(Line) /\ Sorted(f[m + 2])
    BY <2>1
  <2>4. Before(Ids(F[m + 1]), Ids(f[m + 2]))
    <3>1. ASSUME NEW n \in 1 .. m + 1 PROVE Before(Ids(f[n]), Ids(f[m + 2]))
      <4>1. n \in 1 .. Len(f) /\ m + 2 \in 1 .. Len(f) /\ n < m + 2
        BY <2>1
      <4> QED
        BY <4>1
    <3> HIDE DEF F
    <3> QED
      BY <3>1, <2>1 DEF Before
  <2>5. UNION {Ids(f[n]) : n \in 1 .. m + 2} = (UNION {Ids(f[n]) : n \in 1 .. m + 1}) \cup Ids(f[m + 2])
    <3>1. 1 .. m + 2 = (1 .. m + 1) \cup {m + 2}
      OBVIOUS
    <3> QED
      BY <3>1
  <2> HIDE DEF F
  <2>6. F[m + 2] \in Seq(Line) /\ Ids(F[m + 2]) = Ids(F[m + 1]) \cup Ids(f[m + 2])
    BY <2>1, <2>2, <2>3, IdsOfConcat
  <2>7. Sorted(F[m + 2])
    BY <2>1, <2>2, <2>3, <2>4, SortedConcat
  <2> QED
    BY <2>1, <2>5, <2>6, <2>7
<1>3. Good(Len(f))
  <2> HIDE DEF Good
  <2>1. \A m \in Nat : m \in S
    BY <1>1, <1>2, Induct
  <2>2. \A m \in Nat : m + 1 <= Len(f) => Good(m + 1)
    BY <2>1
  <2>3. PICK m \in Nat : m + 1 = Len(f)
    <3>1. Len(f) - 1 \in Nat /\ (Len(f) - 1) + 1 = Len(f)
      OBVIOUS
    <3> QED
      BY <3>1
  <2> QED
    BY <2>2, <2>3
<1> QED
  BY <1>3, FlattenDefined
-----------------------------------------------------------------------------
(* Types *)

\* What a file holds.
LEMMA FileFacts ==
  ASSUME ParamsOK, DiskOK
  PROVE  /\ m_max_files \in Nat /\ 0 \in 0 .. m_max_files
         /\ \A k \in 0 .. m_max_files :
              /\ File(k) \in Seq(Line) /\ disk[k] \in Seq(Line) \cup {NoFile}
              /\ disk[k] # NoFile => File(k) = disk[k]
              /\ disk[k] = NoFile => File(k) = <<>>
  BY RotationAssumption, Nothing DEF ParamsOK, DiskOK, File

LEMMA TypeInvImplies == TypeInv => RotTypeOK
  BY DEF TypeInv, ParamsOK, DiskOK, StreamOK, CallOK, HistoryOK, RotTypeOK

\* A step that leaves the parameters and keeps the kind of what is on disk.
LEMMA SetFile ==
  ASSUME ParamsOK, DiskOK, NEW k \in 0 .. m_max_files, NEW s \in Seq(Line),
         UNCHANGED params, disk' = [disk EXCEPT ![k] = s]
  PROVE  /\ DiskOK' /\ disk'[k] = s /\ disk'[k] # NoFile /\ File(k)' = s
         /\ \A j \in 0 .. m_max_files : j # k => disk'[j] = disk[j] /\ File(j)' = File(j)
  BY RotationAssumption DEF ParamsOK, DiskOK, File, params

\* What the stream holds back is in the file, or there was nothing.
LEMMA SpillEffect ==
  ASSUME ParamsOK, DiskOK, StreamOK, Spill, UNCHANGED params
  PROVE  /\ DiskOK' /\ buffer' = <<>>
         /\ File(0)' = File(0) \o buffer
         /\ \A k \in 1 .. m_max_files : disk'[k] = disk[k] /\ File(k)' = File(k)
         /\ disk[0] # NoFile => disk'[0] # NoFile
         /\ disk'[0] # NoFile => disk'[0] = File(0) \o buffer
<1>1. File(0) \in Seq(Line) /\ buffer \in Seq(Line) /\ 0 \in 0 .. m_max_files
  BY FileFacts DEF StreamOK
<1>2. File(0) \o buffer \in Seq(Line)
  BY <1>1, IdsOfConcat
<1>3. CASE stream
  <2>1. disk' = [disk EXCEPT ![0] = File(0) \o buffer] /\ buffer' = <<>>
    BY <1>3 DEF Spill
  <2>2. /\ DiskOK' /\ disk'[0] = File(0) \o buffer /\ disk'[0] # NoFile /\ File(0)' = File(0) \o buffer
        /\ \A j \in 0 .. m_max_files : j # 0 => disk'[j] = disk[j] /\ File(j)' = File(j)
    BY <2>1, <1>1, <1>2, SetFile
  <2>3. \A j \in 1 .. m_max_files : j \in 0 .. m_max_files /\ j # 0
    OBVIOUS
  <2> QED
    BY <2>1, <2>2, <2>3
<1>4. CASE ~stream
  <2>1. disk' = disk /\ buffer = <<>> /\ buffer' = <<>>
    BY <1>4 DEF Spill, StreamOK
  <2>2. File(0) \o buffer = File(0)
    BY <2>1, <1>1
  <2>3. DiskOK' /\ \A k \in 0 .. m_max_files : File(k)' = File(k)
    BY <2>1 DEF File, DiskOK, params
  <2>4. disk[0] # NoFile => disk[0] = File(0)
    BY DEF File
  <2>5. \A k \in 1 .. m_max_files : k \in 0 .. m_max_files
    OBVIOUS
  <2> QED
    BY <2>1, <2>2, <2>3, <2>4, <2>5, <1>1
<1> QED
  BY <1>3, <1>4

LEMMA TypeInit == Init => TypeInv
<1> SUFFICES ASSUME Init PROVE TypeInv
  OBVIOUS
<1>1. ParamsOK /\ DiskOK
  BY DEF Init, ParamsOK, DiskOK
<1>2. StreamOK
  BY RotationAssumption, Nothing DEF Init, StreamOK
<1>3. CallOK /\ HistoryOK
  BY RotationAssumption, Nothing DEF Init, CallOK, HistoryOK
<1> QED
  BY <1>1, <1>2, <1>3 DEF TypeInv

\* A call or a step of one leaves the parameters.
LEMMA ParamsStay == [Next]_vars => UNCHANGED params
  BY DEF Next, Step, Construct, Write, WriteThrows, Close, Rename, RenameThrows, RenameDone, Reopen,
         AppendLine, Flush, Destroy, Crash, vars

LEMMA EmptyBuffer ==
  ASSUME stream' \in BOOLEAN, buffer' = <<>>
  PROVE  StreamOK'
<1>1. <<>> \in Seq(Line) /\ Bytes(<<>>) = 0 /\ 0 <= BufferSize
  BY RotationAssumption, Nothing
<1>2. Bytes(buffer') = 0
  BY <1>1
<1>3. Bytes(buffer') <= BufferSize
  BY <1>1, <1>2
<1>4. buffer' \in Seq(Line)
  BY <1>1
<1> QED
  BY <1>3, <1>4 DEF StreamOK

\* Every step keeps the types.
LEMMA TypeStep ==
  ASSUME TypeInv, [Next]_vars
  PROVE  TypeInv'
<1>0. /\ m_max_files \in Nat /\ 0 \in 0 .. m_max_files /\ MaxFaults \in Nat /\ MaxWrites \in Nat
      /\ File(0) \in Seq(Line) /\ BufferSize \in Nat
      /\ <<>> \in Seq(Line) /\ Bytes(<<>>) = 0 /\ Ids(<<>>) = {} /\ Len(<<>>) = 0
  BY RotationAssumption, FileFacts, Nothing DEF TypeInv
<1>a. UNCHANGED params /\ ParamsOK'
  BY ParamsStay DEF params, TypeInv, ParamsOK
<1> USE DEF TypeInv
<1>1. CASE UNCHANGED vars
  BY <1>1 DEF vars, params, history, ParamsOK, DiskOK, StreamOK, CallOK, HistoryOK
<1>2. CASE Construct
  <2>1. DiskOK'
    BY <1>2, <1>0, <1>a, SetFile DEF Construct, Open, DiskOK, params
  <2>2. StreamOK'
    <3>1. buffer' = buffer /\ call' \in {"absent", "idle"} /\ (stream' = stream \/ stream' = TRUE)
      BY <1>2 DEF Construct, Open
    <3>2. stream' \in BOOLEAN /\ Bytes(buffer') <= BufferSize /\ buffer' \in Seq(Line)
      BY <3>1 DEF StreamOK
    <3>3. ~stream' => buffer' = <<>>
      BY <3>1 DEF StreamOK
    <3>4. call' \notin {"rename", "reopen"}
      BY <3>1
    <3> QED
      BY <3>2, <3>3, <3>4 DEF StreamOK
  <2>3. CallOK'
    BY <1>2, <1>0, <1>a DEF Construct, Open, Fault, params, CallOK
  <2>4. HistoryOK'
    BY <1>2, <1>0, <1>a DEF Construct, Open, Fault, params, HistoryOK
  <2> QED
    BY <2>1, <2>2, <2>3, <2>4, <1>a
<1>3. ASSUME NEW size \in Sizes, Write(size) PROVE TypeInv'
  <2> DEFINE l == [id |-> issued + 1, size |-> size]
  <2>1. l \in Line /\ l.id = issued + 1
    BY <1>3, <1>0 DEF Write, Line, HistoryOK
  <2> HIDE DEF l
  <2>2. line' = <<l>> /\ issued' = issued + 1
    BY <1>3 DEF Write, l
  <2>3. line' \in Seq(Line) /\ Len(line') = 1 /\ line' # <<>> /\ Ids(line') = {issued + 1}
    BY <2>1, <2>2 DEF Ids, ToSet
  <2>4. CallOK'
    BY <2>3, <1>3, <1>a DEF Write, At, CallOK, params
  <2>5. HistoryOK'
    BY <2>3, <1>0, <1>3 DEF Write, HistoryOK
  <2> QED
    BY <2>4, <2>5, <1>3, <1>a DEF Write, At, DiskOK, StreamOK, params
<1>4. ASSUME NEW size \in Sizes, WriteThrows(size) PROVE TypeInv'
  BY <1>4, <1>0, <1>a DEF WriteThrows, Fault, params, DiskOK, StreamOK, CallOK, HistoryOK
<1>5. CASE Close
  <2>1. DiskOK' /\ buffer' = <<>>
    BY <1>5, <1>a, SpillEffect DEF Close
  <2>2. StreamOK'
    BY <2>1, <1>5, EmptyBuffer DEF Close, StreamOK
  <2>3. CallOK'
    BY <2>1, <1>5, <1>0, <1>a DEF Close, At, params, history, CallOK
  <2>4. HistoryOK'
    <3>1. UNCHANGED <<line, issued, dropped, faults, renameFailed>>
      BY <1>5 DEF Close, history
    <3> QED
      BY <2>1, <3>1, <1>0 DEF HistoryOK
  <2> QED
    BY <2>1, <2>2, <2>3, <2>4, <1>a
<1>6. CASE Rename
  <2>1. DiskOK'
    BY <1>6, <1>0, <1>a DEF Rename, DiskOK, CallOK, params
  <2>2. StreamOK'
    BY <1>6, <1>0, <1>a DEF Rename, Fault, params, StreamOK, CallOK
  <2>3. CallOK'
    BY <1>6, <1>0, <1>a DEF Rename, Fault, params, CallOK
  <2>4. HistoryOK'
    <3>1. UNCHANGED <<buffer, line, issued, dropped>>
      BY <1>6 DEF Rename
    <3>2. \/ UNCHANGED <<faults, renameFailed>>
          \/ faults < MaxFaults /\ faults' = faults + 1 /\ renameFailed' = TRUE
      BY <1>6 DEF Rename, Fault
    <3>3. faults' \in 0 .. MaxFaults
      BY <3>2, <1>0 DEF HistoryOK
    <3>4. renameFailed' \in BOOLEAN
      BY <3>2 DEF HistoryOK
    <3> QED
      BY <3>1, <3>3, <3>4 DEF HistoryOK
  <2> QED
    BY <2>1, <2>2, <2>3, <2>4, <1>a
<1>7. CASE RenameDone
  BY <1>7, <1>0, <1>a DEF RenameDone, At, params, history, DiskOK, StreamOK, CallOK, HistoryOK
<1>8. CASE Reopen
  <2>1. DiskOK'
    BY <1>8, <1>0, <1>a, SetFile DEF Reopen, Open, DiskOK, params
  <2>2. StreamOK'
    <3>1. buffer' = <<>> /\ stream' \in BOOLEAN
      BY <1>8 DEF Reopen, Open, At, StreamOK
    <3> QED
      BY <3>1, EmptyBuffer
  <2>3. CASE At("reopen", "append")
    <3>1. line' = line /\ UNCHANGED <<dropped, faults, buffer, i, issued, renameFailed>>
      BY <1>8, <2>3 DEF Reopen, At
    <3>2. CallOK'
      BY <2>3, <3>1, <1>a DEF At, CallOK, params
    <3>3. HistoryOK'
      BY <3>1 DEF HistoryOK
    <3> QED
      BY <2>1, <2>2, <3>2, <3>3, <1>a
  <2>4. CASE At("reopen", "idle") /\ Throw
    <3>1. /\ line' = <<>> /\ UNCHANGED <<buffer, i, issued, renameFailed>>
          /\ dropped' = dropped \cup Ids(line) /\ faults' = faults + 1 /\ faults < MaxFaults
      BY <1>8, <2>4 DEF Reopen, Throw, Fault
    <3>2. CallOK'
      BY <2>4, <3>1, <1>0, <1>a DEF At, CallOK, params
    <3>3. dropped' \subseteq 1 .. issued
      BY <3>1 DEF HistoryOK
    <3>4. faults' \in 0 .. MaxFaults
      BY <3>1, <1>0 DEF HistoryOK
    <3>5. HistoryOK'
      BY <3>1, <3>3, <3>4, <1>0 DEF HistoryOK
    <3> QED
      BY <2>1, <2>2, <3>2, <3>5, <1>a
  <2> QED
    BY <2>3, <2>4, <1>8 DEF Reopen
<1>9. CASE AppendLine
  <2>1. buffer \o line \in Seq(Line) /\ Ids(buffer \o line) = Ids(buffer) \cup Ids(line)
    BY IdsOfConcat DEF StreamOK, CallOK
  <2>2. File(0) \o buffer \o line \in Seq(Line)
    BY <1>0, IdsOfConcat DEF StreamOK, CallOK
  <2>3. DiskOK'
    BY <2>2, <1>9, <1>0, <1>a, SetFile DEF AppendLine, DiskOK, params
  <2>4. StreamOK'
    <3>1. CASE buffer' = <<>>
      BY <3>1, <1>9, EmptyBuffer DEF AppendLine, StreamOK
    <3>2. CASE buffer' = buffer \o line /\ Bytes(buffer \o line) <= BufferSize /\ stream
      <4>1. stream' = TRUE /\ call' = "idle" /\ Bytes(buffer') <= BufferSize /\ buffer' \in Seq(Line)
        BY <3>2, <2>1, <1>9 DEF AppendLine, At, StreamOK
      <4> QED
        BY <4>1 DEF StreamOK
    <3>3. CASE buffer' = buffer /\ ~stream
      BY <3>3, <3>1 DEF StreamOK
    <3> QED
      BY <3>1, <3>2, <3>3, <1>9 DEF AppendLine
  <2>5. HistoryOK'
    BY <2>1, <1>9, <1>0 DEF AppendLine, HistoryOK
  <2> QED
    BY <2>3, <2>4, <2>5, <1>9, <1>0, <1>a DEF AppendLine, At, CallOK, params
<1>10. CASE Flush
  <2>1. DiskOK' /\ buffer' = <<>>
    BY <1>10, <1>a, SpillEffect DEF Flush
  <2>2. StreamOK'
    BY <2>1, <1>10, EmptyBuffer DEF Flush, StreamOK
  <2>3. CallOK'
    BY <2>1, <1>10, <1>0, <1>a DEF Flush, params, history, CallOK
  <2>4. HistoryOK'
    BY <2>1, <1>10, <1>0 DEF Flush, Fault, history, HistoryOK
  <2> QED
    BY <2>1, <2>2, <2>3, <2>4, <1>a
<1>11. CASE Destroy
  <2>1. DiskOK' /\ buffer' = <<>>
    BY <1>11, <1>a, SpillEffect DEF Destroy
  <2>2. StreamOK'
    BY <2>1, <1>11, EmptyBuffer DEF Destroy, StreamOK
  <2>3. CallOK'
    BY <2>1, <1>11, <1>0, <1>a DEF Destroy, At, Fault, params, CallOK
  <2>4. HistoryOK'
    BY <2>1, <1>11, <1>0 DEF Destroy, Fault, history, HistoryOK
  <2> QED
    BY <2>1, <2>2, <2>3, <2>4, <1>a
<1>12. CASE Crash
  <2>1. DiskOK'
    BY <1>12, <1>a DEF Crash, DiskOK, params
  <2>2. StreamOK'
    BY <1>12, EmptyBuffer DEF Crash, StreamOK
  <2>3. CallOK'
    BY <1>12, <1>0, <1>a DEF Crash, Fault, params, CallOK
  <2>4. HistoryOK'
    <3>1. buffer' = <<>> /\ line' = <<>> /\ issued' = issued /\ renameFailed' = renameFailed
      BY <1>12 DEF Crash
    <3>2. dropped' \subseteq 1 .. issued
      BY <1>12 DEF Crash, HistoryOK
    <3>3. faults' \in 0 .. MaxFaults
      BY <1>12, <1>0 DEF Crash, Fault, HistoryOK
    <3> QED
      BY <3>1, <3>2, <3>3, <1>0 DEF HistoryOK
  <2> QED
    BY <2>1, <2>2, <2>3, <2>4, <1>a
<1>13. CASE RenameThrows
  <2>1. /\ UNCHANGED <<disk, stream, buffer, issued, renameFailed>> /\ call = "rename" /\ call' = "idle"
        /\ i' = 0 /\ line' = <<>> /\ dropped' = dropped \cup Ids(line)
        /\ faults' = faults + 1 /\ faults < MaxFaults
    BY <1>13 DEF RenameThrows, Throw, Fault, At
  <2>2. DiskOK'
    BY <2>1, <1>a DEF DiskOK, params
  <2>3. StreamOK'
    BY <2>1, EmptyBuffer DEF StreamOK
  <2>4. CallOK'
    BY <2>1, <1>0, <1>a DEF CallOK, params
  <2>5. HistoryOK'
    <3>1. dropped' \subseteq 1 .. issued
      BY <2>1 DEF HistoryOK
    <3>2. faults' \in 0 .. MaxFaults
      BY <2>1, <1>0 DEF HistoryOK
    <3> QED
      BY <2>1, <3>1, <3>2, <1>0 DEF HistoryOK
  <2> QED
    BY <2>2, <2>3, <2>4, <2>5, <1>a
<1> QED
  BY <1>1, <1>2, <1>3, <1>4, <1>5, <1>6, <1>7, <1>8, <1>9, <1>10, <1>11, <1>12, <1>13 DEF Next, Step
-----------------------------------------------------------------------------
(* The steps, by what they do to the files and what the stream holds back *)

\* A round of the loop moves a file, finds none or fails.
LEMMA RenameEffect ==
  ASSUME TypeInv, Rename
  PROVE  /\ i \in 1 .. m_max_files /\ call = "rename" /\ call' = "rename" /\ i' = i - 1
         /\ UNCHANGED <<params, stream, buffer, line, issued, dropped>>
         /\ \/ /\ disk[i - 1] # NoFile /\ disk'[i] = disk[i - 1] /\ disk'[i - 1] = NoFile
               /\ \A k \in 0 .. m_max_files :
                    /\ k = i => File(k)' = File(i - 1)
                    /\ k = i - 1 => File(k)' = <<>>
                    /\ k # i /\ k # i - 1 => disk'[k] = disk[k] /\ File(k)' = File(k)
               /\ UNCHANGED <<faults, renameFailed>>
            \/ /\ disk[i - 1] = NoFile
               /\ UNCHANGED <<disk, faults, renameFailed>>
            \/ /\ faults' = faults + 1 /\ renameFailed'
               /\ UNCHANGED disk
<1>1. /\ i \in 1 .. m_max_files /\ call = "rename" /\ call' = "rename" /\ i' = i - 1
      /\ UNCHANGED <<params, stream, buffer, line, issued, dropped>>
      /\ m_max_files \in Nat
  BY FileFacts DEF Rename, TypeInv, CallOK
<1>2. CASE disk[i - 1] # NoFile /\ disk' = [disk EXCEPT ![i] = disk[i - 1], ![i - 1] = NoFile]
  <2>1. disk'[i] = disk[i - 1] /\ disk'[i - 1] = NoFile
    BY <1>1, <1>2 DEF TypeInv, DiskOK
  <2>2. \A k \in 0 .. m_max_files : k # i /\ k # i - 1 => disk'[k] = disk[k]
    BY <1>1, <1>2 DEF TypeInv, DiskOK
  <2>3. \A k \in 0 .. m_max_files :
          /\ k = i => File(k)' = File(i - 1)
          /\ k = i - 1 => File(k)' = <<>>
    BY <2>1, <1>2 DEF File
  <2>4. \A k \in 0 .. m_max_files : k # i /\ k # i - 1 => File(k)' = File(k)
    BY <2>2 DEF File
  <2>5. UNCHANGED <<faults, renameFailed>> \/ (faults' = faults + 1 /\ renameFailed' /\ UNCHANGED disk)
    BY DEF Rename, Fault
  <2>6. CASE UNCHANGED <<faults, renameFailed>>
    <3>1. ASSUME NEW k \in 0 .. m_max_files
          PROVE  /\ k = i => File(k)' = File(i - 1)
                 /\ k = i - 1 => File(k)' = <<>>
                 /\ k # i /\ k # i - 1 => disk'[k] = disk[k] /\ File(k)' = File(k)
      BY <2>2, <2>3, <2>4
    <3> QED
      BY <1>1, <1>2, <2>1, <2>6, <3>1
  <2>7. CASE faults' = faults + 1 /\ renameFailed' /\ UNCHANGED disk
    BY <1>1, <2>7
  <2> QED
    BY <2>5, <2>6, <2>7
<1>3. CASE UNCHANGED disk
  <2>1. \/ disk[i - 1] # NoFile /\ disk' = [disk EXCEPT ![i] = disk[i - 1], ![i - 1] = NoFile]
        \/ disk[i - 1] = NoFile /\ UNCHANGED <<faults, renameFailed>>
        \/ faults' = faults + 1 /\ renameFailed'
    BY DEF Rename, Fault
  <2> QED
    BY <1>1, <1>2, <1>3, <2>1
<1> QED
  BY <1>1, <1>2, <1>3 DEF Rename

\* The record is held back, written after what was held back, or lost.
LEMMA AppendEffect ==
  ASSUME TypeInv, AppendLine
  PROVE  /\ call = "append" /\ call' = "idle" /\ line' = <<>>
         /\ UNCHANGED <<params, stream, i, issued, faults, renameFailed>>
         /\ \A k \in 1 .. m_max_files : disk'[k] = disk[k] /\ File(k)' = File(k)
         /\ \/ /\ stream /\ buffer' = buffer \o line /\ Bytes(buffer \o line) <= BufferSize
               /\ disk' = disk /\ File(0)' = File(0) /\ dropped' = dropped
            \/ /\ stream /\ buffer' = <<>> /\ dropped' = dropped
               /\ File(0)' = File(0) \o buffer \o line
               /\ disk'[0] # NoFile
            \/ /\ ~stream /\ buffer = <<>> /\ buffer' = <<>>
               /\ disk' = disk /\ File(0)' = File(0)
               /\ dropped' = dropped \cup Ids(line)
<1>1. /\ call = "append" /\ call' = "idle" /\ line' = <<>>
      /\ UNCHANGED <<params, stream, i, issued, faults, renameFailed>>
  BY DEF AppendLine, At
<1>2. /\ 0 \in 0 .. m_max_files
      /\ \A k \in 1 .. m_max_files : k \in 0 .. m_max_files /\ k # 0
  BY FileFacts DEF TypeInv
<1>3. CASE disk' = disk
  <2>1. \A k \in 0 .. m_max_files : disk'[k] = disk[k] /\ File(k)' = File(k)
    BY <1>3 DEF File
  <2>2. CASE stream /\ buffer' = buffer \o line /\ Bytes(buffer \o line) <= BufferSize /\ dropped' = dropped
    BY <1>1, <1>2, <1>3, <2>1, <2>2
  <2>3. CASE ~stream /\ buffer' = buffer /\ dropped' = dropped \cup Ids(line)
    BY <1>1, <1>2, <1>3, <2>1, <2>3 DEF TypeInv, StreamOK
  <2>4. CASE stream /\ disk' = [disk EXCEPT ![0] = File(0) \o buffer \o line] /\ buffer' = <<>> /\ dropped' = dropped
    <3>1. File(0) \o buffer \o line \in Seq(Line)
      BY FileFacts, IdsOfConcat DEF TypeInv, StreamOK, CallOK
    <3>2. disk'[0] = File(0) \o buffer \o line /\ disk'[0] # NoFile /\ File(0)' = File(0) \o buffer \o line
      BY <3>1, <2>4, <1>1, <1>2, SetFile DEF TypeInv
    <3> QED
      BY <3>2, <2>4, <1>1, <1>2, <2>1
  <2> QED
    BY <2>2, <2>3, <2>4 DEF AppendLine
<1>4. CASE stream /\ disk' = [disk EXCEPT ![0] = File(0) \o buffer \o line] /\ buffer' = <<>> /\ dropped' = dropped
  <2>1. File(0) \o buffer \o line \in Seq(Line)
    BY FileFacts, IdsOfConcat DEF TypeInv, StreamOK, CallOK
  <2>2. /\ disk'[0] # NoFile /\ File(0)' = File(0) \o buffer \o line
        /\ \A k \in 0 .. m_max_files : k # 0 => disk'[k] = disk[k] /\ File(k)' = File(k)
    BY <2>1, <1>4, <1>1, <1>2, SetFile DEF TypeInv
  <2> QED
    BY <2>2, <1>4, <1>1, <1>2
<1> QED
  BY <1>3, <1>4 DEF AppendLine
-----------------------------------------------------------------------------
(* The order *)

\* A step that moves no record keeps the order.
LEMMA OrderStays ==
  ASSUME TypeInv, TypeInv', OrderInv, UNCHANGED m_max_files,
         \A k \in 0 .. m_max_files : File(k)' = File(k),
         buffer' = buffer, line' = line \/ line' = <<>>, issued <= issued'
  PROVE  OrderInv'
<1>1. \A k \in 0 .. m_max_files : Kept(k)' = Kept(k)
  BY DEF Kept
<1>2. 1 .. issued \subseteq 1 .. issued'
  BY DEF TypeInv, HistoryOK
<1>3. Ids(line') = Ids(line) \/ Ids(line') = {}
  BY Nothing
<1> QED
  BY <1>1, <1>2, <1>3 DEF OrderInv, Before

\* What the stream holds back comes after the live file.
LEMMA OrderSpilled ==
  ASSUME TypeInv, TypeInv', OrderInv, Spill, UNCHANGED params, issued' = issued,
         line' = line
  PROVE  OrderInv'
<1>1. /\ buffer' = <<>> /\ File(0)' = File(0) \o buffer
      /\ \A k \in 1 .. m_max_files : File(k)' = File(k)
  BY SpillEffect DEF TypeInv
<1>2. File(0) \in Seq(Line) /\ buffer \in Seq(Line) /\ 0 \in 0 .. m_max_files /\ m_max_files \in Nat
  BY FileFacts DEF TypeInv, StreamOK
<1>3. Sorted(File(0)) /\ Sorted(buffer) /\ Before(Kept(0), Ids(buffer))
  BY <1>2 DEF OrderInv
<1>4. Sorted(File(0)') /\ Kept(0)' = Kept(0) \cup Ids(buffer)
  BY <1>1, <1>2, <1>3, SortedConcat, IdsOfConcat DEF Kept
<1>5. \A k \in 1 .. m_max_files : Kept(k)' = Kept(k) /\ Sorted(File(k)')
  BY <1>1, <1>2 DEF Kept, OrderInv
<1>6. Ids(buffer') = {} /\ Sorted(buffer')
  BY <1>1, Nothing
<1>7. m_max_files' = m_max_files /\ \A k \in 0 .. m_max_files : k = 0 \/ k \in 1 .. m_max_files
  BY <1>2 DEF params
<1>8. \A k \in 0 .. m_max_files : Sorted(File(k)') /\ Kept(k)' \subseteq 1 .. issued
  BY <1>4, <1>5, <1>7, <1>2 DEF OrderInv, TypeInv, HistoryOK
<1>9. ASSUME NEW j \in 0 .. m_max_files, NEW k \in 0 .. m_max_files, j < k
      PROVE  Before(Kept(k)', Kept(j)')
  <2>1. k \in 1 .. m_max_files /\ Kept(k)' = Kept(k)
    BY <1>9, <1>5, <1>2
  <2>2. Before(Kept(k), Kept(j)) /\ Before(Kept(k), Ids(buffer))
    BY <1>9 DEF OrderInv
  <2> QED
    BY <2>1, <2>2, <1>4, <1>5, <1>7 DEF Before
<1>10. \A k \in 0 .. m_max_files : Before(Kept(k)', Ids(line))
  BY <1>4, <1>5, <1>7 DEF OrderInv, Before
<1> QED
  BY <1>6, <1>7, <1>8, <1>9, <1>10 DEF OrderInv, Before

\* A file that is renamed keeps its place among the others.
LEMMA OrderRenamed ==
  ASSUME TypeInv, TypeInv', OrderInv, Rename
  PROVE  OrderInv'
<1>1. /\ i \in 1 .. m_max_files /\ m_max_files' = m_max_files /\ m_max_files \in Nat
      /\ i - 1 \in 0 .. m_max_files /\ i \in 0 .. m_max_files
      /\ buffer' = buffer /\ line' = line /\ issued' = issued
  BY RenameEffect, FileFacts DEF params, TypeInv
<1>2. CASE UNCHANGED disk
  <2>1. \A k \in 0 .. m_max_files : File(k)' = File(k)
    BY <1>2 DEF File
  <2>2. issued <= issued'
    BY <1>1 DEF TypeInv, HistoryOK
  <2> QED
    BY <2>1, <2>2, <1>1, OrderStays
<1>3. CASE \A k \in 0 .. m_max_files :
             /\ k = i => File(k)' = File(i - 1)
             /\ k = i - 1 => File(k)' = <<>>
             /\ k # i /\ k # i - 1 => File(k)' = File(k)
  <2>1. \A k \in 0 .. m_max_files :
          /\ k = i => Kept(k)' = Kept(i - 1)
          /\ k = i - 1 => Kept(k)' = {}
          /\ k # i /\ k # i - 1 => Kept(k)' = Kept(k)
    BY <1>3, Nothing DEF Kept
  <2>2. \A k \in 0 .. m_max_files : Sorted(File(k)') /\ Kept(k)' \subseteq 1 .. issued
    BY <1>1, <1>3, <2>1, Nothing DEF OrderInv
  <2>3. ASSUME NEW j \in 0 .. m_max_files, NEW k \in 0 .. m_max_files, j < k
        PROVE  Before(Kept(k)', Kept(j)')
    <3>1. CASE k = i - 1 \/ j = i - 1
      BY <3>1, <2>1 DEF Before
    <3>2. CASE k = i /\ j # i - 1
      <4>1. j < i - 1 /\ Kept(k)' = Kept(i - 1) /\ Kept(j)' = Kept(j)
        BY <3>2, <2>1, <2>3, <1>1
      <4> QED
        BY <4>1, <1>1 DEF OrderInv
    <3>3. CASE j = i /\ k # i - 1
      <4>1. i - 1 < k /\ Kept(j)' = Kept(i - 1) /\ Kept(k)' = Kept(k)
        BY <3>3, <2>1, <2>3, <1>1
      <4> QED
        BY <4>1, <1>1 DEF OrderInv
    <3>4. CASE j \notin {i, i - 1} /\ k \notin {i, i - 1}
      BY <3>4, <2>1, <2>3 DEF OrderInv
    <3> QED
      BY <3>1, <3>2, <3>3, <3>4
  <2>4. \A k \in 0 .. m_max_files : Before(Kept(k)', Ids(buffer)) /\ Before(Kept(k)', Ids(line))
    BY <2>1, <1>1 DEF OrderInv, Before
  <2> QED
    BY <2>2, <2>3, <2>4, <1>1 DEF OrderInv
<1> QED
  BY <1>2, <1>3, RenameEffect

\* A record that is appended comes after everything else.
LEMMA OrderAppended ==
  ASSUME TypeInv, TypeInv', OrderInv, AppendLine
  PROVE  OrderInv'
<1>1. /\ m_max_files' = m_max_files /\ m_max_files \in Nat /\ issued' = issued /\ line' = <<>>
      /\ 0 \in 0 .. m_max_files
      /\ \A k \in 1 .. m_max_files : File(k)' = File(k)
      /\ \A k \in 0 .. m_max_files : k = 0 \/ k \in 1 .. m_max_files
      /\ File(0) \in Seq(Line) /\ buffer \in Seq(Line) /\ line \in Seq(Line)
      /\ Ids(<<>>) = {}
  BY AppendEffect, FileFacts, Nothing DEF params, TypeInv, StreamOK, CallOK
<1>2. Sorted(line)
  BY <1>1 DEF Sorted, TypeInv, CallOK
<1>3. /\ Sorted(File(0)) /\ Sorted(buffer)
      /\ Before(Kept(0), Ids(buffer)) /\ Before(Kept(0), Ids(line)) /\ Before(Ids(buffer), Ids(line))
  BY <1>1 DEF OrderInv
<1>4. Sorted(buffer \o line) /\ Ids(buffer \o line) = Ids(buffer) \cup Ids(line)
  BY <1>1, <1>2, <1>3, SortedConcat, IdsOfConcat
<1>5. \A k \in 1 .. m_max_files : Kept(k)' = Kept(k) /\ Sorted(File(k)')
  BY <1>1 DEF Kept, OrderInv
<1>6. \A k \in 0 .. m_max_files :
        /\ Kept(k) \subseteq 1 .. issued
        /\ Before(Kept(k), Ids(buffer) \cup Ids(line))
  BY DEF OrderInv, Before
<1>7. CASE File(0)' = File(0) /\ buffer' = buffer \o line
  <2>1. \A k \in 0 .. m_max_files : Kept(k)' = Kept(k) /\ Sorted(File(k)')
    BY <1>7, <1>1, <1>3, <1>5 DEF Kept
  <2> QED
    BY <2>1, <1>1, <1>4, <1>6, <1>7 DEF OrderInv, Before
<1>8. CASE File(0)' = File(0) \o buffer \o line /\ buffer' = <<>>
  <2>1. /\ File(0) \o buffer \in Seq(Line) /\ Sorted(File(0) \o buffer)
        /\ Ids(File(0) \o buffer) = Kept(0) \cup Ids(buffer)
    BY <1>1, <1>3, SortedConcat, IdsOfConcat DEF Kept
  <2>2. Before(Ids(File(0) \o buffer), Ids(line))
    BY <2>1, <1>3 DEF Before
  <2>3. Sorted(File(0)') /\ Kept(0)' = Kept(0) \cup Ids(buffer) \cup Ids(line)
    BY <2>1, <2>2, <1>1, <1>2, <1>8, SortedConcat, IdsOfConcat DEF Kept
  <2>4. ASSUME NEW j \in 0 .. m_max_files, NEW k \in 0 .. m_max_files, j < k
        PROVE  Before(Kept(k)', Kept(j)')
    <3>1. k \in 1 .. m_max_files /\ Kept(k)' = Kept(k) /\ Before(Kept(k), Kept(j))
      BY <2>4, <1>1, <1>5 DEF OrderInv
    <3> QED
      BY <3>1, <2>3, <1>1, <1>5, <1>6 DEF Before
  <2>5. \A k \in 0 .. m_max_files : Sorted(File(k)') /\ Kept(k)' \subseteq 1 .. issued
    BY <2>3, <1>1, <1>5, <1>6 DEF TypeInv, HistoryOK
  <2> QED
    BY <2>4, <2>5, <1>1, <1>8, Nothing DEF OrderInv, Before
<1>9. CASE File(0)' = File(0) /\ buffer' = <<>> /\ buffer = <<>>
  <2>1. \A k \in 0 .. m_max_files : File(k)' = File(k)
    BY <1>1, <1>9
  <2>2. issued <= issued'
    BY <1>1 DEF TypeInv, HistoryOK
  <2> QED
    BY <2>1, <2>2, <1>1, <1>9, OrderStays
<1> QED
  BY <1>7, <1>8, <1>9, AppendEffect

\* A record that is being written comes after everything else.
LEMMA OrderWritten ==
  ASSUME TypeInv, TypeInv', OrderInv, NEW size \in Sizes, Write(size)
  PROVE  OrderInv'
<1>1. /\ m_max_files' = m_max_files /\ issued' = issued + 1 /\ buffer' = buffer /\ disk' = disk
      /\ issued \in Nat
  BY DEF Write, params, TypeInv, HistoryOK
<1>2. \A k \in 0 .. m_max_files : File(k)' = File(k)
  BY <1>1 DEF File
<1>3. \A k \in 0 .. m_max_files : Kept(k)' = Kept(k)
  BY <1>2 DEF Kept
<1>4. Ids(line') \subseteq {issued + 1}
  BY <1>1 DEF TypeInv, HistoryOK
<1>5. \A l \in Ids(line') : l = issued + 1
  BY <1>4
<1>6. \A k \in 0 .. m_max_files :
        Kept(k) \subseteq 1 .. issued /\ Before(Kept(k), Ids(line'))
  BY <1>5, <1>1 DEF OrderInv, Before
<1>7. Before(Ids(buffer), Ids(line'))
  BY <1>5, <1>1 DEF TypeInv, HistoryOK, Before
<1> QED
  BY <1>1, <1>2, <1>3, <1>6, <1>7 DEF OrderInv

LEMMA OrderInit == Init => OrderInv
<1> SUFFICES ASSUME Init PROVE OrderInv
  OBVIOUS
<1>1. \A k \in 0 .. m_max_files : File(k) = <<>>
  BY DEF Init, File
<1>2. \A k \in 0 .. m_max_files : Kept(k) = {} /\ Sorted(File(k))
  BY <1>1, Nothing DEF Kept
<1>3. buffer = <<>> /\ line = <<>> /\ Ids(<<>>) = {} /\ Sorted(<<>>)
  BY Nothing DEF Init
<1> QED
  BY <1>2, <1>3 DEF OrderInv, Before

\* Every step keeps the order.
LEMMA OrderStep ==
  ASSUME TypeInv, TypeInv', OrderInv, [Next]_vars
  PROVE  OrderInv'
<1>0. UNCHANGED params /\ m_max_files' = m_max_files
  BY ParamsStay DEF params
<1>1. CASE UNCHANGED vars
  <2>1. UNCHANGED <<disk, buffer, line, issued>>
    BY <1>1 DEF vars, history
  <2> QED
    BY <2>1, <1>0, OrderStays DEF File, TypeInv, HistoryOK
<1>2. CASE Construct
  <2>1. UNCHANGED <<buffer, line, issued>>
    BY <1>2 DEF Construct
  <2>2. \A k \in 0 .. m_max_files : File(k)' = File(k)
    <3>1. CASE Open
      <4>1. /\ \A k \in 0 .. m_max_files : k # 0 => File(k)' = File(k)
            /\ File(0)' = File(0)
        BY <3>1, <1>0, FileFacts, SetFile DEF Open, TypeInv
      <4> QED
        BY <4>1
    <3> QED
      BY <3>1, <1>2 DEF Construct, File
  <2> QED
    BY <2>1, <2>2, <1>0, OrderStays DEF TypeInv, HistoryOK
<1>3. ASSUME NEW size \in Sizes, Write(size) PROVE OrderInv'
  BY <1>3, OrderWritten
<1>4. ASSUME NEW size \in Sizes, WriteThrows(size) PROVE OrderInv'
  <2>1. UNCHANGED <<disk, buffer, line>> /\ issued <= issued'
    BY <1>4 DEF WriteThrows, TypeInv, HistoryOK
  <2> QED
    BY <2>1, <1>0, OrderStays DEF File
<1>5. CASE Close \/ Flush \/ Destroy
  <2>1. Spill /\ UNCHANGED <<line, issued>>
    BY <1>5 DEF Close, Flush, Destroy, history
  <2> QED
    BY <2>1, <1>0, OrderSpilled
<1>6. CASE Rename
  BY <1>6, OrderRenamed
<1>7. CASE RenameDone
  <2>1. UNCHANGED <<disk, buffer, line, issued>>
    BY <1>7 DEF RenameDone, history
  <2> QED
    BY <2>1, <1>0, OrderStays DEF File, TypeInv, HistoryOK
<1>8. CASE Reopen
  <2>1. UNCHANGED <<buffer, issued>> /\ (line' = line \/ line' = <<>>)
    BY <1>8 DEF Reopen, Throw
  <2>2. \A k \in 0 .. m_max_files : File(k)' = File(k)
    <3>1. CASE Open
      <4>1. /\ \A k \in 0 .. m_max_files : k # 0 => File(k)' = File(k)
            /\ File(0)' = File(0)
        BY <3>1, <1>0, FileFacts, SetFile DEF Open, TypeInv
      <4> QED
        BY <4>1
    <3> QED
      BY <3>1, <1>8 DEF Reopen, File
  <2> QED
    BY <2>1, <2>2, <1>0, OrderStays DEF TypeInv, HistoryOK
<1>9. CASE AppendLine
  BY <1>9, OrderAppended
<1>10. CASE Crash
  <2>1. disk' = disk /\ issued' = issued /\ buffer' = <<>> /\ line' = <<>>
    BY <1>10 DEF Crash
  <2>2. \A k \in 0 .. m_max_files : File(k)' = File(k) /\ Kept(k)' = Kept(k)
    BY <2>1 DEF File, Kept
  <2>3. Ids(buffer') = {} /\ Ids(line') = {} /\ Sorted(buffer')
    BY <2>1, Nothing
  <2> QED
    BY <2>1, <2>2, <2>3, <1>0 DEF OrderInv, Before
<1>11. CASE RenameThrows
  <2>1. UNCHANGED <<disk, buffer, issued>> /\ line' = <<>>
    BY <1>11 DEF RenameThrows, Throw
  <2> QED
    BY <2>1, <1>0, OrderStays DEF File, TypeInv, HistoryOK
<1> QED
  BY <1>1, <1>2, <1>3, <1>4, <1>5, <1>6, <1>7, <1>8, <1>9, <1>10, <1>11 DEF Next, Step

\* Read from the oldest backup to the live one, the files are in order.
LEMMA RetainedInOrder ==
  ASSUME TypeInv, OrderInv
  PROVE  /\ Retained \in Seq(Line) /\ Sorted(Retained)
         /\ Ids(Retained) = AllKept
<1> DEFINE files == [k \in 1 .. m_max_files + 1 |-> File(m_max_files + 1 - k)]
<1>1. /\ m_max_files \in Nat /\ Len(files) = m_max_files + 1
      /\ \A k \in 1 .. m_max_files + 1 :
           m_max_files + 1 - k \in 0 .. m_max_files /\ files[k] = File(m_max_files + 1 - k)
      /\ \A k \in 0 .. m_max_files :
           m_max_files + 1 - k \in 1 .. m_max_files + 1 /\ files[m_max_files + 1 - k] = File(k)
  BY FileFacts DEF TypeInv
<1> HIDE DEF files
<1>2. \A k \in 1 .. Len(files) : files[k] \in Seq(Line) /\ Sorted(files[k])
  BY <1>1, FileFacts DEF OrderInv, TypeInv
<1>3. ASSUME NEW a \in 1 .. Len(files), NEW b \in 1 .. Len(files), a < b
      PROVE  Before(Ids(files[a]), Ids(files[b]))
  <2>1. m_max_files + 1 - b < m_max_files + 1 - a
    BY <1>1, <1>3
  <2> QED
    BY <2>1, <1>1 DEF OrderInv, Kept
<1>4. /\ FlattenSeq(files) \in Seq(Line) /\ Sorted(FlattenSeq(files))
      /\ Ids(FlattenSeq(files)) = UNION {Ids(files[k]) : k \in 1 .. Len(files)}
  <2>1. Len(files) \in Nat /\ Len(files) > 0
    BY <1>1
  <2> QED
    BY <2>1, <1>2, <1>3, FlattenSorted
<1>5. UNION {Ids(files[k]) : k \in 1 .. Len(files)} = UNION {Kept(k) : k \in 0 .. m_max_files}
  BY <1>1 DEF Kept
<1>6. Before(Ids(FlattenSeq(files)), Ids(buffer))
  BY <1>4, <1>5 DEF OrderInv, Before
<1>7. buffer \in Seq(Line) /\ Sorted(buffer)
  BY DEF TypeInv, StreamOK, OrderInv
<1>8. Retained = FlattenSeq(files) \o buffer
  BY DEF Retained, files
<1> QED
  BY <1>4, <1>5, <1>6, <1>7, <1>8, SortedConcat, IdsOfConcat DEF AllKept
-----------------------------------------------------------------------------
(* What is given up *)

\* Files and a buffer that hold the same records hold the same records together.
LEMMA KeptSame ==
  ASSUME UNCHANGED m_max_files, buffer' = buffer,
         \A k \in 0 .. m_max_files : File(k)' = File(k)
  PROVE  AllKept' = AllKept
<1>1. \A k \in 0 .. m_max_files : Kept(k)' = Kept(k)
  BY DEF Kept
<1> QED
  BY <1>1 DEF AllKept

\* Emptying the buffer into the file moves its records and loses none.
LEMMA KeptSpilled ==
  ASSUME TypeInv, Spill, UNCHANGED params
  PROVE  AllKept' = AllKept
<1>1. /\ buffer' = <<>> /\ File(0)' = File(0) \o buffer
      /\ \A k \in 1 .. m_max_files : File(k)' = File(k)
  BY SpillEffect DEF TypeInv
<1>2. /\ File(0) \in Seq(Line) /\ buffer \in Seq(Line) /\ 0 \in 0 .. m_max_files
      /\ m_max_files' = m_max_files
      /\ \A k \in 0 .. m_max_files : k = 0 \/ k \in 1 .. m_max_files
      /\ \A k \in 1 .. m_max_files : k \in 0 .. m_max_files
  BY FileFacts DEF TypeInv, StreamOK, params
<1>3. Kept(0)' = Kept(0) \cup Ids(buffer) /\ Ids(buffer') = {}
  BY <1>1, <1>2, IdsOfConcat, Nothing DEF Kept
<1>4. \A k \in 1 .. m_max_files : Kept(k)' = Kept(k)
  BY <1>1 DEF Kept
<1>5. AllKept' \subseteq AllKept
  BY <1>2, <1>3, <1>4 DEF AllKept
<1>6. AllKept \subseteq AllKept'
  BY <1>2, <1>3, <1>4 DEF AllKept
<1> QED
  BY <1>5, <1>6

\* The record that is appended is kept or reported.
LEMMA KeptAppended ==
  ASSUME TypeInv, AppendLine
  PROVE  /\ AllKept' \subseteq AllKept \cup Ids(line)
         /\ AllKept \cup Ids(line) \cup dropped \subseteq AllKept' \cup dropped'
<1>1. /\ File(0) \in Seq(Line) /\ buffer \in Seq(Line) /\ line \in Seq(Line) /\ 0 \in 0 .. m_max_files
      /\ m_max_files' = m_max_files
      /\ \A k \in 0 .. m_max_files : k = 0 \/ k \in 1 .. m_max_files
      /\ \A k \in 1 .. m_max_files : k \in 0 .. m_max_files
  BY AppendEffect, FileFacts DEF TypeInv, StreamOK, CallOK, params
<1>2. \A k \in 1 .. m_max_files : Kept(k)' = Kept(k)
  BY AppendEffect DEF Kept
<1>3. CASE File(0)' = File(0) /\ buffer' = buffer \o line /\ dropped' = dropped
  <2>1. Kept(0)' = Kept(0) /\ Ids(buffer') = Ids(buffer) \cup Ids(line)
    BY <1>1, <1>3, IdsOfConcat DEF Kept
  <2>2. AllKept' \subseteq AllKept \cup Ids(line)
    BY <1>1, <1>2, <2>1 DEF AllKept
  <2>3. AllKept \cup Ids(line) \subseteq AllKept'
    BY <1>1, <1>2, <2>1 DEF AllKept
  <2> QED
    BY <2>2, <2>3, <1>3
<1>4. CASE File(0)' = File(0) \o buffer \o line /\ buffer' = <<>> /\ dropped' = dropped
  <2>1. Kept(0)' = Kept(0) \cup Ids(buffer) \cup Ids(line) /\ Ids(buffer') = {}
    <3>1. /\ File(0) \o buffer \in Seq(Line)
          /\ Ids(File(0) \o buffer) = Kept(0) \cup Ids(buffer)
      BY <1>1, IdsOfConcat DEF Kept
    <3>2. Ids((File(0) \o buffer) \o line) = Kept(0) \cup Ids(buffer) \cup Ids(line)
      BY <1>1, <3>1, IdsOfConcat
    <3>3. Ids(File(0)') = Kept(0) \cup Ids(buffer) \cup Ids(line)
      BY <3>2, <1>4
    <3> QED
      BY <3>3, <1>4, Nothing DEF Kept
  <2>2. AllKept' \subseteq AllKept \cup Ids(line)
    BY <1>1, <1>2, <2>1 DEF AllKept
  <2>3. AllKept \cup Ids(line) \subseteq AllKept'
    BY <1>1, <1>2, <2>1 DEF AllKept
  <2> QED
    BY <2>2, <2>3, <1>4
<1>5. CASE File(0)' = File(0) /\ buffer' = buffer /\ dropped' = dropped \cup Ids(line)
  <2>1. AllKept' = AllKept
    BY <1>1, <1>5, KeptSame, AppendEffect
  <2> QED
    BY <2>1, <1>5
<1> QED
  BY <1>3, <1>4, <1>5, AppendEffect

\* Nothing is newly gone if all there was is kept or reported.
LEMMA NothingNewlyGone ==
  ASSUME AllKept \cup Ids(line) \cup dropped \subseteq AllKept' \cup Ids(line') \cup dropped',
         \A n \in 1 .. issued' : n \in 1 .. issued \/ n \in Ids(line') \cup dropped'
  PROVE  Gone' \ dropped' \subseteq Gone \ dropped
  BY DEF Gone

\* A step that does not rename keeps or reports every record it had.
LEMMA OthersGiveUpNothing ==
  ASSUME TypeInv, TypeInv', [Next]_vars, ~Rename
  PROVE  /\ AllKept' \subseteq AllKept \cup Ids(line)
         /\ Gone' \ dropped' \subseteq Gone \ dropped
<1> DEFINE Goal == /\ AllKept' \subseteq AllKept \cup Ids(line)
                   /\ Gone' \ dropped' \subseteq Gone \ dropped
<1>0. UNCHANGED params /\ m_max_files' = m_max_files
  BY ParamsStay DEF params
<1>b. AllKept' = AllKept /\ line' = line /\ dropped' = dropped /\ issued' = issued => Goal
  BY NothingNewlyGone
<1> SUFFICES Goal
  OBVIOUS
<1> HIDE DEF Goal
<1>1. CASE UNCHANGED vars
  <2>1. UNCHANGED <<disk, buffer, line, issued, dropped>>
    BY <1>1 DEF vars, history
  <2> QED
    BY <2>1, <1>0, <1>b, KeptSame DEF File
<1>2. CASE Construct
  <2>1. UNCHANGED <<buffer, line, issued, dropped>>
    BY <1>2 DEF Construct
  <2>2. \A k \in 0 .. m_max_files : File(k)' = File(k)
    <3>1. CASE Open
      BY <3>1, <1>0, FileFacts, SetFile DEF Open, TypeInv
    <3> QED
      BY <3>1, <1>2 DEF Construct, File
  <2> QED
    BY <2>1, <2>2, <1>0, <1>b, KeptSame
<1>3. ASSUME NEW size \in Sizes, Write(size) PROVE Goal
  <2>1. UNCHANGED <<disk, buffer, dropped>> /\ issued' = issued + 1 /\ line = <<>> /\ line' # <<>>
    BY <1>3 DEF Write, At, TypeInv, CallOK
  <2>2. Ids(line) = {} /\ Ids(line') = {issued + 1}
    <3>1. line' = <<[id |-> issued + 1, size |-> size]>>
      BY <1>3 DEF Write
    <3> QED
      BY <2>1, <3>1, Nothing DEF Ids, ToSet
  <2>3. AllKept' = AllKept
    BY <2>1, <1>0, KeptSame DEF File
  <2>4. \A n \in 1 .. issued' : n \in 1 .. issued \/ n = issued + 1
    BY <2>1 DEF TypeInv, HistoryOK
  <2>5. AllKept \cup Ids(line) \cup dropped \subseteq AllKept' \cup Ids(line') \cup dropped'
    BY <2>1, <2>2, <2>3
  <2>6. \A n \in 1 .. issued' : n \in 1 .. issued \/ n \in Ids(line') \cup dropped'
    BY <2>2, <2>4
  <2> QED
    BY <2>3, <2>5, <2>6, NothingNewlyGone DEF Goal
<1>4. ASSUME NEW size \in Sizes, WriteThrows(size) PROVE Goal
  <2>1. UNCHANGED <<disk, buffer, line>> /\ issued' = issued + 1 /\ dropped' = dropped \cup {issued + 1}
    BY <1>4 DEF WriteThrows
  <2>2. AllKept' = AllKept
    BY <2>1, <1>0, KeptSame DEF File
  <2>3. \A n \in 1 .. issued' : n \in 1 .. issued \/ n = issued + 1
    BY <2>1 DEF TypeInv, HistoryOK
  <2>4. AllKept \cup Ids(line) \cup dropped \subseteq AllKept' \cup Ids(line') \cup dropped'
    BY <2>1, <2>2
  <2>5. \A n \in 1 .. issued' : n \in 1 .. issued \/ n \in Ids(line') \cup dropped'
    BY <2>1, <2>3
  <2> QED
    BY <2>2, <2>4, <2>5, NothingNewlyGone DEF Goal
<1>5. CASE Close \/ Flush \/ Destroy
  <2>1. Spill /\ UNCHANGED <<line, issued, dropped>>
    BY <1>5 DEF Close, Flush, Destroy, history
  <2> QED
    BY <2>1, <1>0, <1>b, KeptSpilled
<1>6. CASE RenameDone
  <2>1. UNCHANGED <<disk, buffer, line, issued, dropped>>
    BY <1>6 DEF RenameDone, history
  <2> QED
    BY <2>1, <1>0, <1>b, KeptSame DEF File
<1>7. CASE Reopen
  <2>1. /\ UNCHANGED <<buffer, issued>>
        /\ UNCHANGED <<line, dropped>> \/ (line' = <<>> /\ dropped' = dropped \cup Ids(line))
    BY <1>7 DEF Reopen, Throw
  <2>2. \A k \in 0 .. m_max_files : File(k)' = File(k)
    <3>1. CASE Open
      BY <3>1, <1>0, FileFacts, SetFile DEF Open, TypeInv
    <3> QED
      BY <3>1, <1>7 DEF Reopen, File
  <2>3. AllKept' = AllKept
    BY <2>1, <2>2, <1>0, KeptSame
  <2>4. CASE line' = <<>> /\ dropped' = dropped \cup Ids(line)
    <3>1. AllKept \cup Ids(line) \cup dropped \subseteq AllKept' \cup Ids(line') \cup dropped'
      BY <2>3, <2>4
    <3> QED
      BY <3>1, <2>1, <2>3, NothingNewlyGone DEF Goal
  <2> QED
    BY <2>1, <2>3, <2>4, <1>b
<1>8. CASE AppendLine
  <2>1. issued' = issued
    BY <1>8, AppendEffect
  <2>2. /\ AllKept' \subseteq AllKept \cup Ids(line)
        /\ AllKept \cup Ids(line) \cup dropped \subseteq AllKept' \cup dropped'
    BY <1>8, KeptAppended
  <2>3. AllKept \cup Ids(line) \cup dropped \subseteq AllKept' \cup Ids(line') \cup dropped'
    BY <2>2
  <2> QED
    BY <2>1, <2>2, <2>3, NothingNewlyGone DEF Goal
<1>9. CASE Crash
  <2>1. /\ disk' = disk /\ issued' = issued /\ buffer' = <<>> /\ line' = <<>>
        /\ dropped' = dropped \cup Ids(buffer) \cup Ids(line)
    BY <1>9 DEF Crash
  <2>2. \A k \in 0 .. m_max_files : Kept(k)' = Kept(k)
    BY <2>1 DEF File, Kept
  <2>3. Ids(buffer') = {}
    BY <2>1, Nothing
  <2>4. AllKept' \subseteq AllKept /\ AllKept \subseteq AllKept' \cup Ids(buffer)
    BY <2>2, <2>3, <1>0 DEF AllKept
  <2>5. AllKept \cup Ids(line) \cup dropped \subseteq AllKept' \cup Ids(line') \cup dropped'
    BY <2>1, <2>4
  <2> QED
    BY <2>1, <2>4, <2>5, NothingNewlyGone DEF Goal
<1>10. CASE RenameThrows
  <2>1. UNCHANGED <<disk, buffer, issued>> /\ line' = <<>> /\ dropped' = dropped \cup Ids(line)
    BY <1>10 DEF RenameThrows, Throw
  <2>2. AllKept' = AllKept
    BY <2>1, <1>0, KeptSame DEF File
  <2>3. AllKept \cup Ids(line) \cup dropped \subseteq AllKept' \cup Ids(line') \cup dropped'
    BY <2>1, <2>2
  <2> QED
    BY <2>1, <2>2, <2>3, NothingNewlyGone DEF Goal
<1> QED
  BY <1>1, <1>2, <1>3, <1>4, <1>5, <1>6, <1>7, <1>8, <1>9, <1>10 DEF Next, Step, Goal

\* A file that is renamed gives up what the place it goes to has held.
LEMMA RenameGivesUp ==
  ASSUME TypeInv, Rename
  PROVE  /\ AllKept' \subseteq AllKept
         /\ AllKept \subseteq AllKept' \cup Kept(i)
         /\ disk[i] = NoFile \/ disk' = disk => AllKept' = AllKept
         /\ i = m_max_files => AllKept' \subseteq AllKept \/ disk' = disk
<1>1. /\ m_max_files' = m_max_files /\ m_max_files \in Nat /\ buffer' = buffer
      /\ i \in 0 .. m_max_files /\ i - 1 \in 0 .. m_max_files /\ i # i - 1
  BY RenameEffect, FileFacts DEF params, TypeInv
<1>2. CASE disk' = disk
  <2>1. AllKept' = AllKept
    BY <1>1, <1>2, KeptSame DEF File
  <2> QED
    BY <2>1, <1>2
<1>3. CASE \A k \in 0 .. m_max_files :
             /\ k = i => File(k)' = File(i - 1)
             /\ k = i - 1 => File(k)' = <<>>
             /\ k # i /\ k # i - 1 => disk'[k] = disk[k] /\ File(k)' = File(k)
  <2>1. \A k \in 0 .. m_max_files :
          /\ k = i => Kept(k)' = Kept(i - 1)
          /\ k = i - 1 => Kept(k)' = {}
          /\ k # i /\ k # i - 1 => Kept(k)' = Kept(k)
    BY <1>3, Nothing DEF Kept
  <2>2. AllKept' \subseteq AllKept
    BY <2>1, <1>1 DEF AllKept
  <2>3. AllKept \subseteq AllKept' \cup Kept(i)
    BY <2>1, <1>1 DEF AllKept
  <2>4. disk[i] = NoFile => Kept(i) = {}
    BY Nothing DEF Kept, File
  <2>5. disk' = disk => AllKept' = AllKept
    BY <1>1, KeptSame DEF File
  <2> QED
    BY <2>2, <2>3, <2>4, <2>5
<1> QED
  BY <1>2, <1>3, RenameEffect

\* What is newly given up by a rename is older than what is kept.
LEMMA GoneRenamed ==
  ASSUME TypeInv, TypeInv', OrderInv, GoneInv, Rename, ~renameFailed'
  PROVE  /\ Before(Gone' \ dropped', AllKept')
         /\ i' < m_max_files' => disk'[i'] = NoFile
<1>1. /\ m_max_files' = m_max_files /\ m_max_files \in Nat /\ call = "rename" /\ i' = i - 1
      /\ i \in 0 .. m_max_files /\ i - 1 \in 0 .. m_max_files /\ i # i - 1
      /\ line' = line /\ buffer' = buffer /\ issued' = issued /\ dropped' = dropped
  BY RenameEffect, FileFacts DEF params, TypeInv
<1>2. ~renameFailed /\ disk'[i - 1] = NoFile
  BY RenameEffect
<1>3. Before(Gone \ dropped, AllKept) /\ (i < m_max_files => disk[i] = NoFile)
  BY <1>1, <1>2 DEF GoneInv
<1>4. CASE AllKept' = AllKept
  BY <1>1, <1>2, <1>3, <1>4 DEF Gone
<1>5. CASE AllKept' # AllKept
  <2>1. i = m_max_files /\ disk' # disk /\ disk[i] # NoFile
    BY <1>3, <1>5, <1>1, RenameGivesUp
  <2>2. \A k \in 0 .. m_max_files :
          /\ k = i => Kept(k)' = Kept(i - 1)
          /\ k = i - 1 => Kept(k)' = {}
          /\ k # i /\ k # i - 1 => Kept(k)' = Kept(k)
    BY <2>1, RenameEffect, Nothing DEF Kept
  <2>3. ASSUME NEW kept \in AllKept'
        PROVE  kept \in Ids(buffer) \/ \E k \in 0 .. m_max_files : k < i /\ kept \in Kept(k)
    <3>1. CASE \E k \in 0 .. m_max_files : kept \in Kept(k)'
      <4>1. PICK k \in 0 .. m_max_files : kept \in Kept(k)'
        BY <3>1
      <4>2. k = i => kept \in Kept(i - 1)
        BY <4>1, <2>2
      <4>3. k # i => k < i /\ kept \in Kept(k)
        BY <4>1, <2>1, <2>2, <1>1
      <4> QED
        BY <4>2, <4>3, <1>1
    <3> QED
      BY <3>1, <2>3, <1>1 DEF AllKept
  <2>4. Before(Kept(i), AllKept')
    BY <2>3, <1>1 DEF OrderInv, Before
  <2>5. Gone' \ dropped' \subseteq (Gone \ dropped) \cup Kept(i)
    BY <1>1, RenameGivesUp DEF Gone
  <2>6. AllKept' \subseteq AllKept
    BY RenameGivesUp
  <2>7. Before(Gone' \ dropped', AllKept')
    BY <2>4, <2>5, <2>6, <1>3 DEF Before
  <2> QED
    BY <2>7, <1>1, <1>2
<1> QED
  BY <1>4, <1>5

LEMMA GoneInit == Init => GoneInv
<1> SUFFICES ASSUME Init PROVE GoneInv
  OBVIOUS
<1>1. Gone = {} /\ call = "absent"
  BY DEF Init, Gone
<1> QED
  BY <1>1 DEF GoneInv, Before

\* Every step keeps what is given up older than what is kept.
LEMMA GoneStep ==
  ASSUME TypeInv, TypeInv', OrderInv, GoneInv, [Next]_vars
  PROVE  GoneInv'
<1> SUFFICES ASSUME ~renameFailed'
             PROVE  /\ Before(Gone' \ dropped', AllKept')
                    /\ call' = "rename" /\ i' < m_max_files' => disk'[i'] = NoFile
  BY DEF GoneInv
<1>1. CASE Rename
  BY <1>1, GoneRenamed
<1>2. CASE ~Rename
  <2>1. ~renameFailed
    BY <1>2 DEF Next, Step, Construct, Write, WriteThrows, Close, RenameThrows, RenameDone, Reopen, AppendLine,
                Flush, Destroy, Crash, vars, history
  <2>2. Before(Gone \ dropped, AllKept)
    BY <2>1 DEF GoneInv
  <2>3. AllKept' \subseteq AllKept \cup Ids(line) /\ Gone' \ dropped' \subseteq Gone \ dropped
    BY <1>2, OthersGiveUpNothing
  <2>4. Before(Gone \ dropped, Ids(line))
    <3>1. \A g \in Gone : g \in 1 .. issued /\ g \notin Ids(line)
      BY DEF Gone
    <3>2. \A l \in Ids(line) : l = issued
      BY DEF TypeInv, HistoryOK
    <3> QED
      BY <3>1, <3>2 DEF Before, TypeInv, HistoryOK
  <2>5. Before(Gone' \ dropped', AllKept')
    BY <2>2, <2>3, <2>4 DEF Before
  <2>6. call' = "rename" => Close \/ UNCHANGED vars
    BY <1>2 DEF Next, Step, Construct, Write, WriteThrows, Close, RenameThrows, RenameDone, Reopen, AppendLine,
                Flush, Destroy, Crash, At, TypeInv, CallOK
  <2>7. Close => i' = m_max_files'
    BY DEF Close, params
  <2>8. UNCHANGED vars /\ call' = "rename" /\ i' < m_max_files' => disk'[i'] = NoFile
    BY <2>1 DEF vars, params, history, GoneInv
  <2>9. ~(m_max_files' < m_max_files')
    BY ParamsStay, FileFacts DEF TypeInv, params
  <2> QED
    BY <2>5, <2>6, <2>7, <2>8, <2>9
<1> QED
  BY <1>1, <1>2
-----------------------------------------------------------------------------
(* Without faults *)

\* A step without a fault, of a call that has had none.
LEMMA FaultFreeRename ==
  ASSUME TypeInv, TypeInv', OrderInv, FaultFreeInv, Rename, faults = 0, faults' = 0
  PROVE  FaultFreeInv'
<1>1. /\ m_max_files' = m_max_files /\ m_max_files \in Nat /\ call = "rename" /\ call' = "rename"
      /\ i \in 1 .. m_max_files /\ i' = i - 1 /\ i - 1 \in 0 .. m_max_files /\ i \in 0 .. m_max_files
      /\ dropped' = dropped /\ line' = line /\ issued' = issued
      /\ m_max_files \in 0 .. m_max_files
  BY RenameEffect, FileFacts DEF params, TypeInv
<1>2. dropped = {} /\ ~renameFailed /\ Hole = (IF i < m_max_files THEN {i} ELSE {})
  BY <1>1 DEF FaultFreeInv, Hole
<1>3. Hole' = {i - 1}
  BY <1>1 DEF Hole
<1>4. /\ \A k \in Hole : disk[k] = NoFile
      /\ \A j, k \in 0 .. m_max_files : j < k /\ j \notin Hole /\ disk[k] # NoFile => disk[j] # NoFile
      /\ Gone # {} => \A k \in (1 .. m_max_files) \ Hole : disk[k] # NoFile
      /\ disk[0] # NoFile
  BY <1>1, <1>2 DEF FaultFreeInv
<1>5. \/ /\ disk[i - 1] # NoFile /\ disk'[i] = disk[i - 1] /\ disk'[i - 1] = NoFile
         /\ \A k \in 0 .. m_max_files : k # i /\ k # i - 1 => disk'[k] = disk[k]
      \/ disk[i - 1] = NoFile /\ disk' = disk
  BY RenameEffect
<1>6. renameFailed' = renameFailed
  BY RenameEffect
<1>7. i < m_max_files => disk[i] = NoFile
  BY <1>2, <1>4
<1>8. \A k \in 0 .. m_max_files : k > i /\ disk[k] # NoFile => disk[i - 1] # NoFile
  BY <1>1, <1>2, <1>4
<1>9. disk'[i - 1] = NoFile
  BY <1>5
<1>10. ASSUME NEW j \in 0 .. m_max_files, NEW k \in 0 .. m_max_files,
              j < k, j # i - 1, disk'[k] # NoFile
       PROVE  disk'[j] # NoFile
  <2>1. CASE disk' = disk /\ disk[i - 1] = NoFile
    <3>1. k # i /\ ~(k > i)
      BY <1>7, <1>8, <1>1, <1>4, <1>2, <1>10, <2>1
    <3>2. j # i
      BY <3>1, <1>10, <1>1
    <3> QED
      BY <3>2, <1>10, <1>4, <1>2, <2>1
  <2>2. CASE /\ disk[i - 1] # NoFile /\ disk'[i] = disk[i - 1]
             /\ \A l \in 0 .. m_max_files : l # i /\ l # i - 1 => disk'[l] = disk[l]
    <3>1. CASE j = i
      BY <3>1, <2>2
    <3>2. CASE j # i /\ k = i
      <4>1. j < i - 1 /\ disk'[j] = disk[j] /\ j \notin Hole
        BY <3>2, <2>2, <1>10, <1>1, <1>2
      <4> QED
        BY <4>1, <2>2, <1>4, <1>1
    <3>3. CASE j # i /\ k # i
      <4>1. k # i - 1 /\ disk'[k] = disk[k] /\ disk'[j] = disk[j] /\ j \notin Hole
        BY <3>3, <2>2, <1>9, <1>10, <1>2
      <4> QED
        BY <4>1, <1>10, <1>4
    <3> QED
      BY <3>1, <3>2, <3>3
  <2> QED
    BY <2>1, <2>2, <1>5
<1>11. ASSUME Gone' # {}
       PROVE  \A k \in (1 .. m_max_files) \ {i - 1} : disk'[k] # NoFile
  <2>1. Gone # {} \/ disk[i] # NoFile
    BY <1>1, <1>11, RenameGivesUp DEF Gone
  <2>2. disk[i] # NoFile => i = m_max_files
    BY <1>7, <1>1
  <2>3. \A k \in 1 .. m_max_files : k # i => disk[k] # NoFile
    <3>1. CASE Gone # {}
      BY <3>1, <1>4, <1>2
    <3>2. CASE disk[i] # NoFile
      <4>1. i = m_max_files /\ Hole = {}
        BY <3>2, <2>2, <1>2, <1>1
      <4> QED
        BY <4>1, <3>2, <1>4, <1>1
    <3> QED
      BY <3>1, <3>2, <2>1
  <2>4. disk[i - 1] # NoFile
    <3>1. CASE i = 1
      BY <3>1, <1>4
    <3>2. CASE i # 1
      <4>1. i - 1 \in 1 .. m_max_files /\ i - 1 # i
        BY <3>2, <1>1
      <4> QED
        BY <4>1, <2>3
    <3> QED
      BY <3>1, <3>2
  <2>5. disk'[i] # NoFile /\ \A k \in 1 .. m_max_files : k # i /\ k # i - 1 => disk'[k] = disk[k]
    BY <1>5, <2>4, <1>1
  <2> QED
    BY <2>3, <2>5
<1>12. 0 \notin Hole' => disk'[0] # NoFile
  <2>1. CASE i # 1
    <3>1. 0 # i /\ 0 # i - 1 /\ 0 \in 0 .. m_max_files
      BY <2>1, <1>1
    <3> QED
      BY <3>1, <1>4, <1>5
  <2> QED
    BY <2>1, <1>3
<1> QED
  BY <1>1, <1>2, <1>3, <1>6, <1>9, <1>10, <1>11, <1>12 DEF FaultFreeInv

\* A step that renames nothing leaves the backups and can only fill the hole.
LEMMA FaultFreeOther ==
  ASSUME FaultFreeInv, faults = 0, faults' = 0, UNCHANGED m_max_files, m_max_files \in Nat,
         \A k \in 1 .. m_max_files : disk'[k] = disk[k],
         Hole' \subseteq Hole, \A k \in Hole : k \in Hole' \/ k = 0,
         \A k \in Hole' : disk'[k] = NoFile,
         0 \notin Hole' => disk'[0] # NoFile,
         Gone' \subseteq Gone, dropped' = {}, ~renameFailed',
         call' \in {"idle", "append", "close"} => stream',
         call' # "absent"
  PROVE  FaultFreeInv'
<1>1. /\ \A j, k \in 0 .. m_max_files : j < k /\ j \notin Hole /\ disk[k] # NoFile => disk[j] # NoFile
      /\ Gone # {} => /\ m_max_files > 0
                      /\ \A k \in (1 .. m_max_files) \ Hole : disk[k] # NoFile
  BY DEF FaultFreeInv
<1>2. ASSUME NEW j \in 0 .. m_max_files, NEW k \in 0 .. m_max_files,
             j < k, j \notin Hole', disk'[k] # NoFile
      PROVE  disk'[j] # NoFile
  <2>1. CASE j # 0
    <3>1. j \in 1 .. m_max_files /\ k \in 1 .. m_max_files /\ j \notin Hole
      BY <2>1, <1>2
    <3> QED
      BY <3>1, <1>1, <1>2
  <2> QED
    BY <2>1, <1>2
<1>3. Gone' # {} => \A k \in (1 .. m_max_files) \ Hole' : disk'[k] # NoFile
  <2>1. \A k \in (1 .. m_max_files) \ Hole' : k \notin Hole /\ disk'[k] = disk[k]
    OBVIOUS
  <2> QED
    BY <2>1, <1>1
<1> QED
  BY <1>1, <1>2, <1>3 DEF FaultFreeInv

LEMMA FaultFreeInit == Init => FaultFreeInv
<1> SUFFICES ASSUME Init PROVE FaultFreeInv
  OBVIOUS
<1>1. Gone = {} /\ Hole = {} /\ call = "absent" /\ \A k \in 0 .. m_max_files : disk[k] = NoFile
  BY DEF Init, Gone, Hole
<1> QED
  BY <1>1 DEF FaultFreeInv, Init

\* A step that is not a fault and not a rename: nothing is given up.
LEMMA FaultFreeStep ==
  ASSUME TypeInv, TypeInv', OrderInv, FaultFreeInv, [Next]_vars
  PROVE  FaultFreeInv'
<1> SUFFICES ASSUME faults' = 0 PROVE FaultFreeInv'
  BY DEF FaultFreeInv
<1>0. /\ m_max_files' = m_max_files /\ UNCHANGED params /\ m_max_files \in Nat
      /\ 0 \in 0 .. m_max_files
      /\ \A k \in 1 .. m_max_files : k \in 0 .. m_max_files /\ k # 0
  BY ParamsStay, FileFacts DEF params, TypeInv
<1>a. faults = 0 /\ ~(faults' = faults + 1)
  <2>1. faults \in Nat
    BY DEF TypeInv, HistoryOK
  <2>2. faults' = faults \/ faults' = faults + 1
    BY DEF Next, Step, Construct, Write, WriteThrows, Close, Rename, RenameThrows, RenameDone, Reopen, Throw,
           AppendLine, Flush, Destroy, Crash, Fault, vars, history
  <2> QED
    BY <2>1, <2>2
<1>b. ~Fault /\ ~Throw
  BY <1>a DEF Fault, Throw
<1>1. CASE Rename
  BY <1>1, <1>a, FaultFreeRename
<1>2. CASE UNCHANGED vars
  BY <1>2, <1>0, <1>a DEF vars, params, history, FaultFreeInv, Hole, Gone, AllKept, Kept, File
<1>c. dropped = {} /\ ~renameFailed
  BY <1>a DEF FaultFreeInv
<1> SUFFICES ASSUME ~Rename, Next PROVE FaultFreeInv'
  BY <1>1, <1>2
<1>d. Gone' \ dropped' \subseteq Gone
  BY OthersGiveUpNothing
<1>3. CASE Construct
  <2>1. Open /\ call = "absent" /\ call' = "idle" /\ UNCHANGED <<dropped, renameFailed>>
    BY <1>3, <1>b DEF Construct
  <2>2. stream' /\ disk'[0] # NoFile /\ \A k \in 0 .. m_max_files : k # 0 => disk'[k] = disk[k]
    BY <2>1, <1>0, FileFacts, SetFile DEF Open, TypeInv
  <2>3. Hole = {} /\ Hole' = {}
    BY <2>1 DEF Hole
  <2> QED
    BY <2>1, <2>2, <2>3, <1>0, <1>a, <1>c, <1>d, FaultFreeOther
<1>4. ASSUME NEW size \in Sizes, Write(size) PROVE FaultFreeInv'
  <2>1. /\ call = "idle" /\ call' \in {"close", "append"}
        /\ UNCHANGED <<disk, stream, dropped, renameFailed>>
    BY <1>4 DEF Write, At
  <2>2. Hole = {} /\ Hole' = {}
    BY <2>1 DEF Hole
  <2>3. stream /\ disk[0] # NoFile
    BY <2>1, <2>2, <1>a DEF FaultFreeInv
  <2> QED
    BY <2>1, <2>2, <2>3, <1>0, <1>a, <1>c, <1>d, FaultFreeOther
<1>5. CASE Close
  <2>1. /\ call = "close" /\ call' = "rename" /\ Spill /\ i' = m_max_files
        /\ UNCHANGED <<dropped, renameFailed>>
    BY <1>5 DEF Close, At, history
  <2>2. Hole = {} /\ Hole' = {}
    BY <2>1, <1>0 DEF Hole
  <2>3. disk'[0] # NoFile /\ \A k \in 1 .. m_max_files : disk'[k] = disk[k]
    BY <2>1, <2>2, <1>0, <1>a, SpillEffect DEF FaultFreeInv, TypeInv
  <2> QED
    BY <2>1, <2>2, <2>3, <1>0, <1>a, <1>c, <1>d, FaultFreeOther
<1>6. CASE RenameDone
  <2>1. /\ call = "rename" /\ call' = "reopen" /\ i = 0
        /\ UNCHANGED <<disk, dropped, renameFailed>>
    BY <1>6 DEF RenameDone, At, history
  <2>2. Hole' = Hole
    BY <2>1, <1>0 DEF Hole
  <2>3. (0 \notin Hole => disk[0] # NoFile) /\ \A k \in Hole : disk[k] = NoFile
    BY <2>1, <1>a DEF FaultFreeInv
  <2> QED
    BY <2>1, <2>2, <2>3, <1>0, <1>a, <1>c, <1>d, FaultFreeOther
<1>7. CASE Reopen
  <2>1. Open /\ call = "reopen" /\ call' = "append" /\ UNCHANGED <<dropped, renameFailed>>
    BY <1>7, <1>b DEF Reopen, At
  <2>2. stream' /\ disk'[0] # NoFile /\ \A k \in 0 .. m_max_files : k # 0 => disk'[k] = disk[k]
    BY <2>1, <1>0, FileFacts, SetFile DEF Open, TypeInv
  <2>3. Hole \subseteq {0} /\ Hole' = {}
    BY <2>1 DEF Hole
  <2> QED
    BY <2>1, <2>2, <2>3, <1>0, <1>a, <1>c, <1>d, FaultFreeOther
<1>8. CASE AppendLine
  <2>1. /\ call = "append" /\ call' = "idle" /\ UNCHANGED <<stream, renameFailed>>
        /\ \A k \in 1 .. m_max_files : disk'[k] = disk[k]
    BY <1>8, AppendEffect
  <2>2. Hole = {} /\ Hole' = {}
    BY <2>1 DEF Hole
  <2>3. stream /\ disk[0] # NoFile
    BY <2>1, <2>2, <1>a DEF FaultFreeInv
  <2>4. dropped' = dropped /\ disk'[0] # NoFile
    BY <1>8, <2>3, AppendEffect
  <2> QED
    BY <2>1, <2>2, <2>3, <2>4, <1>0, <1>a, <1>c, <1>d, FaultFreeOther
<1>9. CASE Flush
  <2>1. /\ call = "idle" /\ call' = "idle" /\ Spill
        /\ UNCHANGED <<stream, dropped, renameFailed>>
    BY <1>9 DEF Flush, history
  <2>2. Hole = {} /\ Hole' = {}
    BY <2>1 DEF Hole
  <2>3. stream /\ disk'[0] # NoFile /\ \A k \in 1 .. m_max_files : disk'[k] = disk[k]
    BY <2>1, <2>2, <1>0, <1>a, SpillEffect DEF FaultFreeInv, TypeInv
  <2> QED
    BY <2>1, <2>2, <2>3, <1>0, <1>a, <1>c, <1>d, FaultFreeOther
<1> QED
  BY <1>b, <1>3, <1>4, <1>5, <1>6, <1>7, <1>8, <1>9 DEF Next, Step, WriteThrows, RenameThrows, Destroy, Crash
-----------------------------------------------------------------------------
(* The size of the live file, and empty backups *)

\* The size of one record.
LEMMA BytesOfOne ==
  ASSUME NEW l \in Line
  PROVE  Bytes(<<l>>) = l.size
<1>1. Len(<<l>>) = 1 /\ <<l>>[1] = l /\ l.size \in Nat
  BY RotationAssumption DEF Line
<1>2. 1 \in 1 .. Len(<<l>>) /\ 1 - 1 = 0
  BY <1>1
<1>3. /\ Bytes(<<l>>) = Sums(<<l>>)[1] /\ Sums(<<l>>)[0] = 0
      /\ Sums(<<l>>)[1] = Sums(<<l>>)[1 - 1] + <<l>>[1].size
  BY <1>1, <1>2, SumsDefined
<1> QED
  BY <1>1, <1>3

\* The bound, as it stands between two calls.
Room ==
  \/ Len(File(0)) + Len(buffer) <= 1
  \/ Bytes(File(0)) + Bytes(buffer) < m_max_file_size + BufferSize

\* A record that is appended where there was room for it stays in the bound.
LEMMA AppendInRoom ==
  ASSUME TypeInv, AppendLine, stream,
         (File(0) = <<>> /\ buffer = <<>>) \/ Bytes(File(0)) + Bytes(line) < m_max_file_size
  PROVE  Room'
<1>1. /\ File(0) \in Seq(Line) /\ buffer \in Seq(Line) /\ line \in Seq(Line) /\ Len(line) <= 1
      /\ Bytes(buffer) <= BufferSize /\ BufferSize \in Nat /\ m_max_file_size \in Nat
      /\ m_max_file_size' = m_max_file_size
  BY FileFacts, RotationAssumption, AppendEffect
  DEF TypeInv, ParamsOK, StreamOK, CallOK, params
<1>2. /\ Bytes(File(0)) \in Nat /\ Bytes(buffer) \in Nat /\ Bytes(line) \in Nat
      /\ Bytes(<<>>) = 0 /\ Len(<<>>) = 0
  BY <1>1, BytesOfConcat, Nothing
<1>3. CASE File(0)' = File(0) /\ buffer' = buffer \o line /\ Bytes(buffer \o line) <= BufferSize
  <2>1. CASE File(0) = <<>> /\ buffer = <<>>
    <3>1. buffer' = line /\ Len(File(0)') = 0
      BY <1>1, <1>3, <2>1
    <3>2. Len(File(0)') + Len(buffer') <= 1
      BY <3>1, <1>1
    <3> QED
      BY <3>2 DEF Room
  <2>2. CASE Bytes(File(0)) + Bytes(line) < m_max_file_size
    <3>1. Bytes(buffer \o line) \in Nat
      BY <1>1, BytesOfConcat, IdsOfConcat
    <3>2. Bytes(File(0)') = Bytes(File(0)) /\ Bytes(buffer') = Bytes(buffer \o line)
      BY <1>3
    <3>3. Bytes(File(0)) + Bytes(buffer \o line) < m_max_file_size + BufferSize
      BY <3>1, <2>2, <1>1, <1>2, <1>3
    <3>4. Bytes(File(0)') + Bytes(buffer') < m_max_file_size' + BufferSize
      <4>1. m_max_file_size' = m_max_file_size
        BY <1>1
      <4> QED
        BY <3>2, <3>3, <4>1
    <3> QED
      BY <3>4 DEF Room
  <2> QED
    BY <2>1, <2>2
<1>4. CASE File(0)' = File(0) \o buffer \o line /\ buffer' = <<>>
  <2>1. CASE File(0) = <<>> /\ buffer = <<>>
    <3>1. File(0)' = line /\ Len(buffer') = 0
      BY <1>1, <1>4, <2>1
    <3>2. Len(File(0)') + Len(buffer') <= 1
      BY <3>1, <1>1
    <3> QED
      BY <3>2 DEF Room
  <2>2. CASE Bytes(File(0)) + Bytes(line) < m_max_file_size
    <3>1. File(0) \o buffer \in Seq(Line) /\ Bytes(File(0) \o buffer) = Bytes(File(0)) + Bytes(buffer)
      BY <1>1, BytesOfConcat, IdsOfConcat
    <3>2. Bytes((File(0) \o buffer) \o line) = Bytes(File(0)) + Bytes(buffer) + Bytes(line)
      BY <3>1, <1>1, BytesOfConcat
    <3>3. Bytes(File(0)') = Bytes(File(0)) + Bytes(buffer) + Bytes(line) /\ Bytes(buffer') = 0
      BY <3>2, <1>2, <1>4
    <3>4. Bytes(File(0)) + Bytes(buffer) + Bytes(line) + 0 < m_max_file_size + BufferSize
      BY <2>2, <1>1, <1>2
    <3>5. m_max_file_size' = m_max_file_size
      BY <1>1
    <3>6. Bytes(File(0)') + Bytes(buffer') < m_max_file_size' + BufferSize
      BY <3>3, <3>4, <3>5
    <3> QED
      BY <3>6 DEF Room
  <2> QED
    BY <2>1, <2>2
<1> QED
  BY <1>3, <1>4, AppendEffect

LEMMA SizeInit == Init => SizeInv
<1> SUFFICES ASSUME Init PROVE Len(File(0)) + Len(buffer) <= 1 /\ call = "absent"
  BY DEF SizeInv
<1>1. 0 \in 0 .. m_max_files
  BY RotationAssumption DEF Init
<1> QED
  BY <1>1 DEF Init, File

\* Every step keeps the bound.
LEMMA SizeStep ==
  ASSUME TypeInv, TypeInv', FaultFreeInv, SizeInv, [Next]_vars
  PROVE  SizeInv'
<1>0. /\ m_max_files' = m_max_files /\ m_max_file_size' = m_max_file_size /\ UNCHANGED params
      /\ 0 \in 0 .. m_max_files /\ m_max_files \in Nat
  BY ParamsStay, FileFacts DEF params, TypeInv
<1> SUFFICES ASSUME faults' = 0, m_max_files > 0
             PROVE  /\ call' \in {"idle", "absent"} => Room'
                    /\ call' = "append" => \/ File(0)' = <<>> /\ buffer' = <<>>
                                           \/ Bytes(File(0)') + Bytes(line') < m_max_file_size
  BY <1>0 DEF SizeInv, Room
<1> DEFINE Goal == /\ call' \in {"idle", "absent"} => Room'
                   /\ call' = "append" => \/ File(0)' = <<>> /\ buffer' = <<>>
                                          \/ Bytes(File(0)') + Bytes(line') < m_max_file_size
<1>a. faults = 0 /\ ~(faults' = faults + 1)
  <2>1. faults \in Nat
    BY DEF TypeInv, HistoryOK
  <2>2. faults' = faults \/ faults' = faults + 1
    BY DEF Next, Step, Construct, Write, WriteThrows, Close, Rename, RenameThrows, RenameDone, Reopen, Throw,
           AppendLine, Flush, Destroy, Crash, Fault, vars, history
  <2> QED
    BY <2>1, <2>2
<1>b. ~Fault /\ ~Throw
  BY <1>a DEF Fault, Throw
<1>c. /\ call \in {"idle", "absent"} => Room
      /\ call = "append" => \/ File(0) = <<>> /\ buffer = <<>>
                            \/ Bytes(File(0)) + Bytes(line) < m_max_file_size
  BY <1>a DEF SizeInv, Room
<1> SUFFICES Goal
  OBVIOUS
<1>1. CASE UNCHANGED vars
  <2>1. UNCHANGED <<disk, buffer, line, call>> /\ File(0)' = File(0)
    BY <1>1 DEF vars, File
  <2> QED
    BY <2>1, <1>0, <1>c DEF Room
<1>2. CASE Construct
  <2>1. Open /\ call = "absent" /\ call' = "idle" /\ buffer' = buffer
    BY <1>2, <1>b DEF Construct
  <2>2. File(0)' = File(0)
    BY <2>1, <1>0, FileFacts, SetFile DEF Open, TypeInv
  <2> QED
    BY <2>1, <2>2, <1>0, <1>c DEF Room
<1>3. ASSUME NEW size \in Sizes, Write(size) PROVE Goal
  <2> DEFINE l == [id |-> issued + 1, size |-> size]
  <2>1. l \in Line /\ l.size = size
    BY <1>3, RotationAssumption DEF Write, Line, TypeInv, HistoryOK
  <2>2. line' = <<l>> /\ disk' = disk /\ File(0)' = File(0)
    BY <1>3 DEF Write, File
  <2> HIDE DEF l
  <2>3. Bytes(line') = size
    BY <2>1, <2>2, BytesOfOne
  <2>4. /\ call' = IF Bytes(File(0)) + size >= m_max_file_size THEN "close" ELSE "append"
        /\ Bytes(File(0)) \in Nat /\ size \in Nat /\ m_max_file_size \in Nat
    BY <1>3, <1>0, FileFacts, BytesOfConcat, RotationAssumption DEF Write, At, TypeInv, ParamsOK
  <2> QED
    BY <2>2, <2>3, <2>4
<1>4. CASE Reopen
  <2>1. Open /\ call = "reopen" /\ call' = "append" /\ buffer' = buffer
    BY <1>4, <1>b DEF Reopen, At
  <2>2. Hole = {0}
    BY <2>1 DEF Hole
  <2>3. disk[0] = NoFile /\ buffer = <<>>
    BY <2>1, <2>2, <1>a DEF FaultFreeInv, TypeInv, StreamOK
  <2>4. File(0)' = File(0) /\ File(0) = <<>>
    BY <2>1, <2>3, <1>0, FileFacts, SetFile DEF Open, TypeInv
  <2> QED
    BY <2>1, <2>3, <2>4
<1>5. CASE AppendLine
  <2>1. call = "append" /\ call' = "idle"
    BY <1>5, AppendEffect
  <2>2. stream
    BY <2>1, <1>a DEF FaultFreeInv
  <2> QED
    BY <2>1, <2>2, <1>5, <1>c, AppendInRoom
<1>6. CASE Flush
  <2>1. /\ call = "idle" /\ call' = "idle" /\ Spill
    BY <1>6 DEF Flush
  <2>2. buffer' = <<>> /\ File(0)' = File(0) \o buffer
    BY <2>1, <1>0, SpillEffect DEF TypeInv
  <2>3. File(0) \in Seq(Line) /\ buffer \in Seq(Line) /\ Bytes(<<>>) = 0
    BY FileFacts, <1>0, Nothing DEF TypeInv, StreamOK
  <2>4. /\ Bytes(File(0)') = Bytes(File(0)) + Bytes(buffer) /\ Bytes(buffer') = 0
        /\ Bytes(File(0)) \in Nat /\ Bytes(buffer) \in Nat
    BY <2>2, <2>3, BytesOfConcat
  <2>5. Len(File(0)') = Len(File(0)) + Len(buffer) /\ Len(buffer') = 0
    BY <2>2, <2>3
  <2>6. Len(File(0)) \in Nat /\ Len(buffer) \in Nat
    BY <2>3
  <2> QED
    BY <2>1, <2>4, <2>5, <2>6, <1>0, <1>c DEF Room
<1>7. CASE Close \/ Rename \/ RenameDone
  <2>1. call' \in {"rename", "reopen"}
    BY <1>7 DEF Close, Rename, RenameDone, At
  <2> QED
    BY <2>1
<1> QED
  BY <1>b, <1>1, <1>2, <1>3, <1>4, <1>5, <1>6, <1>7 DEF Next, Step, WriteThrows, RenameThrows, Destroy, Crash

LEMMA BackupInit == Init => BackupInv
<1>1. NoFile # <<>>
  BY RotationAssumption, Nothing
<1> QED
  BY <1>1 DEF Init, BackupInv

\* Every step keeps the backups from being empty.
LEMMA BackupStep ==
  ASSUME TypeInv, TypeInv', BackupInv, [Next]_vars
  PROVE  BackupInv'
<1>0. /\ m_max_files' = m_max_files /\ m_max_file_size' = m_max_file_size /\ UNCHANGED params
      /\ 0 \in 0 .. m_max_files /\ m_max_files \in Nat
      /\ \A k \in 1 .. m_max_files : k \in 0 .. m_max_files /\ k # 0
  BY ParamsStay, FileFacts DEF params, TypeInv
<1>b. m_max_file_size \in Nat /\ NoFile # <<>>
  BY RotationAssumption, Nothing DEF TypeInv, ParamsOK
<1> DEFINE Goal == /\ \A k \in 1 .. m_max_files : disk'[k] # <<>>
                   /\ call' = "close" => File(0)' # <<>>
                   /\ call' = "rename" /\ i' > 0 => disk'[0] # <<>>
<1> SUFFICES ASSUME \A size \in Sizes : size < m_max_file_size
             PROVE  Goal
  BY <1>0 DEF BackupInv
<1>a. /\ \A k \in 1 .. m_max_files : disk[k] # <<>>
      /\ call = "close" => File(0) # <<>>
      /\ call = "rename" /\ i > 0 => disk[0] # <<>>
  BY DEF BackupInv
<1>1. CASE UNCHANGED vars
  <2>1. UNCHANGED <<disk, call, i>>
    BY <1>1 DEF vars
  <2> QED
    BY <2>1, <1>a DEF File
<1>2. CASE Construct \/ Reopen
  <2>1. call' \notin {"close", "rename"} /\ (Open \/ disk' = disk)
    BY <1>2 DEF Construct, Reopen, At, TypeInv, CallOK
  <2>2. \A k \in 1 .. m_max_files : disk'[k] = disk[k]
    BY <2>1, <1>0, FileFacts, SetFile DEF Open, TypeInv
  <2> QED
    BY <2>1, <2>2, <1>a
<1>3. ASSUME NEW size \in Sizes, Write(size) PROVE Goal
  <2>1. disk' = disk /\ call' = IF Bytes(File(0)) + size >= m_max_file_size THEN "close" ELSE "append"
    BY <1>3 DEF Write, At
  <2>2. Bytes(File(0)) \in Nat /\ size \in Nat /\ size < m_max_file_size
    BY <1>0, FileFacts, BytesOfConcat, RotationAssumption DEF TypeInv
  <2>3. call' = "close" => Bytes(File(0)) # 0
    BY <2>1, <2>2, <1>b
  <2>4. File(0)' = File(0)
    BY <2>1 DEF File
  <2> QED
    BY <2>1, <2>3, <2>4, <1>a, Nothing
<1>4. CASE Close
  <2>1. call = "close" /\ call' = "rename" /\ Spill
    BY <1>4 DEF Close, At
  <2>2. /\ \A k \in 1 .. m_max_files : disk'[k] = disk[k]
        /\ disk'[0] # NoFile => disk'[0] = File(0) \o buffer
    BY <2>1, <1>0, SpillEffect DEF TypeInv
  <2>3. File(0) # <<>> /\ File(0) \in Seq(Line) /\ buffer \in Seq(Line)
    BY <2>1, <1>a, <1>0, FileFacts DEF TypeInv, StreamOK
  <2>4. File(0) \o buffer # <<>>
    BY <2>3
  <2>5. disk'[0] # <<>>
    BY <2>2, <2>4, <1>b
  <2> QED
    BY <2>1, <2>2, <2>5, <1>a
<1>5. CASE Rename
  <2>1. /\ i \in 1 .. m_max_files /\ call = "rename" /\ call' = "rename" /\ i' = i - 1
        /\ \/ /\ disk[i - 1] # NoFile /\ disk'[i] = disk[i - 1] /\ disk'[i - 1] = NoFile
              /\ \A k \in 0 .. m_max_files : k # i /\ k # i - 1 => disk'[k] = disk[k]
           \/ disk' = disk
    BY <1>5, RenameEffect
  <2>2. \A k \in 0 .. m_max_files : disk[k] # <<>>
    <3>1. i > 0
      BY <2>1
    <3>2. disk[0] # <<>>
      BY <3>1, <2>1, <1>a
    <3>3. \A k \in 0 .. m_max_files : k = 0 \/ k \in 1 .. m_max_files
      BY <1>0
    <3> QED
      BY <3>2, <3>3, <1>a
  <2>3. i - 1 \in 0 .. m_max_files
    BY <2>1, <1>0
  <2>4. \A k \in 0 .. m_max_files : disk'[k] # <<>>
    <3>1. CASE disk' = disk
      BY <3>1, <2>2
    <3>2. ASSUME disk'[i] = disk[i - 1], disk'[i - 1] = NoFile,
                 \A k \in 0 .. m_max_files : k # i /\ k # i - 1 => disk'[k] = disk[k],
                 NEW k \in 0 .. m_max_files
          PROVE  disk'[k] # <<>>
      BY <3>2, <2>2, <2>3, <1>b
    <3> QED
      BY <3>1, <3>2, <2>1
  <2> QED
    BY <2>1, <2>4, <1>0
<1>6. CASE AppendLine
  BY <1>6, <1>a, AppendEffect
<1>7. CASE Flush \/ Destroy
  <2>1. call' \notin {"close", "rename"} /\ Spill
    BY <1>7 DEF Flush, Destroy, At
  <2>2. \A k \in 1 .. m_max_files : disk'[k] = disk[k]
    BY <2>1, <1>0, SpillEffect DEF TypeInv
  <2> QED
    BY <2>1, <2>2, <1>a
<1>8. CASE RenameDone \/ RenameThrows \/ Crash
  <2>1. call' \notin {"close", "rename"} /\ disk' = disk
    BY <1>8 DEF RenameDone, RenameThrows, Crash, At
  <2> QED
    BY <2>1, <1>a
<1>9. ASSUME NEW size \in Sizes, WriteThrows(size) PROVE Goal
  <2>1. call' \notin {"close", "rename"} /\ disk' = disk
    BY <1>9 DEF WriteThrows
  <2> QED
    BY <2>1, <1>a
<1> QED
  BY <1>1, <1>2, <1>3, <1>4, <1>5, <1>6, <1>7, <1>8, <1>9 DEF Next, Step

LEMMA EmptyInit == Init => EmptyInv
<1>1. NoFile # <<>>
  BY RotationAssumption, Nothing
<1> QED
  BY <1>1 DEF Init, EmptyInv

\* More records at its end do not make a sequence's first one smaller.
LEMMA StaysTooLarge ==
  ASSUME NEW s \in Seq(Line), NEW t \in Seq(Line), TooLarge(s)
  PROVE  TooLarge(s \o t)
  BY DEF TooLarge

\* A step that leaves the backups and the hole, and takes nothing from the front
\* of the newest records, leaves every empty backup followed as it was.
LEMMA FollowedStays ==
  ASSUME m_max_files \in Nat, m_max_files' = m_max_files, m_max_file_size' = m_max_file_size,
         \A k \in 1 .. m_max_files : disk'[k] = disk[k],
         \A k \in 1 .. m_max_files : disk[k] = <<>> => FollowedByTooLarge(k),
         Hole' = Hole, Hole = {} \/ line' = line,
         TooLarge(Newest) => TooLarge(Newest)'
  PROVE  \A k \in 1 .. m_max_files : disk'[k] = <<>> => FollowedByTooLarge(k)'
<1>1. ASSUME NEW j \in 0 .. m_max_files, TooLarge(Newer(j)) PROVE TooLarge(Newer(j))'
  <2>1. CASE j = 0
    <3>1. Newer(j) = Newest /\ Newer(j)' = Newest'
      BY <2>1 DEF Newer
    <3> QED
      BY <3>1, <1>1 DEF TooLarge
  <2>2. CASE j # 0
    <3>1. Newer(j) = File(j) /\ Newer(j)' = File(j)' /\ j \in 1 .. m_max_files
      BY <2>2 DEF Newer
    <3>2. File(j)' = File(j)
      BY <3>1 DEF File
    <3> QED
      BY <3>1, <3>2, <1>1 DEF TooLarge
  <2> QED
    BY <2>1, <2>2
<1>2. Hole # {} /\ TooLarge(line) => TooLarge(line)'
  BY DEF TooLarge
<1> TAKE k \in 1 .. m_max_files
<1> HAVE disk'[k] = <<>>
<1>3. FollowedByTooLarge(k)
  OBVIOUS
<1>4. CASE k - 1 \notin Hole
  <2>1. TooLarge(Newer(k - 1)) /\ k - 1 \in 0 .. m_max_files
    BY <1>3, <1>4 DEF FollowedByTooLarge
  <2>2. TooLarge(Newer(k - 1))'
    BY <2>1, <1>1
  <2> QED
    BY <2>2, <1>4 DEF FollowedByTooLarge
<1>5. CASE k - 1 \in Hole /\ k = 1
  <2>1. TooLarge(line)
    BY <1>3, <1>5 DEF FollowedByTooLarge
  <2>2. TooLarge(line)'
    BY <2>1, <1>2, <1>5
  <2> QED
    BY <2>2, <1>5 DEF FollowedByTooLarge
<1>6. CASE k - 1 \in Hole /\ k # 1
  <2>1. TooLarge(Newer(k - 2)) /\ k - 2 \in 0 .. m_max_files
    BY <1>3, <1>6 DEF FollowedByTooLarge
  <2>2. TooLarge(Newer(k - 2))'
    BY <2>1, <1>1
  <2> QED
    BY <2>2, <1>6 DEF FollowedByTooLarge
<1> QED
  BY <1>4, <1>5, <1>6

\* A round of the loop moves the hole past a file, and past the empty one too.
LEMMA EmptyRename ==
  ASSUME TypeInv, FaultFreeInv, EmptyInv, Rename, faults = 0, faults' = 0
  PROVE  /\ \A k \in 1 .. m_max_files : disk'[k] = <<>> => FollowedByTooLarge(k)'
         /\ i' > 0 /\ disk'[0] = <<>> => TooLarge(line)'
<1>1. /\ i \in 1 .. m_max_files /\ call = "rename" /\ call' = "rename" /\ i' = i - 1
      /\ m_max_files' = m_max_files /\ m_max_file_size' = m_max_file_size
      /\ buffer' = buffer /\ line' = line /\ buffer = <<>> /\ m_max_files \in Nat
  BY RenameEffect, FileFacts DEF TypeInv, StreamOK, params
<1>2. Hole = (IF i < m_max_files THEN {i} ELSE {}) /\ Hole' = {i - 1}
  BY <1>1 DEF Hole
<1>3. NoFile # <<>>
  BY RotationAssumption, Nothing
<1>4. /\ \A k \in Hole : disk[k] = NoFile
      /\ 0 \notin Hole => disk[0] # NoFile
      /\ \A j, k \in 0 .. m_max_files : j < k /\ j \notin Hole /\ disk[k] # NoFile => disk[j] # NoFile
  BY <1>1 DEF FaultFreeInv
<1>5. /\ \A k \in 1 .. m_max_files : disk[k] = <<>> => FollowedByTooLarge(k)
      /\ disk[0] = <<>> => TooLarge(line)
  BY <1>1 DEF EmptyInv
<1>6. /\ 0 \in 0 .. m_max_files /\ i - 1 \in 0 .. m_max_files
      /\ \A k \in 0 .. m_max_files : File(k) \in Seq(Line)
  BY <1>1, FileFacts DEF TypeInv
<1>7. Newest = File(0) /\ Newest' = File(0)'
  <2>1. Newest = File(0) \o <<>> \o <<>> /\ Newest' = File(0)' \o <<>> \o <<>>
    BY <1>1 DEF Newest
  <2>2. File(0) \in Seq(Line)
    BY <1>6
  <2>3. File(0)' \in Seq(Line)
    <3>1. File(0)' = File(0) \/ File(0)' = <<>> \/ File(0)' = File(i - 1)
      <4>1. disk' = disk => File(0)' = File(0)
        BY DEF File
      <4> QED
        BY <4>1, <1>6, RenameEffect
    <3> QED
      BY <3>1, <1>6, Nothing
  <2> QED
    BY <2>1, <2>2, <2>3
<1>8. \A j \in 0 .. m_max_files : Newer(j) = File(j) /\ Newer(j)' = File(j)'
  BY <1>7 DEF Newer
<1>9. (TooLarge(line))' = TooLarge(line)
  BY <1>1 DEF TooLarge
<1>10. CASE disk' = disk /\ disk[i - 1] = NoFile
  <2>1. \A j \in 0 .. m_max_files : File(j)' = File(j)
    BY <1>10 DEF File
  <2>2. ASSUME NEW k \in 1 .. m_max_files, disk'[k] = <<>>
        PROVE  FollowedByTooLarge(k)'
    <3>1. k < i
      <4>1. i - 1 \notin Hole
        BY <1>1, <1>2
      <4>2. disk[k] # NoFile /\ k \in 0 .. m_max_files
        BY <2>2, <1>10, <1>3
      <4>3. ~(i - 1 < k)
        BY <4>1, <4>2, <1>4, <1>6, <1>10
      <4> QED
        BY <4>3, <1>1
    <3>2. k - 1 \notin Hole /\ k - 1 \notin Hole' /\ k - 1 \in 0 .. m_max_files
      BY <3>1, <1>1, <1>2
    <3>3. TooLarge(Newer(k - 1))
      BY <3>2, <2>2, <1>5, <1>10 DEF FollowedByTooLarge
    <3>4. Newer(k - 1)' = Newer(k - 1)
      BY <3>2, <2>1, <1>8
    <3>5. TooLarge(Newer(k - 1))'
      BY <3>3, <3>4, <1>1 DEF TooLarge
    <3> QED
      BY <3>2, <3>5 DEF FollowedByTooLarge
  <2> QED
    BY <2>2, <1>5, <1>9, <1>10
<1>11. ASSUME disk[i - 1] # NoFile, disk'[i] = disk[i - 1], disk'[i - 1] = NoFile,
              \A k \in 0 .. m_max_files :
                /\ k = i => File(k)' = File(i - 1)
                /\ k = i - 1 => File(k)' = <<>>
                /\ k # i /\ k # i - 1 => disk'[k] = disk[k] /\ File(k)' = File(k)
       PROVE  /\ \A k \in 1 .. m_max_files : disk'[k] = <<>> => FollowedByTooLarge(k)'
              /\ i' > 0 /\ disk'[0] = <<>> => TooLarge(line)'
  <2>1. ASSUME NEW k \in 1 .. m_max_files, disk'[k] = <<>>
        PROVE  FollowedByTooLarge(k)'
    <3>1. CASE k = i /\ i = 1
      <4>1. TooLarge(line)'
        BY <3>1, <2>1, <1>11, <1>5, <1>9
      <4>2. k - 1 \in Hole'
        BY <3>1, <1>2
      <4> QED
        BY <3>1, <4>1, <4>2 DEF FollowedByTooLarge
    <3>2. CASE k = i /\ i # 1
      <4>1. /\ i - 1 \in 1 .. m_max_files /\ i - 2 \in 0 .. m_max_files /\ (i - 1) - 1 = i - 2
            /\ i - 2 \notin Hole /\ i - 2 # i /\ i - 2 # i - 1 /\ k - 1 \in Hole' /\ k # 1 /\ k - 2 = i - 2
        BY <3>2, <1>1, <1>2
      <4>2. disk[i - 1] = <<>>
        BY <3>2, <2>1, <1>11
      <4>3. FollowedByTooLarge(i - 1)
        BY <4>1, <4>2, <1>5
      <4>4. TooLarge(Newer(k - 2))
        BY <4>3, <4>1 DEF FollowedByTooLarge
      <4>5. Newer(k - 2)' = Newer(k - 2)
        <5>1. k - 2 \in 0 .. m_max_files /\ File(k - 2)' = File(k - 2)
          BY <4>1, <1>11
        <5> QED
          BY <5>1, <1>8
      <4>6. TooLarge(Newer(k - 2))'
        BY <4>4, <4>5, <1>1 DEF TooLarge
      <4> QED
        BY <4>1, <4>6 DEF FollowedByTooLarge
    <3>3. CASE k = i + 1
      <4>1. /\ i < m_max_files /\ i \in Hole /\ i \notin Hole' /\ k - 1 = i /\ k - 2 = i - 1 /\ k # 1
            /\ k \in 0 .. m_max_files /\ k # i /\ k # i - 1 /\ i \in 0 .. m_max_files
        BY <3>3, <1>1, <1>2
      <4>2. disk[k] = <<>>
        BY <4>1, <2>1, <1>11
      <4>3. FollowedByTooLarge(k)
        BY <4>2, <1>5
      <4>4. TooLarge(Newer(i - 1))
        BY <4>3, <4>1 DEF FollowedByTooLarge
      <4>5. Newer(k - 1)' = Newer(i - 1)
        <5>1. k - 1 \in 0 .. m_max_files /\ k - 1 = i /\ File(k - 1)' = File(i - 1)
          BY <4>1, <1>11
        <5> QED
          BY <5>1, <1>6, <1>8
      <4>6. TooLarge(Newer(k - 1))'
        BY <4>4, <4>5, <1>1 DEF TooLarge
      <4> QED
        BY <4>1, <4>6 DEF FollowedByTooLarge
    <3>4. CASE k # i /\ k # i + 1
      <4>1. k # i - 1
        BY <2>1, <1>11, <1>3
      <4>2. /\ k \in 0 .. m_max_files /\ k - 1 \in 0 .. m_max_files /\ k - 1 # i - 1 /\ k - 1 # i
            /\ k - 1 \notin Hole /\ k - 1 \notin Hole'
        BY <3>4, <1>1, <1>2
      <4>3. disk[k] = <<>>
        BY <3>4, <4>1, <4>2, <2>1, <1>11
      <4>4. TooLarge(Newer(k - 1))
        BY <4>3, <4>2, <1>5 DEF FollowedByTooLarge
      <4>5. Newer(k - 1)' = Newer(k - 1)
        BY <4>2, <1>8, <1>11
      <4>6. TooLarge(Newer(k - 1))'
        BY <4>4, <4>5, <1>1 DEF TooLarge
      <4> QED
        BY <4>2, <4>6 DEF FollowedByTooLarge
    <3> QED
      BY <3>1, <3>2, <3>3, <3>4
  <2>2. i' > 0 /\ disk'[0] = <<>> => disk[0] = <<>>
    <3>1. i' > 0 => 0 # i /\ 0 # i - 1
      BY <1>1
    <3> QED
      BY <3>1, <1>6, <1>11
  <2> QED
    BY <2>1, <2>2, <1>5, <1>9
<1>12. ~(faults' = faults + 1)
  OBVIOUS
<1> QED
  BY <1>10, <1>11, <1>12, RenameEffect

\* Every step keeps an empty backup followed by the record it made way for.
LEMMA EmptyStep ==
  ASSUME TypeInv, TypeInv', FaultFreeInv, EmptyInv, [Next]_vars
  PROVE  EmptyInv'
<1>0. /\ m_max_files' = m_max_files /\ m_max_file_size' = m_max_file_size /\ UNCHANGED params
      /\ 0 \in 0 .. m_max_files /\ m_max_files \in Nat
      /\ \A k \in 1 .. m_max_files : k \in 0 .. m_max_files /\ k # 0
  BY ParamsStay, FileFacts DEF params, TypeInv
<1>z. File(0) \in Seq(Line) /\ buffer \in Seq(Line) /\ line \in Seq(Line) /\ NoFile # <<>>
  BY FileFacts, RotationAssumption, Nothing DEF TypeInv, StreamOK, CallOK
<1> DEFINE Goal == /\ \A k \in 1 .. m_max_files : disk'[k] = <<>> => FollowedByTooLarge(k)'
                   /\ call' = "close" /\ (File(0) \o buffer)' = <<>> => TooLarge(line)'
                   /\ call' = "rename" /\ i' > 0 /\ disk'[0] = <<>> => TooLarge(line)'
<1> SUFFICES ASSUME faults' = 0 PROVE Goal
  BY <1>0 DEF EmptyInv
<1>a. faults = 0 /\ ~(faults' = faults + 1)
  <2>1. faults \in Nat
    BY DEF TypeInv, HistoryOK
  <2>2. faults' = faults \/ faults' = faults + 1
    BY DEF Next, Step, Construct, Write, WriteThrows, Close, Rename, RenameThrows, RenameDone, Reopen, Throw,
           AppendLine, Flush, Destroy, Crash, Fault, vars, history
  <2> QED
    BY <2>1, <2>2
<1>b. ~Fault /\ ~Throw
  BY <1>a DEF Fault, Throw
<1>c. /\ \A k \in 1 .. m_max_files : disk[k] = <<>> => FollowedByTooLarge(k)
      /\ call = "close" /\ File(0) \o buffer = <<>> => TooLarge(line)
      /\ call = "rename" /\ i > 0 /\ disk[0] = <<>> => TooLarge(line)
  BY <1>a DEF EmptyInv
<1>d. ASSUME \A k \in 1 .. m_max_files : disk'[k] = disk[k],
             Hole' = Hole, Hole = {} \/ line' = line,
             TooLarge(Newest) => TooLarge(Newest)',
             call' \notin {"close", "rename"}
      PROVE  Goal
  BY <1>d, <1>c, <1>0, FollowedStays
<1>1. CASE UNCHANGED vars
  <2>1. UNCHANGED <<disk, buffer, line, call, i>> /\ UNCHANGED <<m_max_files, m_max_file_size>>
    BY <1>1, <1>0 DEF vars
  <2>2. Hole' = Hole /\ File(0)' = File(0) /\ Newest' = Newest
    BY <2>1 DEF Hole, File, Newest
  <2>3. \A k \in 1 .. m_max_files : disk'[k] = <<>> => FollowedByTooLarge(k)'
    <3>1. TooLarge(Newest) => TooLarge(Newest)'
      BY <2>1, <2>2 DEF TooLarge
    <3> QED
      BY <3>1, <2>1, <2>2, <1>0, <1>c, FollowedStays
  <2> QED
    BY <2>1, <2>2, <2>3, <1>c DEF TooLarge
<1>2. CASE Construct
  <2>1. Open /\ call = "absent" /\ call' = "idle" /\ buffer' = buffer /\ line' = line
    BY <1>2, <1>b DEF Construct
  <2>2. File(0)' = File(0) /\ \A k \in 1 .. m_max_files : disk'[k] = disk[k]
    BY <2>1, <1>0, FileFacts, SetFile DEF Open, TypeInv
  <2>3. Hole' = Hole /\ Newest' = Newest
    BY <2>1, <2>2 DEF Hole, Newest
  <2>4. TooLarge(Newest) => TooLarge(Newest)'
    BY <2>3, <1>0 DEF TooLarge
  <2> QED
    BY <2>1, <2>2, <2>3, <2>4, <1>d
<1>3. ASSUME NEW size \in Sizes, Write(size) PROVE Goal
  <2> DEFINE l == [id |-> issued + 1, size |-> size]
  <2>1. l \in Line /\ l.size = size
    BY <1>3, RotationAssumption DEF Write, Line, TypeInv, HistoryOK
  <2>2. /\ line' = <<l>> /\ disk' = disk /\ buffer' = buffer /\ File(0)' = File(0) /\ call = "idle"
        /\ call' = IF Bytes(File(0)) + size >= m_max_file_size THEN "close" ELSE "append"
    BY <1>3 DEF Write, File, At
  <2> HIDE DEF l
  <2>3. Hole = {} /\ Hole' = {}
    BY <2>2 DEF Hole
  <2>4. TooLarge(Newest) => TooLarge(Newest)'
    <3>1. Newest \in Seq(Line) /\ <<l>> \in Seq(Line) /\ Newest = File(0) \o buffer
      <4>1. Newest = File(0) \o buffer \o <<>>
        BY <2>2 DEF Newest
      <4>2. File(0) \o buffer \in Seq(Line)
        BY <1>z, IdsOfConcat
      <4> QED
        BY <4>1, <4>2, <2>1
    <3>2. Newest' = Newest \/ Newest' = Newest \o <<l>>
      BY <3>1, <2>2 DEF Newest
    <3>3. TooLarge(Newest) => TooLarge(Newest \o <<l>>)
      BY <3>1, StaysTooLarge
    <3> QED
      BY <3>2, <3>3, <1>0 DEF TooLarge
  <2>5. \A k \in 1 .. m_max_files : disk'[k] = <<>> => FollowedByTooLarge(k)'
    BY <2>2, <2>3, <2>4, <1>0, <1>c, FollowedStays
  <2>6. call' = "close" /\ (File(0) \o buffer)' = <<>> => TooLarge(line)'
    <3> SUFFICES ASSUME call' = "close", File(0) \o buffer = <<>> PROVE TooLarge(line)'
      BY <2>2
    <3>1. File(0) = <<>> /\ Bytes(File(0)) = 0
      BY <1>z, Nothing
    <3>2. size >= m_max_file_size
      BY <3>1, <2>2, <1>0, RotationAssumption DEF TypeInv, ParamsOK
    <3> QED
      BY <3>2, <2>1, <2>2, <1>0 DEF TooLarge
  <2>7. call' # "rename"
    BY <2>2
  <2> QED
    BY <2>5, <2>6, <2>7
<1>4. CASE Close
  <2>1. call = "close" /\ call' = "rename" /\ Spill /\ i' = m_max_files /\ line' = line
    BY <1>4 DEF Close, At
  <2>2. /\ \A k \in 1 .. m_max_files : disk'[k] = disk[k]
        /\ File(0)' = File(0) \o buffer /\ buffer' = <<>>
        /\ disk'[0] # NoFile => disk'[0] = File(0) \o buffer
    BY <2>1, <1>0, SpillEffect DEF TypeInv
  <2>3. Hole = {} /\ Hole' = {}
    BY <2>1, <1>0 DEF Hole
  <2>4. Newest' = Newest
    <3>1. File(0) \o buffer \in Seq(Line)
      BY <1>z, IdsOfConcat
    <3>2. Newest = (File(0) \o buffer) \o <<>> /\ Newest' = (File(0) \o buffer) \o <<>> \o <<>>
      BY <2>1, <2>2 DEF Newest
    <3> QED
      BY <3>1, <3>2
  <2>5. TooLarge(Newest) => TooLarge(Newest)'
    BY <2>4, <1>0 DEF TooLarge
  <2>6. \A k \in 1 .. m_max_files : disk'[k] = <<>> => FollowedByTooLarge(k)'
    BY <2>2, <2>3, <2>5, <1>0, <1>c, FollowedStays
  <2>7. disk'[0] = <<>> => TooLarge(line)'
    BY <2>1, <2>2, <1>z, <1>0, <1>c DEF TooLarge
  <2> QED
    BY <2>1, <2>6, <2>7
<1>5. CASE Rename
  <2>1. call' = "rename"
    BY <1>5, RenameEffect
  <2> QED
    BY <2>1, <1>5, <1>a, EmptyRename
<1>6. CASE RenameDone
  <2>1. /\ call = "rename" /\ i = 0 /\ call' = "reopen" /\ disk' = disk /\ buffer' = buffer
        /\ line' = line /\ File(0)' = File(0)
    BY <1>6 DEF RenameDone, At, File
  <2>2. Hole' = Hole
    BY <2>1, <1>0 DEF Hole
  <2>3. Newest' = Newest
    BY <2>1 DEF Newest
  <2>4. TooLarge(Newest) => TooLarge(Newest)'
    BY <2>3, <1>0 DEF TooLarge
  <2> QED
    BY <2>1, <2>2, <2>4, <1>d
<1>7. CASE Reopen
  <2>1. Open /\ call = "reopen" /\ call' = "append" /\ buffer' = buffer /\ line' = line
    BY <1>7, <1>b DEF Reopen, At
  <2>2. /\ buffer = <<>> /\ File(0)' = File(0)
        /\ \A k \in 1 .. m_max_files : disk'[k] = disk[k] /\ File(k)' = File(k)
    BY <2>1, <1>0, FileFacts, SetFile DEF Open, TypeInv, StreamOK
  <2>3. ASSUME NEW k \in 1 .. m_max_files, disk'[k] = <<>> PROVE FollowedByTooLarge(k)'
    <3>1. Hole = {0} /\ Hole' = {} /\ File(0) = <<>>
      <4>1. Hole = {0} /\ Hole' = {}
        BY <2>1, <2>3, <1>0 DEF Hole
      <4> QED
        BY <4>1, <1>a DEF FaultFreeInv, File
    <3>2. FollowedByTooLarge(k)
      BY <2>2, <2>3, <1>c
    <3>3. CASE k = 1
      <4>1. TooLarge(line)
        BY <3>1, <3>2, <3>3 DEF FollowedByTooLarge
      <4>2. Newer(k - 1)' = Newest'
        BY <3>3 DEF Newer
      <4>3. Newest' = <<>> \o <<>> \o line
        BY <2>1, <2>2, <3>1 DEF Newest
      <4>4. Newest' = line
        BY <4>3, <1>z
      <4>5. TooLarge(Newer(k - 1))'
        BY <4>1, <4>2, <4>4, <1>0 DEF TooLarge
      <4> QED
        BY <4>5, <3>1 DEF FollowedByTooLarge
    <3>4. CASE k # 1
      <4>1. k - 1 \in 1 .. m_max_files /\ k - 1 \notin Hole /\ k - 1 # 0
        BY <3>1, <3>4, <1>0
      <4>2. TooLarge(Newer(k - 1))
        BY <4>1, <3>2 DEF FollowedByTooLarge
      <4>3. Newer(k - 1)' = Newer(k - 1)
        BY <4>1, <2>2 DEF Newer
      <4>4. TooLarge(Newer(k - 1))'
        BY <4>2, <4>3, <1>0 DEF TooLarge
      <4> QED
        BY <4>4, <3>1 DEF FollowedByTooLarge
    <3> QED
      BY <3>3, <3>4
  <2> QED
    BY <2>1, <2>3
<1>8. CASE AppendLine
  <2>1. /\ call = "append" /\ call' = "idle" /\ stream
        /\ \A k \in 1 .. m_max_files : disk'[k] = disk[k]
        /\ \/ buffer' = buffer \o line /\ File(0)' = File(0)
           \/ buffer' = <<>> /\ File(0)' = File(0) \o buffer \o line
    <3>1. call = "append"
      BY <1>8, AppendEffect
    <3>2. stream
      BY <3>1, <1>a DEF FaultFreeInv
    <3> QED
      BY <3>2, <1>8, AppendEffect
  <2>2. Hole = {} /\ Hole' = {}
    BY <2>1 DEF Hole
  <2>3. Newest' = Newest
    <3>1. Newest = File(0) \o buffer \o line
      BY <2>1 DEF Newest
    <3>2. CASE buffer' = buffer \o line /\ File(0)' = File(0)
      <4>1. Newest' = File(0) \o (buffer \o line) \o <<>>
        BY <3>2, <2>1 DEF Newest
      <4>2. File(0) \o (buffer \o line) = File(0) \o buffer \o line
        BY <1>z
      <4>3. File(0) \o buffer \o line \in Seq(Line)
        BY <1>z, IdsOfConcat
      <4> QED
        BY <3>1, <4>1, <4>2, <4>3
    <3>3. CASE buffer' = <<>> /\ File(0)' = File(0) \o buffer \o line
      <4>1. Newest' = Newest \o <<>> \o <<>>
        BY <3>1, <3>3, <2>1 DEF Newest
      <4>2. Newest \in Seq(Line)
        BY <3>1, <1>z, IdsOfConcat
      <4> QED
        BY <4>1, <4>2
    <3> QED
      BY <3>2, <3>3, <2>1
  <2>4. TooLarge(Newest) => TooLarge(Newest)'
    BY <2>3, <1>0 DEF TooLarge
  <2> QED
    BY <2>1, <2>2, <2>4, <1>d
<1>9. CASE Flush
  <2>1. call = "idle" /\ call' = "idle" /\ Spill /\ line' = line
    BY <1>9 DEF Flush
  <2>2. /\ \A k \in 1 .. m_max_files : disk'[k] = disk[k]
        /\ File(0)' = File(0) \o buffer /\ buffer' = <<>>
    BY <2>1, <1>0, SpillEffect DEF TypeInv
  <2>3. Hole = {} /\ Hole' = {}
    BY <2>1 DEF Hole
  <2>4. Newest' = Newest
    <3>1. File(0) \o buffer \in Seq(Line)
      BY <1>z, IdsOfConcat
    <3>2. Newest = (File(0) \o buffer) \o <<>> /\ Newest' = (File(0) \o buffer) \o <<>> \o <<>>
      BY <2>1, <2>2 DEF Newest
    <3> QED
      BY <3>1, <3>2
  <2>5. TooLarge(Newest) => TooLarge(Newest)'
    BY <2>4, <1>0 DEF TooLarge
  <2> QED
    BY <2>1, <2>2, <2>3, <2>5, <1>d
<1> QED
  BY <1>b, <1>1, <1>2, <1>3, <1>4, <1>5, <1>6, <1>7, <1>8, <1>9
     DEF Next, Step, WriteThrows, RenameThrows, Destroy, Crash
-----------------------------------------------------------------------------
(* Theorems *)

IInv ==
  /\ TypeInv /\ OrderInv /\ GoneInv
  /\ FaultFreeInv /\ SizeInv /\ BackupInv /\ EmptyInv

LEMMA RotationInvariant == Spec => []IInv
<1>1. Init => IInv
  BY TypeInit, OrderInit, GoneInit, FaultFreeInit, SizeInit, BackupInit,
     EmptyInit DEF IInv
<1>2. IInv /\ [Next]_vars => IInv'
  BY TypeStep, OrderStep, GoneStep, FaultFreeStep, SizeStep, BackupStep,
     EmptyStep DEF IInv
<1> QED
  BY <1>1, <1>2, PTL DEF Spec

\* The variables keep their types: the loop of rotate stays within the numbers
\* of the backups, and the stream never holds back more than its buffer.
THEOREM RotationTypeCorrect == Spec => []RotTypeOK
<1>1. IInv => RotTypeOK
  BY TypeInvImplies DEF IInv
<1> QED
  BY <1>1, RotationInvariant, PTL

\* Whatever rename, reopen or check failed, a check in the middle of a rotation
\* included, and wherever the process crashed and came back, the files read from the oldest backup to the live one are the log
\* in the order of the writes, without a repetition.
THEOREM FilesStayInOrder == Spec => []OrderAcrossFiles
<1>1. IInv => OrderAcrossFiles
  BY RetainedInOrder DEF IInv, OrderAcrossFiles, Sorted
<1> QED
  BY <1>1, RotationInvariant, PTL

\* Unless a rename failed, what a rotation gives up is older than all it keeps,
\* also when it takes up where an exception left another one half done, and without a fault it gives up nothing before every backup is in use.
THEOREM OldestAreGivenUp == Spec => []OldestGoFirst
<1>1. ASSUME IInv PROVE OldestGoFirst
  <2>1. Lost = Gone /\ Ids(Retained) = AllKept
    BY <1>1, RetainedInOrder DEF IInv, Lost, Gone
  <2>2. ~renameFailed => \A lost \in Gone \ dropped : \A kept \in AllKept : lost < kept
    BY <1>1 DEF IInv, GoneInv, Before
  <2>3. faults = 0 /\ call = "idle" /\ Gone # {} =>
          m_max_files > 0 /\ \A k \in 1 .. m_max_files : disk[k] # NoFile
    BY <1>1 DEF IInv, FaultFreeInv, Hole
  <2> QED
    BY <2>1, <2>2, <2>3 DEF OldestGoFirst
<1> QED
  BY <1>1, RotationInvariant, PTL

\* Without a fault the live file outgrows max_file_size by less than what the
\* stream can hold back, unless it is one record that is too large by itself.
THEOREM LiveFileBounded == Spec => []SizeBound
<1>1. ASSUME IInv, faults = 0, m_max_files > 0, call = "idle"
      PROVE  LET live == File(0) \o buffer IN
             Len(live) <= 1 \/ Bytes(live) < m_max_file_size + BufferSize
  <2>1. File(0) \in Seq(Line) /\ buffer \in Seq(Line)
    BY <1>1, FileFacts DEF IInv, TypeInv, StreamOK
  <2>2. Len(File(0) \o buffer) = Len(File(0)) + Len(buffer)
    BY <2>1
  <2>3. Bytes(File(0) \o buffer) = Bytes(File(0)) + Bytes(buffer)
    BY <2>1, BytesOfConcat
  <2> QED
    BY <1>1, <2>2, <2>3 DEF IInv, SizeInv
<1>2. IInv => SizeBound
  BY <1>1 DEF SizeBound
<1> QED
  BY <1>2, RotationInvariant, PTL

\* A backup is an empty file only where a record as large as max_file_size came:
\* if there is none, no backup is empty, and without a fault one that is empty is
\* followed by that record.
THEOREM EmptyBackupsHaveAReason == Spec => []EmptyBackupsExplained
<1>1. ASSUME IInv, faults = 0, call = "idle", NEW k \in 1 .. m_max_files, disk[k] = <<>>
      PROVE  TooLarge(File(k - 1) \o IF k = 1 THEN buffer ELSE <<>>)
  <2>1. /\ File(0) \in Seq(Line) /\ buffer \in Seq(Line)
        /\ m_max_files \in Nat /\ \A j \in 0 .. m_max_files : File(j) \in Seq(Line)
    BY <1>1, FileFacts DEF IInv, TypeInv, StreamOK
  <2>2. FollowedByTooLarge(k) /\ Hole = {}
    BY <1>1 DEF IInv, EmptyInv, Hole
  <2>3. TooLarge(Newer(k - 1)) /\ k - 1 \in 0 .. m_max_files
    BY <2>1, <2>2 DEF FollowedByTooLarge
  <2>4. CASE k = 1
    <3>1. Newer(k - 1) = (File(0) \o buffer) \o <<>>
      BY <2>4, <1>1 DEF Newer, Newest
    <3>2. File(0) \o buffer \in Seq(Line)
      BY <2>1, IdsOfConcat
    <3>3. Newer(k - 1) = File(k - 1) \o buffer
      BY <3>1, <3>2, <2>4
    <3> QED
      BY <3>3, <2>3, <2>4
  <2>5. CASE k # 1
    <3>1. Newer(k - 1) = File(k - 1)
      BY <2>5, <2>3 DEF Newer
    <3>2. File(k - 1) \o <<>> = File(k - 1)
      BY <2>1, <2>3
    <3> QED
      BY <3>1, <3>2, <2>3, <2>5
  <2> QED
    BY <2>4, <2>5
<1>2. IInv => EmptyBackupsExplained
  BY <1>1 DEF IInv, BackupInv, EmptyBackupsExplained
<1> QED
  BY <1>2, RotationInvariant, PTL
=============================================================================
