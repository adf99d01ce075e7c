---------------------------- MODULE StartupProofs ----------------------------
(***************************************************************************)
(* A file of any length is read as the table of keys promises, and a       *)
(* logger is built as the file asks or not at all, for any files, patterns *)
(* and paths.                                                              *)
(***************************************************************************)
EXTENDS Startup, FormatterProofs

Words(T) == [text : T, upper : BOOLEAN, pad : SUBSET {"left", "right"}]

Fields == {"mode", "level", "colored_output", "flush_on_error", "pattern", "enable_console",
           "enable_file", "file_path", "rotation_enabled", "max_file_size", "max_file",
           "queue_capacity", "overflowPolicy", "flush_interval_ms"}

Tabled == Fields \ {"pattern", "file_path"}

LEMMA FieldNames ==
  /\ DOMAIN DefaultConfig = Fields
  /\ DOMAIN Parser = Tabled
  /\ \A key \in DOMAIN KeyField : KeyField[key] \in Fields
  /\ \A key \in DOMAIN KeyField : KeyField[key] = "pattern" => key = "pattern"
<1>1. DOMAIN DefaultConfig = Fields
  BY DEF DefaultConfig, Fields
<1>2. DOMAIN Parser = Tabled
  BY DEF Parser, Tabled, Fields
<1>3. \A key \in DOMAIN KeyField : KeyField[key] \in Fields
  BY DEF KeyField, Fields
<1>4. \A key \in DOMAIN KeyField : KeyField[key] = "pattern" => key = "pattern"
  BY DEF KeyField
<1> QED
  BY <1>1, <1>2, <1>3, <1>4
-----------------------------------------------------------------------------
(* trim, lower and Lookup *)

\* White space on one side of a word, or all there is of an empty one, goes.
Cut(w, end) == [w EXCEPT !.pad = IF Len(w.text) = 0 THEN {} ELSE @ \ {end}]

LEMMA CutIs ==
  ASSUME NEW T, NEW w \in Words(T), NEW end
  PROVE  /\ Cut(w, end) \in Words(T)
         /\ Cut(w, end).text = w.text /\ Cut(w, end).upper = w.upper
         /\ Cut(w, end).pad \subseteq w.pad /\ end \notin Cut(w, end).pad
<1> DEFINE pad == IF Len(w.text) = 0 THEN {} ELSE w.pad \ {end}
<1>1. pad \subseteq w.pad /\ end \notin pad
  OBVIOUS
<1>2. Cut(w, end) = [w EXCEPT !.pad = pad]
  BY DEF Cut, Words
<1> HIDE DEF pad
<1>3. /\ [w EXCEPT !.pad = pad] \in Words(T)
      /\ [w EXCEPT !.pad = pad].text = w.text /\ [w EXCEPT !.pad = pad].upper = w.upper
      /\ [w EXCEPT !.pad = pad].pad = pad
  BY <1>1 DEF Words
<1> QED
  BY <1>1, <1>2, <1>3

\* trim takes the outer white space, changes no text and adds nothing.
LEMMA TrimIs ==
  ASSUME NEW T, NEW s \in Seq(Words(T))
  PROVE  /\ trim(s) \in Seq(Words(T)) /\ Len(trim(s)) = Len(s)
         /\ \A n \in 1 .. Len(s) :
              /\ trim(s)[n].text = s[n].text /\ trim(s)[n].upper = s[n].upper
              /\ trim(s)[n].pad \subseteq s[n].pad
              /\ n = 1 => "left" \notin trim(s)[n].pad
              /\ n = Len(s) => "right" \notin trim(s)[n].pad
<1>1. CASE s = <<>>
  BY <1>1 DEF trim
<1>2. CASE s # <<>>
  <2>1. /\ Len(s) \in Nat /\ 1 \in 1 .. Len(s) /\ Len(s) \in 1 .. Len(s)
        /\ \A n \in 1 .. Len(s) : s[n] \in Words(T)
    BY <1>2
  <2> DEFINE first == Cut(s[1], "left")
             start == [s EXCEPT ![1] = first]
             last == Cut(start[Len(s)], "right")
             both == [start EXCEPT ![Len(s)] = last]
  <2>2. trim(s) = both
    BY <1>2 DEF trim, Cut
  <2>3. /\ first \in Words(T) /\ first.text = s[1].text /\ first.upper = s[1].upper
        /\ first.pad \subseteq s[1].pad /\ "left" \notin first.pad
    BY <2>1, CutIs
  <2> HIDE DEF first
  <2>4. /\ start \in Seq(Words(T)) /\ Len(start) = Len(s)
        /\ \A n \in 1 .. Len(s) : start[n] = IF n = 1 THEN first ELSE s[n]
    BY <2>1, <2>3, ExceptSeq
  <2> HIDE DEF start
  <2>5. start[Len(s)] \in Words(T)
    BY <2>1, <2>4
  <2>6. /\ last \in Words(T) /\ last.text = start[Len(s)].text /\ last.upper = start[Len(s)].upper
        /\ last.pad \subseteq start[Len(s)].pad /\ "right" \notin last.pad
    BY <2>5, CutIs
  <2> HIDE DEF last
  <2>7. /\ both \in Seq(Words(T)) /\ Len(both) = Len(s)
        /\ \A n \in 1 .. Len(s) : both[n] = IF n = Len(s) THEN last ELSE start[n]
    BY <2>1, <2>4, <2>6, ExceptSeq
  <2> HIDE DEF both
  <2>8. ASSUME NEW n \in 1 .. Len(s)
        PROVE  /\ both[n].text = s[n].text /\ both[n].upper = s[n].upper
               /\ both[n].pad \subseteq s[n].pad
               /\ n = 1 => "left" \notin both[n].pad
               /\ n = Len(s) => "right" \notin both[n].pad
    <3>1. /\ start[n].text = s[n].text /\ start[n].upper = s[n].upper
          /\ start[n].pad \subseteq s[n].pad
          /\ n = 1 => "left" \notin start[n].pad
      BY <2>3, <2>4
    <3>2. CASE n = Len(s)
      BY <3>1, <3>2, <2>6, <2>7
    <3>3. CASE n # Len(s)
      BY <3>1, <3>3, <2>7
    <3> QED
      BY <3>2, <3>3
  <2> QED
    BY <2>2, <2>7, <2>8
<1> QED
  BY <1>1, <1>2

LEMMA NoCapitals ==
  ASSUME NEW T, NEW w \in Words(T)
  PROVE  [w EXCEPT !.upper = FALSE] = [text |-> w.text, upper |-> FALSE, pad |-> w.pad]
<1>1. PICK a, b, p : w = [text |-> a, upper |-> b, pad |-> p]
  <2>1. w = [text |-> w.text, upper |-> w.upper, pad |-> w.pad]
    BY DEF Words
  <2> QED
    BY <2>1
<1>2. w.text = a /\ w.pad = p
  BY <1>1
<1>3. \A c : [[text |-> a, upper |-> b, pad |-> p] EXCEPT !.upper = c] = [text |-> a, upper |-> c, pad |-> p]
  OBVIOUS
<1> QED
  BY <1>1, <1>2, <1>3, Zenon

\* A string of words equals a word of a table when it is that one word.
LEMMA IsWord ==
  ASSUME NEW T, NEW s \in Seq(Words(T)), NEW t
  PROVE  lower(trim(s)) = <<Word(t)>> <=> Len(s) = 1 /\ s[1].text = t
<1> DEFINE r == trim(s)
           l == lower(r)
<1>1. /\ r \in Seq(Words(T)) /\ Len(r) = Len(s) /\ Len(s) \in Nat
      /\ Len(s) = 1 => r[1].text = s[1].text /\ r[1].pad = {} /\ r[1] \in Words(T)
  <2>1. r \in Seq(Words(T)) /\ Len(r) = Len(s) /\ Len(s) \in Nat
    BY TrimIs
  <2>2. ASSUME Len(s) = 1 PROVE r[1].text = s[1].text /\ r[1].pad = {} /\ r[1] \in Words(T)
    <3>1. 1 \in 1 .. Len(s) /\ s[1] \in Words(T)
      BY <2>2
    <3>2. /\ r[1].text = s[1].text /\ r[1] \in Words(T)
          /\ "left" \notin r[1].pad /\ "right" \notin r[1].pad
      BY <3>1, <2>1, <2>2, TrimIs
    <3>3. r[1].pad \subseteq {"left", "right"}
      BY <3>2 DEF Words
    <3> QED
      BY <3>2, <3>3
  <2> QED
    BY <2>1, <2>2
<1> HIDE DEF r
<1>2. l = [i \in 1 .. Len(s) |-> [r[i] EXCEPT !.upper = FALSE]]
  BY <1>1 DEF lower
<1>3. ASSUME l = <<Word(t)>> PROVE Len(s) = 1 /\ s[1].text = t
  <2>1. DOMAIN l = 1 .. Len(s) /\ DOMAIN <<Word(t)>> = 1 .. 1
    BY <1>2
  <2> HIDE DEF l
  <2>2. 1 .. Len(s) = 1 .. 1
    BY <2>1, <1>3
  <2>3. Len(s) = 1
    BY <2>2, <1>1
  <2>4. l[1] = [r[1] EXCEPT !.upper = FALSE]
    BY <2>3, <1>2
  <2>5. [r[1] EXCEPT !.upper = FALSE].text = r[1].text
    BY <2>3, <1>1 DEF Words
  <2>6. l[1] = Word(t) /\ Word(t).text = t
    BY <1>3 DEF Word
  <2> QED
    BY <2>3, <2>4, <2>5, <2>6, <1>1
<1>4. ASSUME Len(s) = 1, s[1].text = t PROVE l = <<Word(t)>>
  <2>1. [r[1] EXCEPT !.upper = FALSE] = Word(t)
    <3> DEFINE w == r[1]
    <3>1. w \in Words(T) /\ w.text = t /\ w.pad = {}
      BY <1>1, <1>4
    <3> HIDE DEF w
    <3>2. [w EXCEPT !.upper = FALSE] = [text |-> w.text, upper |-> FALSE, pad |-> w.pad]
      BY <3>1, NoCapitals
    <3>3. [w EXCEPT !.upper = FALSE] = Word(t)
      BY <3>1, <3>2 DEF Word
    <3> QED
      BY <3>3 DEF w
  <2>2. l = [i \in 1 .. 1 |-> Word(t)]
    BY <1>2, <1>4, <2>1
  <2> DEFINE w == Word(t)
  <2>3. [i \in 1 .. 1 |-> w] = <<w>>
    <3> HIDE DEF w
    <3> QED
      OBVIOUS
  <2> QED
    BY <2>2, <2>3
<1> QED
  BY <1>3, <1>4 DEF r

LEMMA LookupIs ==
  ASSUME NEW T, NEW s \in Seq(Words(T)), NEW table
  PROVE  Lookup(table, s) = IF Len(s) = 1 /\ s[1].text \in DOMAIN table
                            THEN {table[s[1].text]} ELSE {}
<1>1. \A t : lower(trim(s)) = <<Word(t)>> <=> Len(s) = 1 /\ s[1].text = t
  BY IsWord
<1> QED
  BY <1>1 DEF Lookup
-----------------------------------------------------------------------------
(* One line *)

TextsOf(line) == {line.words[n].text : n \in 1 .. Len(line.words)}

\* The value of a line that has a key.
ValueOf(line) == trim(Tail(trim(line.words)))

LEMMA LineWords ==
  ASSUME NEW line, IsLine(line)
  PROVE  /\ line.words \in Seq(Words(TextsOf(line))) /\ Len(line.words) \in Nat \ {0}
         /\ trim(line.words) \in Seq(Words(TextsOf(line)))
         /\ Len(trim(line.words)) = Len(line.words)
         /\ <<trim(line.words)[1]>> \in Seq(Words(TextsOf(line)))
         /\ trim(line.words)[1].text = line.words[1].text
         /\ Len(line.words) > 1 =>
              /\ Tail(trim(line.words)) \in Seq(Words(TextsOf(line)))
              /\ ValueOf(line) \in Seq(Words(TextsOf(line)))
              /\ Len(Tail(trim(line.words))) = Len(line.words) - 1
              /\ Len(ValueOf(line)) = Len(line.words) - 1
              /\ \A n \in 1 .. Len(line.words) - 1 :
                   /\ Tail(trim(line.words))[n].text = line.words[n + 1].text
                   /\ ValueOf(line)[n].text = line.words[n + 1].text
<1> DEFINE words == line.words
           T == TextsOf(line)
           stripped == trim(words)
           tail == Tail(stripped)
<1>1. Len(words) \in Nat \ {0} /\ words = [n \in 1 .. Len(words) |-> words[n]]
  BY DEF IsLine, IsSequence
<1>2. ASSUME NEW n \in 1 .. Len(words) PROVE words[n] \in Words(T)
  <2> DEFINE w == words[n]
  <2>1. /\ w = [text |-> w.text, upper |-> w.upper, pad |-> w.pad]
        /\ w.upper \in BOOLEAN /\ w.pad \subseteq {"left", "right"}
    BY DEF IsLine
  <2>2. w.text \in T
    BY DEF TextsOf
  <2> HIDE DEF w, T
  <2>3. w \in Words(T)
    BY <2>1, <2>2 DEF Words
  <2> QED
    BY <2>3 DEF w
<1>3. words \in Seq(Words(T))
  <2>1. words \in [1 .. Len(words) -> Words(T)]
    <3> HIDE DEF words, T
    <3> QED
      BY <1>1, <1>2
  <2> HIDE DEF words, T
  <2> QED
    BY <1>1, <2>1, SeqDef
<1> HIDE DEF words, T
<1>4. /\ stripped \in Seq(Words(T)) /\ Len(stripped) = Len(words)
      /\ \A n \in 1 .. Len(words) : stripped[n].text = words[n].text
  BY <1>3, TrimIs
<1> HIDE DEF stripped
<1>5. <<stripped[1]>> \in Seq(Words(T)) /\ stripped[1].text = words[1].text
  BY <1>1, <1>4
<1>6. ASSUME Len(words) > 1
      PROVE  /\ tail \in Seq(Words(T)) /\ trim(tail) \in Seq(Words(T))
             /\ Len(tail) = Len(words) - 1 /\ Len(trim(tail)) = Len(words) - 1
             /\ \A n \in 1 .. Len(words) - 1 :
                  tail[n].text = words[n + 1].text /\ trim(tail)[n].text = words[n + 1].text
  <2>1. stripped # <<>>
    BY <1>1, <1>4
  <2>2. /\ tail \in Seq(Words(T)) /\ Len(tail) = Len(words) - 1
        /\ \A n \in 1 .. Len(tail) : tail[n] = stripped[n + 1]
    BY <1>4, <2>1, HeadTailProperties
  <2> HIDE DEF tail
  <2>3. /\ trim(tail) \in Seq(Words(T)) /\ Len(trim(tail)) = Len(tail)
        /\ \A n \in 1 .. Len(tail) : trim(tail)[n].text = tail[n].text
    BY <2>2, TrimIs
  <2>4. \A n \in 1 .. Len(words) - 1 : n + 1 \in 1 .. Len(words)
    BY <1>1
  <2> QED
    BY <2>2, <2>3, <2>4, <1>4
<1> QED
  BY <1>1, <1>3, <1>4, <1>5, <1>6 DEF words, T, stripped, tail, ValueOf

\* A line gives a member the value the table of keys promises, or leaves it.
LEMMA ParsedLine ==
  ASSUME NEW line, IsLine(line), NEW c, DOMAIN c = Fields
  PROVE  /\ DOMAIN parse_line(c, line) = Fields
         /\ \A f \in Fields : \/ Given(f, line) = {} /\ parse_line(c, line)[f] = c[f]
                              \/ Given(f, line) = {parse_line(c, line)[f]}
<1> DEFINE stripped == trim(line.words)
           tail == Tail(stripped)
           value == ValueOf(line)
           key == line.words[1].text
           d == parse_line(c, line)
<1>1. CASE line.hash \/ Len(line.words) < 2
  <2>1. d = c
    BY <1>1, LineWords DEF parse_line
  <2>2. line.hash \/ Len(line.words) = 1
    <3>1. Len(line.words) < 2 => Len(line.words) = 1
      <4>1. Len(line.words) \in Nat \ {0}
        BY LineWords
      <4>2. \A n \in Nat \ {0} : n < 2 => n = 1
        OBVIOUS
      <4> QED
        BY <4>1, <4>2, Zenon
    <3> QED
      BY <1>1, <3>1, Zenon
  <2>3. \A f \in Fields : Given(f, line) = {}
    BY <2>2 DEF Given
  <2> QED
    BY <2>1, <2>3
<1>2. CASE ~line.hash /\ Len(line.words) > 1
  <2>1. /\ Len(stripped) = Len(line.words) /\ Len(line.words) \in Nat \ {0}
        /\ <<stripped[1]>> \in Seq(Words(TextsOf(line))) /\ stripped[1].text = key
        /\ tail \in Seq(Words(TextsOf(line)))
        /\ Len(tail) = Len(line.words) - 1 /\ Len(value) = Len(line.words) - 1
        /\ \A n \in 1 .. Len(line.words) - 1 : tail[n].text = value[n].text
    BY <1>2, LineWords
  <2>2. d = apply(c, <<stripped[1]>>, tail)
    BY <1>2, <2>1 DEF parse_line
  <2> DEFINE fields == Lookup(KeyField, <<stripped[1]>>)
  <2>3. fields = IF key \in DOMAIN KeyField THEN {KeyField[key]} ELSE {}
    <3> DEFINE s == <<stripped[1]>>
    <3>1. s \in Seq(Words(TextsOf(line))) /\ Len(s) = 1 /\ s[1].text = key
      BY <2>1
    <3> HIDE DEF s, key
    <3>2. Lookup(KeyField, s) = IF key \in DOMAIN KeyField THEN {KeyField[key]} ELSE {}
      BY <3>1, LookupIs
    <3> QED
      BY <3>2 DEF s
  <2>4. ASSUME NEW f
        PROVE  Lookup(Parser[f], tail)
                 = IF Len(value) = 1 /\ value[1].text \in DOMAIN Parser[f]
                   THEN {Parser[f][value[1].text]} ELSE {}
    <3>1. Lookup(Parser[f], tail)
            = IF Len(tail) = 1 /\ tail[1].text \in DOMAIN Parser[f]
              THEN {Parser[f][tail[1].text]} ELSE {}
      BY <2>1, LookupIs
    <3>2. Len(tail) = Len(value) /\ (Len(tail) = 1 => tail[1].text = value[1].text)
      <4>1. Len(tail) = Len(value) /\ Len(tail) = Len(line.words) - 1
        BY <2>1
      <4>2. \A n \in 1 .. Len(tail) : tail[n].text = value[n].text
        BY <2>1
      <4> HIDE DEF tail, value
      <4>3. Len(tail) = 1 => 1 \in 1 .. Len(tail)
        OBVIOUS
      <4> QED
        BY <4>1, <4>2, <4>3
    <3> HIDE DEF tail, value
    <3> QED
      BY <3>1, <3>2
  <2>5. trim(tail) = value
    BY DEF ValueOf
  <2> HIDE DEF fields
  <2>6. d = [f \in Fields |->
               IF f \notin fields THEN c[f]
               ELSE IF f \in {"pattern", "file_path"} THEN value
               ELSE IF Lookup(Parser[f], tail) = {} THEN c[f]
               ELSE CHOOSE v \in Lookup(Parser[f], tail) : TRUE]
    BY <2>2, <2>5 DEF apply, fields
  <2> HIDE DEF d, tail, value
  <2>7. ASSUME NEW f \in Fields
        PROVE  Given(f, line) =
                 IF f \notin fields THEN {}
                 ELSE IF f \in {"pattern", "file_path"} THEN {value}
                 ELSE IF Len(value) = 1 /\ value[1].text \in DOMAIN Parser[f]
                 THEN {Parser[f][value[1].text]} ELSE {}
    <3>1. (\E k \in DOMAIN KeyField : KeyField[k] = f /\ key = k) <=> f \in fields
      BY <2>3
    <3>2. ~(line.hash \/ Len(line.words) = 1)
      <4>1. Len(line.words) # 1
        <5>1. \A n \in Nat \ {0} : n > 1 => n # 1
          OBVIOUS
        <5> QED
          BY <5>1, <1>2, <2>1, Zenon
      <4> QED
        BY <1>2, <4>1, Zenon
    <3> HIDE DEF key
    <3> QED
      BY <3>1, <3>2 DEF Given, value, ValueOf, key
  <2>8. ASSUME NEW f \in Fields
        PROVE  \/ Given(f, line) = {} /\ d[f] = c[f]
               \/ Given(f, line) = {d[f]}
    <3>1. CASE f \notin fields
      BY <3>1, <2>6, <2>7
    <3>2. CASE f \in fields /\ f \in {"pattern", "file_path"}
      <4>1. d[f] = value
        BY <3>2, <2>6
      <4>2. Given(f, line) = {value}
        BY <3>2, <2>7
      <4> QED
        BY <4>1, <4>2
    <3>3. CASE f \in fields /\ f \notin {"pattern", "file_path"}
      <4>1. Given(f, line) = Lookup(Parser[f], tail)
        BY <3>3, <2>4, <2>7
      <4>2. d[f] = IF Given(f, line) = {} THEN c[f] ELSE CHOOSE v \in Given(f, line) : TRUE
        BY <3>3, <2>6, <4>1
      <4>3. Given(f, line) = {} \/ \E v : Given(f, line) = {v}
        BY <3>3, <2>7
      <4> QED
        BY <4>2, <4>3
    <3> QED
      BY <3>1, <3>2, <3>3
  <2>9. DOMAIN d = Fields
    BY <2>6
  <2> QED
    BY <2>8, <2>9 DEF d
<1> QED
  BY <1>1, <1>2, LineWords
-----------------------------------------------------------------------------
(* Values *)

\* The characters a pattern can have: those of files and of the default.
PatternChar == Char \cup ToSet(kDefaultPattern) \cup {"=", " "}

IsPattern(s) == s \in Seq(Words(Seq(PatternChar))) /\ Len(s) \in Nat \ {0}

\* What a line gives a member is of the member's table, or a pattern.
LEMMA GivenValue ==
  ASSUME NEW line, IsLine(line), NEW f \in Fields, NEW v, Given(f, line) = {v}
  PROVE  /\ f \in Tabled => v \in Range(Parser[f])
         /\ f = "pattern" => IsPattern(v)
<1>1. /\ Len(line.words) \in Nat \ {0} /\ Len(line.words) # 1
      /\ \E key \in DOMAIN KeyField : KeyField[key] = f /\ line.words[1].text = key
  <2>1. Len(line.words) \in Nat \ {0}
    BY LineWords
  <2>2. ~(line.hash \/ Len(line.words) = 1
            \/ ~\E key \in DOMAIN KeyField : KeyField[key] = f /\ line.words[1].text = key)
    BY DEF Given
  <2> QED
    BY <2>1, <2>2, Zenon
<1>2. /\ f \in {"pattern", "file_path"} => v = ValueOf(line)
      /\ f \notin {"pattern", "file_path"} =>
           \E t \in DOMAIN Parser[f] : v = Parser[f][t]
  <2> DEFINE value == ValueOf(line)
             given == IF f \in {"pattern", "file_path"} THEN {value}
                      ELSE IF Len(value) = 1 /\ value[1].text \in DOMAIN Parser[f]
                      THEN {Parser[f][value[1].text]} ELSE {}
  <2>1. Given(f, line) = given
    <3>1. ~(line.hash \/ Len(line.words) = 1
              \/ ~\E key \in DOMAIN KeyField : KeyField[key] = f /\ line.words[1].text = key)
      BY DEF Given
    <3> QED
      BY <3>1 DEF Given, ValueOf
  <2> HIDE DEF value
  <2>2. given = {v}
    BY <2>1
  <2> QED
    BY <2>2 DEF value
<1>3. ASSUME f \in Tabled PROVE v \in Range(Parser[f])
  BY <1>2, <1>3 DEF Tabled, Range
<1>4. ASSUME f = "pattern" PROVE IsPattern(v)
  <2> DEFINE T == TextsOf(line)
             C == Seq(PatternChar)
             value == ValueOf(line)
             words == line.words
  <2>1. v = value /\ words[1].text = "pattern"
    BY <1>1, <1>2, <1>4, FieldNames
  <2>2. Len(words) > 1
    <3>1. \A n \in Nat \ {0} : n # 1 => n > 1
      OBVIOUS
    <3> QED
      BY <3>1, <1>1
  <2>3. /\ value \in Seq(Words(T)) /\ Len(value) = Len(words) - 1
        /\ \A n \in 1 .. Len(words) - 1 : value[n].text = words[n + 1].text
    BY <2>2, LineWords
  <2>4. ASSUME NEW n \in 1 .. Len(words) - 1 PROVE words[n + 1].text \in C
    <3>1. n + 1 \in 1 .. Len(words) /\ n + 1 > 1
      BY <1>1
    <3>2. words[n + 1].text \in Seq(Char)
      BY <2>1, <3>1 DEF IsLine
    <3> QED
      BY <3>2, SeqMonotonic DEF PatternChar
  <2> HIDE DEF value, words, C, T
  <2>5. Len(value) \in Nat \ {0}
    BY <1>1, <2>2, <2>3 DEF words
  <2>6. ASSUME NEW n \in 1 .. Len(value) PROVE value[n] \in Words(C)
    <3>1. value[n] \in Words(T)
      BY <2>3
    <3>2. value[n].text \in C
      BY <2>3, <2>4
    <3> DEFINE w == value[n]
    <3> HIDE DEF w
    <3>3. w \in Words(T) /\ w.text \in C => w \in Words(C)
      BY DEF Words
    <3> QED
      BY <3>1, <3>2, <3>3 DEF w
  <2>7. value \in Seq(Words(C))
    <3>1. value = [n \in 1 .. Len(value) |-> value[n]]
      BY <2>3
    <3>2. value \in [1 .. Len(value) -> Words(C)]
      BY <3>1, <2>6
    <3> QED
      BY <2>5, <3>2, SeqDef
  <2> QED
    BY <2>1, <2>5, <2>7 DEF IsPattern, C
<1> QED
  BY <1>3, <1>4

LEMMA DefaultValues ==
  /\ IsPattern(DefaultConfig.pattern)
  /\ DefaultConfig.level \in 0 .. 6
  /\ \A v \in Range(Parser["level"]) : v \in 0 .. 6
<1>1. DefaultConfig.level \in 0 .. 6
  BY DEF DefaultConfig, Level
<1>2. \A v \in Range(Parser["level"]) : v \in 0 .. 6
  <2>1. Parser["level"] = parse_level
    BY DEF Parser
  <2>2. \A t \in DOMAIN parse_level : parse_level[t] \in 0 .. 6
    BY DEF parse_level, Level
  <2> QED
    BY <2>1, <2>2 DEF Range
<1>3. IsPattern(DefaultConfig.pattern)
  <2> DEFINE w == Word(kDefaultPattern)
  <2>1. DefaultConfig.pattern = <<w>>
    BY DEF DefaultConfig
  <2>2. kDefaultPattern \in Seq(PatternChar)
    <3>1. kDefaultPattern \in Seq(ToSet(kDefaultPattern))
      <4> DEFINE D == {"[", "]", " ", "%", "l", "T", "t", "m", "Y", "-", "d", "H", ":", "M", "S"}
      <4>1. kDefaultPattern \in Seq(D)
        <5> DEFINE a == <<"[">>
                   b == kTimestampPattern
                   c == <<"]", " ", "[", "%", "l", "]", " ", "[", "T", "%", "t", "]", " ", "%", "m">>
        <5>1. a \in Seq(D) /\ c \in Seq(D)
          OBVIOUS
        <5>2. b \in Seq(D)
          BY DEF kTimestampPattern
        <5>3. kDefaultPattern = (a \o b) \o c
          BY DEF kDefaultPattern
        <5> HIDE DEF a, b, c
        <5> QED
          BY <5>1, <5>2, <5>3, ConcatProperties
      <4> DEFINE s == kDefaultPattern
      <4> HIDE DEF s, D
      <4>2. s \in Seq(D) => s \in Seq(ToSet(s))
        <5> SUFFICES ASSUME s \in Seq(D) PROVE s \in Seq(ToSet(s))
          OBVIOUS
        <5>1. Len(s) \in Nat /\ DOMAIN s = 1 .. Len(s) /\ s = [n \in 1 .. Len(s) |-> s[n]]
          OBVIOUS
        <5>2. \A n \in 1 .. Len(s) : s[n] \in ToSet(s)
          BY <5>1 DEF ToSet
        <5>3. s \in [1 .. Len(s) -> ToSet(s)]
          BY <5>1, <5>2
        <5> QED
          BY <5>1, <5>3, SeqDef
      <4> QED
        BY <4>1, <4>2 DEF s
    <3> QED
      BY <3>1, SeqMonotonic DEF PatternChar
  <2>3. w \in Words(Seq(PatternChar))
    BY <2>2 DEF Word, Words
  <2> HIDE DEF w
  <2>4. <<w>> \in Seq(Words(Seq(PatternChar))) /\ Len(<<w>>) = 1
    BY <2>3
  <2> QED
    BY <2>1, <2>4 DEF IsPattern
<1> QED
  BY <1>1, <1>2, <1>3

Side(w, end) == IF end \in w.pad THEN <<" ">> ELSE <<>>
Spelt(w)     == Side(w, "left") \o w.text \o Side(w, "right")

JoinedTo(s) ==
  CHOOSE joined : joined =
    [n \in 1 .. Len(s) |-> IF n = 1 THEN Spelt(s[1]) ELSE joined[n - 1] \o <<"=">> \o Spelt(s[n])]

\* The characters of a pattern are a sequence of characters.
LEMMA JoinedSeq ==
  ASSUME NEW s, IsPattern(s)
  PROVE  Joined(s) \in Seq(PatternChar)
<1> DEFINE value(f, n) == IF n = 1 THEN Spelt(s[1]) ELSE f[n - 1] \o <<"=">> \o Spelt(s[n])
           P(f, m) == f = [n \in 1 .. m |-> value(f, n)]
           S == {m \in Nat : \E f : P(f, m)}
<1>0. Len(s) \in Nat \ {0} /\ s \in Seq(Words(Seq(PatternChar)))
  BY DEF IsPattern
<1>1. 0 \in S
  <2> DEFINE f == [n \in 1 .. 0 |-> 0]
  <2>1. P(f, 0)
    OBVIOUS
  <2> QED
    BY <2>1
<1>2. ASSUME NEW m \in Nat, m \in S PROVE m + 1 \in S
  <2>1. PICK f : P(f, m)
    BY <1>2
  <2> DEFINE g == [n \in 1 .. m + 1 |-> IF n = m + 1 THEN value(f, m + 1) ELSE f[n]]
  <2>2. \A n \in 1 .. m : f[n] = value(f, n)
    BY <2>1
  <2>3. ASSUME NEW n \in 1 .. m + 1 PROVE g[n] = value(g, n)
    <3>1. n = 1 \/ (n - 1 \in 1 .. m /\ g[n - 1] = f[n - 1])
      OBVIOUS
    <3>2. value(g, n) = value(f, n)
      BY <3>1
    <3> HIDE DEF value
    <3>3. CASE n = m + 1
      BY <3>2, <3>3
    <3>4. CASE n \in 1 .. m
      BY <3>2, <3>4, <2>2
    <3> QED
      BY <3>3, <3>4
  <2>4. P(g, m + 1)
    <3> HIDE DEF value
    <3> QED
      BY <2>3
  <2> HIDE DEF g, P
  <2> QED
    BY <2>4
<1>3. \E f : P(f, Len(s))
  <2> HIDE DEF P
  <2>1. \A m \in Nat : m \in S
    BY <1>1, <1>2, Induct
  <2> QED
    BY <2>1, <1>0
<1> DEFINE J == JoinedTo(s)
<1>4. P(J, Len(s))
  BY <1>3 DEF JoinedTo
<1>5. Joined(s) = J[Len(s)]
  BY DEF Joined, JoinedTo, Spelt, Side
<1>6. ASSUME NEW n \in 1 .. Len(s) PROVE Spelt(s[n]) \in Seq(PatternChar)
  <2> DEFINE w == s[n]
  <2>1. w.text \in Seq(PatternChar)
    <3>1. w \in Words(Seq(PatternChar))
      BY <1>0
    <3> HIDE DEF w
    <3> QED
      BY <3>1 DEF Words
  <2> HIDE DEF w
  <2>2. " " \in PatternChar
    BY DEF PatternChar
  <2>3. Side(w, "left") \in Seq(PatternChar) /\ Side(w, "right") \in Seq(PatternChar)
    <3>1. <<" ">> \in Seq(PatternChar) /\ <<>> \in Seq(PatternChar)
      <4> DEFINE space == " "
      <4>1. space \in PatternChar
        BY <2>2
      <4> HIDE DEF space
      <4>2. <<space>> \in Seq(PatternChar) /\ <<>> \in Seq(PatternChar)
        BY <4>1
      <4> QED
        BY <4>2 DEF space
    <3> QED
      BY <3>1 DEF Side
  <2>4. Spelt(w) \in Seq(PatternChar)
    BY <2>1, <2>3, ConcatProperties DEF Spelt
  <2> QED
    BY <2>4 DEF w
<1> HIDE DEF J
<1>7. J[1] = Spelt(s[1]) /\ \A n \in 2 .. Len(s) : J[n] = J[n - 1] \o <<"=">> \o Spelt(s[n])
  <2>1. \A n \in 1 .. Len(s) : J[n] = value(J, n)
    <3> HIDE DEF value
    <3> QED
      BY <1>4
  <2>2. 1 \in 1 .. Len(s)
    BY <1>0
  <2>3. J[1] = Spelt(s[1])
    BY <2>1, <2>2
  <2>4. ASSUME NEW n \in 2 .. Len(s) PROVE J[n] = J[n - 1] \o <<"=">> \o Spelt(s[n])
    <3>1. n \in 1 .. Len(s) /\ n # 1
      BY <1>0
    <3> QED
      BY <3>1, <2>1
  <2> QED
    BY <2>3, <2>4
<1> DEFINE Q == {n \in Nat : n + 1 <= Len(s) => J[n + 1] \in Seq(PatternChar)}
<1>8. 0 \in Q
  BY <1>0, <1>6, <1>7
<1>9. ASSUME NEW n \in Nat, n \in Q PROVE n + 1 \in Q
  <2> SUFFICES ASSUME (n + 1) + 1 <= Len(s) PROVE J[(n + 1) + 1] \in Seq(PatternChar)
    OBVIOUS
  <2> DEFINE i == (n + 1) + 1
  <2>1. i \in 2 .. Len(s) /\ i \in 1 .. Len(s) /\ i - 1 = n + 1 /\ n + 1 <= Len(s)
    BY <1>0
  <2>2. J[n + 1] \in Seq(PatternChar)
    BY <1>9, <2>1
  <2>3. <<"=">> \in Seq(PatternChar)
    BY DEF PatternChar
  <2>4. J[i] = J[n + 1] \o <<"=">> \o Spelt(s[i]) /\ Spelt(s[i]) \in Seq(PatternChar)
    BY <2>1, <1>6, <1>7
  <2> DEFINE a == J[n + 1]
             b == <<"=">>
             c == Spelt(s[i])
  <2> HIDE DEF i, a, b, c
  <2>5. a \o b \o c \in Seq(PatternChar)
    BY <2>2, <2>3, <2>4, ConcatProperties DEF a, b, c
  <2> QED
    BY <2>4, <2>5 DEF i, a, b, c
<1>10. \A n \in Nat : n \in Q
  <2> HIDE DEF Q
  <2> QED
    BY <1>8, <1>9, Induct
<1>11. Len(s) - 1 \in Nat /\ (Len(s) - 1) + 1 = Len(s)
  BY <1>0
<1> QED
  BY <1>5, <1>10, <1>11
-----------------------------------------------------------------------------
(* The invariant *)

FileInv ==
  /\ text \in Texts /\ position \in 0 .. Len(text)
  /\ phase \in {"open", "reading", "parsed", "console", "file", "unwind", "alive", "failed"}

\* Every member has its default or a value of its table.
ValueInv ==
  /\ DOMAIN config = Fields
  /\ \A f \in Tabled : config[f] \in Range(Parser[f]) \cup {DefaultConfig[f]}
  /\ IsPattern(config.pattern)

\* Of the lines read so far, the last that gives a member a value has given it
\* the one it has.
LastInv ==
  \A f \in Fields :
    \/ config[f] = DefaultConfig[f] /\ \A n \in 1 .. position : Given(f, text[n]) = {}
    \/ \E n \in 1 .. position :
         /\ Given(f, text[n]) = {config[f]}
         /\ \A m \in n + 1 .. position : Given(f, text[m]) = {}

ConsoleOf(c) == IF c.enable_console THEN <<<<"ConsoleSink", c.colored_output>>>> ELSE <<>>
FileOf(c)    == IF c.enable_file THEN <<<<"FileSink", c.file_path>>>> ELSE <<>>

\* How far the construction is shows in the backend, the tokens and the sinks.
BuiltInv ==
  /\ backend = IF phase \in {"console", "file", "unwind", "alive"}
               THEN (IF config.mode = "Async" THEN "AsyncBackend" ELSE "SyncBackend")
               ELSE "none"
  /\ m_level \in 0 .. 6
  /\ phase = "console" => m_tokens = compile_pattern(Joined(config.pattern))
  /\ m_sinks = CASE phase \in {"file", "unwind"} -> ConsoleOf(config)
                 [] phase = "alive"              -> ConsoleOf(config) \o FileOf(config)
                 [] OTHER                        -> <<>>

\* How far the file is read when the construction begins, and why it may fail.
PlaceInv ==
  /\ phase = "open" => position = 0
  /\ phase \in {"parsed", "console", "file", "unwind", "alive"} => position = Len(text)
  /\ phase \in {"console", "file", "unwind", "alive"} => m_level = config.level
  /\ phase = "unwind" => config.enable_file /\ ~FileSinkOpens
  /\ phase = "alive" => (config.enable_file => FileSinkOpens)
  /\ phase = "failed" => \/ position = 0
                         \/ position = Len(text) /\ config.enable_file /\ ~FileSinkOpens

StartInv == FileInv /\ ValueInv /\ LastInv /\ BuiltInv /\ PlaceInv
-----------------------------------------------------------------------------
(* The steps *)

LEMMA StartInit == Init => StartInv
<1> SUFFICES ASSUME Init PROVE StartInv
  OBVIOUS
<1>1. FileInv
  <2>1. Len(text) \in Nat
    BY StartupAssumption DEF Init, IsSequence
  <2> QED
    BY <2>1 DEF Init, FileInv
<1>2. config = DefaultConfig /\ position = 0
  BY DEF Init
<1>3. ValueInv
  BY <1>2, FieldNames, DefaultValues DEF ValueInv
<1>4. LastInv
  BY <1>2 DEF LastInv
<1>5. BuiltInv
  BY DEF Init, BuiltInv, Level
<1>6. PlaceInv
  BY DEF Init, PlaceInv
<1> QED
  BY <1>1, <1>3, <1>4, <1>5, <1>6 DEF StartInv

LEMMA ReadLineKeeps ==
  ASSUME StartInv, ReadLine
  PROVE  StartInv'
<1> DEFINE n == position + 1
           line == text[n]
<1>1. /\ phase = "reading" /\ position < Len(text) /\ position' = n
      /\ config' = parse_line(config, line)
      /\ UNCHANGED <<text, phase, backend, m_level, m_tokens, m_sinks>>
  BY DEF ReadLine, built
<1>2. /\ text \in Texts /\ position \in 0 .. Len(text) /\ Len(text) \in Nat
      /\ \A m \in 1 .. Len(text) : IsLine(text[m])
  BY StartupAssumption DEF StartInv, FileInv, IsSequence
<1>3. n \in 1 .. Len(text) /\ IsLine(line) /\ position \in Nat
  BY <1>1, <1>2
<1>4. DOMAIN config = Fields
  BY DEF StartInv, ValueInv
<1>5. /\ DOMAIN config' = Fields
      /\ \A f \in Fields : \/ Given(f, line) = {} /\ config'[f] = config[f]
                           \/ Given(f, line) = {config'[f]}
  <2> HIDE DEF line
  <2> QED
    BY <1>1, <1>3, <1>4, ParsedLine
<1>6. \A f \in Fields : \A v : Given(f, line) = {v} =>
        (f \in Tabled => v \in Range(Parser[f])) /\ (f = "pattern" => IsPattern(v))
  <2> HIDE DEF line
  <2> QED
    BY <1>3, GivenValue
<1> HIDE DEF line
<1>7. FileInv'
  BY <1>1, <1>2, <1>3 DEF StartInv, FileInv
<1>8. ValueInv'
  <2>1. \A f \in Tabled : config'[f] \in Range(Parser[f]) \cup {DefaultConfig[f]}
    <3> TAKE f \in Tabled
    <3>1. f \in Fields
      BY DEF Tabled
    <3>2. config[f] \in Range(Parser[f]) \cup {DefaultConfig[f]}
      BY DEF StartInv, ValueInv
    <3> QED
      BY <3>1, <3>2, <1>5, <1>6
  <2>2. IsPattern(config'.pattern)
    <3>1. "pattern" \in Fields /\ IsPattern(config["pattern"])
      BY DEF StartInv, ValueInv, Fields
    <3>2. IsPattern(config'["pattern"])
      BY <3>1, <1>5, <1>6
    <3> QED
      BY <3>2
  <2> QED
    BY <2>1, <2>2, <1>5 DEF ValueInv, IsPattern
<1>9. LastInv'
  <2> DEFINE LastOf(f, c, p) ==
        \/ c = DefaultConfig[f] /\ \A m \in 1 .. p : Given(f, text[m]) = {}
        \/ \E k \in 1 .. p : /\ Given(f, text[k]) = {c}
                             /\ \A m \in k + 1 .. p : Given(f, text[m]) = {}
  <2>1. ASSUME NEW f \in Fields PROVE LastOf(f, config'[f], n)
    <3>1. CASE Given(f, line) = {config'[f]}
      <4>1. n \in 1 .. n /\ \A m \in n + 1 .. n : Given(f, text[m]) = {}
        BY <1>3
      <4> QED
        BY <3>1, <4>1 DEF line
    <3>2. CASE Given(f, line) = {} /\ config'[f] = config[f]
      <4>1. LastOf(f, config[f], position)
        BY DEF StartInv, LastInv
      <4>2. \A k : \A m \in k .. n : m = n \/ m \in k .. position
        BY <1>3
      <4>3. Given(f, text[n]) = {}
        BY <3>2 DEF line
      <4>4. \A k \in 1 .. position : k \in 1 .. n
        BY <1>3
      <4> HIDE DEF n
      <4>5. CASE config[f] = DefaultConfig[f] /\ \A m \in 1 .. position : Given(f, text[m]) = {}
        BY <3>2, <4>2, <4>3, <4>5
      <4>6. CASE \E k \in 1 .. position : /\ Given(f, text[k]) = {config[f]}
                                          /\ \A m \in k + 1 .. position : Given(f, text[m]) = {}
        <5>1. PICK k \in 1 .. position : /\ Given(f, text[k]) = {config[f]}
                                         /\ \A m \in k + 1 .. position : Given(f, text[m]) = {}
          BY <4>6
        <5>2. \A m \in k + 1 .. n : Given(f, text[m]) = {}
          BY <5>1, <4>2, <4>3
        <5>3. k \in 1 .. n /\ Given(f, text[k]) = {config'[f]}
          BY <5>1, <4>4, <3>2
        <5> QED
          BY <5>2, <5>3
      <4> QED
        BY <4>1, <4>5, <4>6
    <3> QED
      BY <3>1, <3>2, <1>5
  <2> QED
    BY <2>1, <1>1 DEF LastInv
<1>10. BuiltInv'
  BY <1>1 DEF StartInv, BuiltInv
<1>11. PlaceInv'
  BY <1>1 DEF PlaceInv
<1> QED
  BY <1>7, <1>8, <1>9, <1>10, <1>11 DEF StartInv

\* The steps that read nothing.
LEMMA BuildKeeps ==
  ASSUME StartInv, UNCHANGED <<text, position, config>>, FileInv', BuiltInv', PlaceInv'
  PROVE  StartInv'
<1>1. text' = text /\ position' = position /\ config' = config
  OBVIOUS
<1>2. ValueInv'
  BY <1>1 DEF StartInv, ValueInv
<1>3. LastInv'
  BY <1>1 DEF StartInv, LastInv
<1> QED
  BY <1>2, <1>3 DEF StartInv

LEMMA StartStep == StartInv /\ [Next]_vars => StartInv'
<1> SUFFICES ASSUME StartInv, [Next]_vars PROVE StartInv'
  OBVIOUS
<1> USE DEF At, built
<1>f. ASSUME UNCHANGED <<text, position>>,
             phase' \in {"open", "reading", "parsed", "console", "file", "unwind", "alive", "failed"}
      PROVE  FileInv'
  BY <1>f DEF StartInv, FileInv
<1>1. CASE OpenFile
  <2>1. BuiltInv'
    BY <1>1 DEF OpenFile, StartInv, BuiltInv
  <2>2. PlaceInv'
    BY <1>1 DEF OpenFile, StartInv, PlaceInv, FileSinkOpens
  <2> QED
    BY <1>f, <1>1, <2>1, <2>2, BuildKeeps DEF OpenFile
<1>2. CASE ReadLine
  BY <1>2, ReadLineKeeps
<1>3. CASE EndOfFile
  <2>1. BuiltInv'
    BY <1>3 DEF EndOfFile, StartInv, BuiltInv
  <2>2. PlaceInv'
    BY <1>3 DEF EndOfFile, StartInv, PlaceInv, FileSinkOpens
  <2> QED
    BY <1>f, <1>3, <2>1, <2>2, BuildKeeps DEF EndOfFile
<1>4. CASE Construct
  <2>1. config.level \in 0 .. 6
    <3>1. "level" \in Tabled
      BY DEF Tabled, Fields
    <3>2. config["level"] \in Range(Parser["level"]) \cup {DefaultConfig["level"]}
      BY <3>1 DEF StartInv, ValueInv
    <3> QED
      BY <3>2, DefaultValues
  <2>2. BuiltInv'
    BY <1>4, <2>1 DEF Construct, StartInv, BuiltInv
  <2>3. PlaceInv'
    BY <1>4 DEF Construct, StartInv, PlaceInv, FileSinkOpens
  <2> QED
    BY <1>f, <1>4, <2>2, <2>3, BuildKeeps DEF Construct
<1>5. CASE AddConsole
  <2>1. m_sinks' = ConsoleOf(config)
    <3>1. m_sinks = <<>>
      BY <1>5 DEF AddConsole, StartInv, BuiltInv
    <3> DEFINE sink == <<"ConsoleSink", config.colored_output>>
    <3>2. Append(<<>>, sink) = <<sink>>
      <4> HIDE DEF sink
      <4> QED
        OBVIOUS
    <3>3. m_sinks' = IF config.enable_console THEN Append(<<>>, sink) ELSE <<>>
      BY <1>5, <3>1 DEF AddConsole
    <3> QED
      BY <3>2, <3>3 DEF ConsoleOf
  <2>2. BuiltInv'
    BY <1>5, <2>1 DEF AddConsole, StartInv, BuiltInv
  <2>3. PlaceInv'
    BY <1>5 DEF AddConsole, StartInv, PlaceInv, FileSinkOpens
  <2> QED
    BY <1>f, <1>5, <2>2, <2>3, BuildKeeps DEF AddConsole
<1>6. CASE AddFile
  <2> DEFINE c == ConsoleOf(config)
             sink == <<"FileSink", config.file_path>>
  <2>1. m_sinks = c /\ phase = "file"
    BY <1>6 DEF AddFile, StartInv, BuiltInv
  <2>2. c \o <<>> = c /\ Append(c, sink) = c \o <<sink>>
    <3>1. c \in Seq({<<"ConsoleSink", config.colored_output>>})
      BY DEF ConsoleOf
    <3> HIDE DEF c
    <3> DEFINE S == {<<"ConsoleSink", config.colored_output>>, sink}
    <3>2. c \in Seq(S)
      BY <3>1, SeqMonotonic
    <3>3. sink \in S
      OBVIOUS
    <3> HIDE DEF S, sink
    <3> QED
      BY <3>2, <3>3
  <2>3. \/ phase' = "alive" /\ m_sinks' = c \o FileOf(config)
        \/ phase' = "unwind" /\ m_sinks' = c
    <3>1. CASE ~config.enable_file
      <4>1. FileOf(config) = <<>>
        BY <3>1 DEF FileOf
      <4> QED
        BY <1>6, <3>1, <4>1, <2>1, <2>2 DEF AddFile
    <3>2. CASE config.enable_file
      <4>1. FileOf(config) = <<sink>>
        BY <3>2 DEF FileOf
      <4> QED
        BY <1>6, <3>2, <4>1, <2>1, <2>2 DEF AddFile
    <3> QED
      BY <3>1, <3>2
  <2>4. UNCHANGED <<text, position, config, backend, m_level, m_tokens>>
    BY <1>6 DEF AddFile
  <2> HIDE DEF c
  <2>5. BuiltInv'
    BY <2>1, <2>3, <2>4 DEF StartInv, BuiltInv, c
  <2>6. PlaceInv'
    BY <1>6 DEF AddFile, StartInv, PlaceInv, FileSinkOpens
  <2> QED
    BY <1>f, <2>3, <2>4, <2>5, <2>6, BuildKeeps
<1>7. CASE Unwind
  <2>1. BuiltInv'
    BY <1>7 DEF Unwind, StartInv, BuiltInv
  <2>2. PlaceInv'
    BY <1>7 DEF Unwind, StartInv, PlaceInv, FileSinkOpens
  <2> QED
    BY <1>f, <1>7, <2>1, <2>2, BuildKeeps DEF Unwind
<1>8. CASE UNCHANGED vars
  <2>1. BuiltInv'
    BY <1>8 DEF vars, StartInv, BuiltInv
  <2>2. FileInv'
    BY <1>8 DEF vars, StartInv, FileInv
  <2>3. PlaceInv'
    BY <1>8 DEF vars, StartInv, PlaceInv, FileSinkOpens
  <2> QED
    BY <1>8, <2>1, <2>2, <2>3, BuildKeeps DEF vars
<1> QED
  BY <1>1, <1>2, <1>3, <1>4, <1>5, <1>6, <1>7, <1>8 DEF Next

LEMMA StartInvariant == Spec => []StartInv
<1> QED
  BY StartInit, StartStep, PTL DEF Spec
-----------------------------------------------------------------------------
(* The properties *)

\* Whatever files there are, the configuration keeps its members and values
\* and the construction its order: ConfigParser and the constructor of Logger.
THEOREM StartTypeCorrect == Spec => []StartTypeOK
<1>1. StartInv => StartTypeOK
  <2> SUFFICES ASSUME StartInv PROVE StartTypeOK
    OBVIOUS
  <2>1. /\ position \in 0 .. Len(text) /\ DOMAIN config = DOMAIN DefaultConfig
        /\ \A f \in DOMAIN Parser : config[f] \in Range(Parser[f]) \cup {DefaultConfig[f]}
    BY FieldNames DEF StartInv, FileInv, ValueInv
  <2>2. /\ backend \in {"none", "AsyncBackend", "SyncBackend"} /\ m_level \in 0 .. 6
        /\ phase \in {"open", "reading", "parsed", "console", "file", "unwind", "alive", "failed"}
    BY DEF StartInv, BuiltInv, FileInv
  <2>3. Len(m_sinks) <= 2
    <3> DEFINE c == <<"ConsoleSink", config.colored_output>>
               d == <<"FileSink", config.file_path>>
    <3>1. m_sinks \in {<<>>, <<c>>, <<c>> \o <<>>, <<>> \o <<>>, <<>> \o <<d>>, <<c>> \o <<d>>}
      BY DEF StartInv, BuiltInv, ConsoleOf, FileOf
    <3> HIDE DEF c, d
    <3>2. \A s \in {<<>>, <<c>>, <<c>> \o <<>>, <<>> \o <<>>, <<>> \o <<d>>, <<c>> \o <<d>>} : Len(s) <= 2
      <4>1. /\ <<>> \in Seq({c, d}) /\ <<c>> \in Seq({c, d}) /\ <<d>> \in Seq({c, d})
            /\ Len(<<>>) = 0 /\ Len(<<c>>) = 1 /\ Len(<<d>>) = 1
        OBVIOUS
      <4>2. \A s, t \in Seq({c, d}) : Len(s \o t) = Len(s) + Len(t)
        BY ConcatProperties
      <4> QED
        BY <4>1, <4>2
    <3> QED
      BY <3>1, <3>2
  <2> QED
    BY <2>1, <2>2, <2>3 DEF StartTypeOK
<1> QED
  BY <1>1, StartInvariant, PTL

\* When the file has been read, every member is what the file says of it.
LEMMA ConfigIsSetting ==
  ASSUME StartInv, position = Len(text), NEW f \in Fields
  PROVE  config[f] = Setting(f)
<1> DEFINE lines == {n \in DOMAIN text : Given(f, text[n]) # {}}
<1>1. DOMAIN text = 1 .. Len(text) /\ Len(text) \in Nat
  <2>1. IsSequence(text)
    BY StartupAssumption DEF StartInv, FileInv
  <2> QED
    BY <2>1 DEF IsSequence
<1>2. CASE config[f] = DefaultConfig[f] /\ \A n \in 1 .. position : Given(f, text[n]) = {}
  <2>1. lines = {}
    BY <1>1, <1>2
  <2> QED
    BY <2>1, <1>2 DEF Setting
<1>3. CASE \E n \in 1 .. position : /\ Given(f, text[n]) = {config[f]}
                                    /\ \A m \in n + 1 .. position : Given(f, text[m]) = {}
  <2>1. PICK n \in 1 .. position : /\ Given(f, text[n]) = {config[f]}
                                   /\ \A m \in n + 1 .. position : Given(f, text[m]) = {}
    BY <1>3
  <2>2. n \in lines
    BY <2>1, <1>1
  <2>3. \A m \in lines : m \in 1 .. position /\ m <= n
    <3> TAKE m \in lines
    <3>1. m \in 1 .. position /\ Given(f, text[m]) # {}
      BY <1>1
    <3>2. m \notin n + 1 .. position
      BY <2>1, <3>1
    <3> QED
      BY <3>1, <3>2, <1>1
  <2> HIDE DEF lines
  <2>4. n \in Nat /\ \A m \in lines : m \in Nat
    BY <2>3, <1>1
  <2>5. Max(lines) = n
    <3> DEFINE m == Max(lines)
    <3>1. \E k \in lines : \A j \in lines : k >= j
      BY <2>2, <2>3, <2>4
    <3>2. m \in lines /\ \A j \in lines : m >= j
      BY <3>1, Zenon DEF Max
    <3> HIDE DEF m
    <3>3. m = n
      BY <3>2, <2>2, <2>3, <2>4
    <3> QED
      BY <3>3 DEF m
  <2> QED
    <3>1. lines # {} /\ Given(f, text[Max(lines)]) = {config[f]}
      BY <2>1, <2>2, <2>5
    <3>2. Setting(f) = CHOOSE value \in Given(f, text[Max(lines)]) : TRUE
      BY <3>1 DEF Setting, lines
    <3>3. \A x : (CHOOSE value \in {x} : TRUE) = x
      OBVIOUS
    <3> QED
      BY <3>1, <3>2, <3>3
<1> QED
  BY <1>2, <1>3 DEF StartInv, LastInv

\* In a file of any length, the last line that gives a member a valid value
\* wins, and the others take nothing away: ConfigParser::parse.
THEOREM LastValidLineWins == Spec => []LastValidWins
<1>1. StartInv => LastValidWins
  BY ConfigIsSetting DEF LastValidWins, StartInv, ValueInv, PlaceInv
<1> QED
  BY <1>1, StartInvariant, PTL

\* Whatever pattern a file sets, its compiled form prints what it means:
\* Logger's initializers and Formatter.
THEOREM PatternsMeanWhatTheySay == Spec => []PatternMeaning
<1>1. StartInv => PatternMeaning
  <2> SUFFICES ASSUME StartInv, phase = "console"
               PROVE  Render(m_tokens, Sample) = Meaning(Joined(config.pattern), Sample)
    BY DEF PatternMeaning
  <2>1. m_tokens = compile_pattern(Joined(config.pattern))
    BY DEF StartInv, BuiltInv
  <2>2. Joined(config.pattern) \in Seq(PatternChar)
    BY JoinedSeq DEF StartInv, ValueInv
  <2> QED
    BY <2>1, <2>2, CompiledPatternPrintsMeaning
<1> QED
  BY <1>1, StartInvariant, PTL

\* Whatever the file, a logger that comes to be has the backend, the level and
\* the sinks its lines add up to, and one that does not was asked for a file that
\* cannot be opened or was given no configuration: the constructor of Logger.
THEOREM LoggerIsBuiltAsAsked == Spec => []BuiltAsAsked
<1>1. ASSUME StartInv, position = Len(text)
      PROVE  /\ Setting("mode") = config.mode /\ Setting("level") = config.level
             /\ AskedSinks = ConsoleOf(config) \o FileOf(config)
             /\ AskedFileOpens <=> (config.enable_file => FileSinkOpens)
  <2>1. \A f \in Fields : Setting(f) = config[f]
    BY <1>1, ConfigIsSetting
  <2>2. /\ Setting("mode") = config.mode /\ Setting("level") = config.level
        /\ Setting("enable_console") = config.enable_console
        /\ Setting("colored_output") = config.colored_output
        /\ Setting("enable_file") = config.enable_file
        /\ Setting("file_path") = config.file_path
    BY <2>1 DEF Fields
  <2>3. AskedSinks = ConsoleOf(config) \o FileOf(config)
    BY <2>2 DEF AskedSinks, ConsoleOf, FileOf
  <2>4. AskedFileOpens <=> (config.enable_file => FileSinkOpens)
    BY <2>2 DEF AskedFileOpens, FileSinkOpens
  <2> QED
    BY <2>2, <2>3, <2>4
<1>2. ASSUME StartInv, phase = "alive"
      PROVE  /\ backend = IF Setting("mode") = "Async" THEN "AsyncBackend" ELSE "SyncBackend"
             /\ m_level = Setting("level")
             /\ m_sinks = AskedSinks /\ AskedFileOpens
  <2>1. /\ position = Len(text) /\ m_level = config.level
        /\ config.enable_file => FileSinkOpens
    BY <1>2 DEF StartInv, PlaceInv
  <2>2. /\ backend = IF config.mode = "Async" THEN "AsyncBackend" ELSE "SyncBackend"
        /\ m_sinks = ConsoleOf(config) \o FileOf(config)
    BY <1>2 DEF StartInv, BuiltInv
  <2> QED
    BY <2>1, <2>2, <1>1, <1>2
<1>3. ASSUME StartInv, phase = "failed"
      PROVE  position = 0 \/ ~AskedFileOpens
  <2>1. position = 0 \/ (position = Len(text) /\ config.enable_file /\ ~FileSinkOpens)
    BY <1>3 DEF StartInv, PlaceInv
  <2> QED
    BY <2>1, <1>1, <1>3
<1>4. StartInv => BuiltAsAsked
  BY <1>2, <1>3 DEF BuiltAsAsked
<1> QED
  BY <1>4, StartInvariant, PTL
=============================================================================
