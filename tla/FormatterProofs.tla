--------------------------- MODULE FormatterProofs ---------------------------
(***************************************************************************)
(* A compiled pattern prints what the pattern means: for every pattern and *)
(* every record, by induction over the loop of compile_pattern and over    *)
(* the tokens that format prints one by one.                               *)
(***************************************************************************)
EXTENDS Formatter, Induction, SequenceTheorems

\* The kinds of token that print a field.
Kinds == {"Year", "Day", "Hour", "Minute", "Second", "Level", "ThreadId", "ProcessId",
          "File", "Function", "Line", "LoggerName", "Message"}

LEMMA DirectiveKinds == \A c \in DOMAIN Directive : Directive[c] \in Kinds
  BY DEF Directive, Kinds
-----------------------------------------------------------------------------
(* What a token prints, and what a sequence of tokens prints *)

\* The characters of pieces of the pattern, and what tokens can print.
Items(Char, record) ==
  {<<c>> : c \in Char} \cup {Field(kind, record) : kind \in Kinds}
  \cup {<<kind, record.timestamp>> : kind \in {"Year", "Month", "Day", "Hour", "Minute", "Second"}}
  \cup {<<"-">>, <<" ">>, <<":">>}

Text(token, record) ==
  CASE token.kind = "Literal"   -> Characters(token.literal)
    [] token.kind = "Timestamp" -> Stamp(record.timestamp)
    [] OTHER                    -> <<Field(token.kind, record)>>

Tokens(Char) ==
  {Token("Literal", literal) : literal \in Seq(Char)} \cup {Token("Timestamp", <<>>)}
  \cup {Token(kind, <<>>) : kind \in Kinds}

\* A record's second is refreshed to before the full timestamp is printed.
LEMMA RefreshIsNow ==
  ASSUME NEW cached, NEW record
  PROVE  Refresh(cached, record) = record.timestamp
  BY DEF Refresh

LEMMA TokenText ==
  ASSUME NEW buffer, NEW token, NEW record, NEW cached,
         token.kind = "Timestamp" => cached = record.timestamp
  PROVE  append_token(buffer, token, record, cached) = buffer \o Text(token, record)
  BY DEF append_token, Text

LEMMA CharactersSeq ==
  ASSUME NEW Char, NEW s \in Seq(Char)
  PROVE  /\ Characters(s) \in Seq({<<c>> : c \in Char}) /\ Len(Characters(s)) = Len(s)
         /\ \A n \in 1 .. Len(s) : Characters(s)[n] = <<s[n]>>
<1> DEFINE C == {<<c>> : c \in Char}
           f == Characters(s)
<1>1. DOMAIN s = 1 .. Len(s) /\ Len(s) \in Nat
  OBVIOUS
<1>2. f = [n \in 1 .. Len(s) |-> <<s[n]>>]
  BY <1>1 DEF Characters
<1>3. \A n \in 1 .. Len(s) : <<s[n]>> \in C
  <2>1. \A n \in 1 .. Len(s) : s[n] \in Char
    OBVIOUS
  <2> QED
    BY <2>1
<1>4. f \in [1 .. Len(s) -> C]
  <2> HIDE DEF C
  <2> QED
    BY <1>2, <1>3
<1>5. \A n \in 1 .. Len(s) : f[n] = <<s[n]>>
  BY <1>2
<1> HIDE DEF f, C
<1>6. f \in Seq(C)
  BY <1>1, <1>4, SeqDef
<1>7. Len(f) = Len(s)
  BY <1>1, <1>4, <1>6, LenProperties
<1> QED
  BY <1>5, <1>6, <1>7 DEF f, C

LEMMA ConcatIs ==
  ASSUME NEW S, NEW s \in Seq(S), NEW t \in Seq(S), NEW r \in Seq(S),
         Len(r) = Len(s) + Len(t),
         \A n \in 1 .. Len(s) : r[n] = s[n],
         \A n \in 1 .. Len(t) : r[Len(s) + n] = t[n]
  PROVE  r = s \o t
<1>1. /\ s \o t \in Seq(S) /\ Len(s \o t) = Len(s) + Len(t) /\ Len(s) \in Nat /\ Len(t) \in Nat
      /\ \A n \in 1 .. Len(s) + Len(t) :
           (s \o t)[n] = IF n <= Len(s) THEN s[n] ELSE t[n - Len(s)]
  BY ConcatProperties, LenProperties
<1>2. ASSUME NEW n \in 1 .. Len(r) PROVE r[n] = (s \o t)[n]
  <2>1. CASE n <= Len(s)
    BY <2>1, <1>1
  <2>2. CASE n > Len(s)
    <3>1. n - Len(s) \in 1 .. Len(t) /\ Len(s) + (n - Len(s)) = n
      BY <2>2, <1>1
    <3>2. r[n] = t[n - Len(s)]
      BY <3>1
    <3> QED
      BY <3>2, <2>2, <1>1
  <2> QED
    BY <2>1, <2>2, <1>1
<1> QED
  BY <1>1, <1>2, SeqEqual

LEMMA CharactersConcat ==
  ASSUME NEW Char, NEW s \in Seq(Char), NEW t \in Seq(Char)
  PROVE  Characters(s \o t) = Characters(s) \o Characters(t)
<1> DEFINE C == {<<c>> : c \in Char}
<1>1. /\ s \o t \in Seq(Char) /\ Len(s \o t) = Len(s) + Len(t) /\ Len(s) \in Nat /\ Len(t) \in Nat
      /\ \A n \in 1 .. Len(s) : (s \o t)[n] = s[n]
      /\ \A n \in 1 .. Len(t) : (s \o t)[Len(s) + n] = t[n]
  OBVIOUS
<1>2. /\ Characters(s) \in Seq(C) /\ Len(Characters(s)) = Len(s)
      /\ \A n \in 1 .. Len(s) : Characters(s)[n] = <<s[n]>>
  BY CharactersSeq
<1>3. /\ Characters(t) \in Seq(C) /\ Len(Characters(t)) = Len(t)
      /\ \A n \in 1 .. Len(t) : Characters(t)[n] = <<t[n]>>
  BY CharactersSeq
<1>4. /\ Characters(s \o t) \in Seq(C) /\ Len(Characters(s \o t)) = Len(s) + Len(t)
      /\ \A n \in 1 .. Len(s) + Len(t) : Characters(s \o t)[n] = <<(s \o t)[n]>>
  BY <1>1, CharactersSeq
<1>5. \A n \in 1 .. Len(s) : Characters(s \o t)[n] = Characters(s)[n]
  BY <1>1, <1>2, <1>4
<1>6. \A n \in 1 .. Len(t) : Characters(s \o t)[Len(s) + n] = Characters(t)[n]
  <2> TAKE n \in 1 .. Len(t)
  <2>1. Len(s) + n \in 1 .. Len(s) + Len(t)
    BY <1>1
  <2>2. Characters(s \o t)[Len(s) + n] = <<(s \o t)[Len(s) + n]>>
    BY <2>1, <1>4
  <2> QED
    BY <2>2, <1>1, <1>3
<1> DEFINE f == Characters(s)
           g == Characters(t)
           h == Characters(s \o t)
<1>7. /\ f \in Seq(C) /\ g \in Seq(C) /\ h \in Seq(C) /\ Len(h) = Len(f) + Len(g)
      /\ \A n \in 1 .. Len(f) : h[n] = f[n]
      /\ \A n \in 1 .. Len(g) : h[Len(f) + n] = g[n]
  BY <1>2, <1>3, <1>4, <1>5, <1>6
<1> HIDE DEF C, f, g, h
<1>8. h = f \o g
  BY <1>7, ConcatIs
<1> QED
  BY <1>8 DEF f, g, h

LEMMA TextIsItems ==
  ASSUME NEW Char, NEW token \in Tokens(Char), NEW record
  PROVE  Text(token, record) \in Seq(Items(Char, record))
<1>1. CASE token \in {Token("Literal", literal) : literal \in Seq(Char)}
  <2>1. PICK literal \in Seq(Char) : token = Token("Literal", literal)
    BY <1>1
  <2>2. Text(token, record) = Characters(literal)
    BY <2>1 DEF Text, Token
  <2>3. Characters(literal) \in Seq({<<c>> : c \in Char})
    BY CharactersSeq
  <2>4. {<<c>> : c \in Char} \subseteq Items(Char, record)
    BY DEF Items
  <2> QED
    BY <2>2, <2>3, <2>4, SeqMonotonic
<1>2. CASE token = Token("Timestamp", <<>>)
  <2>1. Text(token, record) = Stamp(record.timestamp)
    BY <1>2 DEF Text, Token
  <2> DEFINE I == Items(Char, record)
             year == <<"Year", record.timestamp>>
             month == <<"Month", record.timestamp>>
             day == <<"Day", record.timestamp>>
             hour == <<"Hour", record.timestamp>>
             minute == <<"Minute", record.timestamp>>
             second == <<"Second", record.timestamp>>
             dash == <<"-">>
             space == <<" ">>
             colon == <<":">>
  <2>2. Stamp(record.timestamp) =
          <<year, dash, month, dash, day, space, hour, colon, minute, colon, second>>
    BY DEF Stamp
  <2>3. /\ year \in I /\ month \in I /\ day \in I /\ hour \in I /\ minute \in I /\ second \in I
        /\ dash \in I /\ space \in I /\ colon \in I
    BY DEF Items
  <2> HIDE DEF I, year, month, day, hour, minute, second, dash, space, colon
  <2>4. Stamp(record.timestamp) \in Seq(I)
    BY <2>2, <2>3
  <2> QED
    BY <2>1, <2>4 DEF I
<1>3. CASE token \in {Token(kind, <<>>) : kind \in Kinds}
  <2>1. PICK kind \in Kinds : token = Token(kind, <<>>)
    BY <1>3
  <2>2. Text(token, record) = <<Field(kind, record)>>
    BY <2>1 DEF Text, Token, Kinds
  <2>3. Field(kind, record) \in Items(Char, record)
    BY DEF Items
  <2> QED
    BY <2>2, <2>3
<1> QED
  BY <1>1, <1>2, <1>3 DEF Tokens
-----------------------------------------------------------------------------
(* What the first n tokens print *)

Printed(tokens, record) ==
  CHOOSE buffer : buffer =
    [n \in 0 .. Len(tokens) |->
       IF n = 0 THEN <<>>
       ELSE append_token(buffer[n - 1], tokens[n], record, Refresh(0, record))]

All(tokens, record) == Printed(tokens, record)[Len(tokens)]

\* The buffers of format exist and grow by the text of one token at a time.
LEMMA PrintedDefined ==
  ASSUME NEW tokens, Len(tokens) \in Nat, NEW record
  PROVE  /\ Render(tokens, record) = Append(All(tokens, record), <<"\n">>)
         /\ Printed(tokens, record)[0] = <<>>
         /\ \A n \in 1 .. Len(tokens) :
              Printed(tokens, record)[n]
                = Printed(tokens, record)[n - 1] \o Text(tokens[n], record)
<1> DEFINE next(f, n) == append_token(f[n - 1], tokens[n], record, Refresh(0, record))
           P(f, m) == f = [n \in 0 .. m |-> IF n = 0 THEN <<>> ELSE next(f, n)]
           S == {m \in Nat : \E f : P(f, m)}
<1>1. 0 \in S
  <2> DEFINE f == [n \in 0 .. 0 |-> <<>>]
  <2>1. P(f, 0)
    OBVIOUS
  <2> QED
    BY <2>1
<1>2. ASSUME NEW m \in Nat, m \in S PROVE m + 1 \in S
  <2>1. PICK f : P(f, m)
    BY <1>2
  <2> DEFINE g == [n \in 0 .. m + 1 |-> IF n = m + 1 THEN next(f, m + 1) ELSE f[n]]
  <2>2. \A n \in 0 .. m : f[n] = IF n = 0 THEN <<>> ELSE next(f, n)
    BY <2>1
  <2>3. ASSUME NEW n \in 0 .. m + 1
        PROVE  g[n] = IF n = 0 THEN <<>> ELSE next(g, n)
    <3>1. CASE n = m + 1
      BY <3>1
    <3>2. CASE n \in 0 .. m
      BY <3>2, <2>2
    <3> QED
      BY <3>1, <3>2
  <2>4. P(g, m + 1)
    BY <2>3
  <2> HIDE DEF g, P
  <2> QED
    BY <2>4
<1>3. \E f : P(f, Len(tokens))
  <2> HIDE DEF P
  <2>1. \A m \in Nat : m \in S
    BY <1>1, <1>2, Induct
  <2> QED
    BY <2>1
<1>4. P(Printed(tokens, record), Len(tokens))
  BY <1>3 DEF Printed
<1>5. \A n \in 0 .. Len(tokens) :
        Printed(tokens, record)[n] = IF n = 0 THEN <<>> ELSE next(Printed(tokens, record), n)
  BY <1>4
<1>6. \A n \in 1 .. Len(tokens) :
        next(Printed(tokens, record), n)
          = Printed(tokens, record)[n - 1] \o Text(tokens[n], record)
  BY RefreshIsNow, TokenText
<1>7. Render(tokens, record) = Append(All(tokens, record), <<"\n">>)
  BY DEF Render, All, Printed
<1> HIDE DEF next
<1>8. Printed(tokens, record)[0] = <<>>
  BY <1>5
<1>9. \A n \in 1 .. Len(tokens) :
        Printed(tokens, record)[n] = Printed(tokens, record)[n - 1] \o Text(tokens[n], record)
  <2> TAKE n \in 1 .. Len(tokens)
  <2>1. Printed(tokens, record)[n] = next(Printed(tokens, record), n)
    BY <1>5
  <2> QED
    BY <2>1, <1>6
<1> QED
  BY <1>7, <1>8, <1>9

\* What is printed is a sequence of items.
LEMMA PrintedSeq ==
  ASSUME NEW Char, NEW tokens \in Seq(Tokens(Char)), NEW record
  PROVE  \A n \in 0 .. Len(tokens) : Printed(tokens, record)[n] \in Seq(Items(Char, record))
<1> DEFINE I == Items(Char, record)
           P == Printed(tokens, record)
           S == {n \in Nat : n <= Len(tokens) => P[n] \in Seq(I)}
<1>1. /\ Len(tokens) \in Nat /\ P[0] = <<>>
      /\ \A n \in 1 .. Len(tokens) : P[n] = P[n - 1] \o Text(tokens[n], record)
  <2>1. Len(tokens) \in Nat
    OBVIOUS
  <2> QED
    BY <2>1, PrintedDefined
<1>2. \A n \in 1 .. Len(tokens) : Text(tokens[n], record) \in Seq(I)
  <2>1. \A n \in 1 .. Len(tokens) : tokens[n] \in Tokens(Char)
    OBVIOUS
  <2> QED
    BY <2>1, TextIsItems
<1> HIDE DEF I, P
<1>3. 0 \in S
  BY <1>1, EmptySeq
<1>4. ASSUME NEW n \in Nat, n \in S PROVE n + 1 \in S
  <2> SUFFICES ASSUME n + 1 <= Len(tokens) PROVE P[n + 1] \in Seq(I)
    OBVIOUS
  <2>1. n + 1 \in 1 .. Len(tokens) /\ (n + 1) - 1 = n /\ n <= Len(tokens)
    BY <1>1
  <2>2. P[n] \in Seq(I) /\ Text(tokens[n + 1], record) \in Seq(I)
    BY <2>1, <1>2, <1>4
  <2>3. P[n + 1] = P[n] \o Text(tokens[n + 1], record)
    BY <2>1, <1>1
  <2> QED
    BY <2>2, <2>3
<1>5. \A n \in Nat : n \in S
  <2> HIDE DEF S
  <2> QED
    BY <1>3, <1>4, Induct
<1> QED
  BY <1>5 DEF P, I

\* One more token prints its text after the others'.
LEMMA AllOfAppend ==
  ASSUME NEW Char, NEW tokens \in Seq(Tokens(Char)), NEW token \in Tokens(Char), NEW record
  PROVE  All(Append(tokens, token), record) = All(tokens, record) \o Text(token, record)
<1> DEFINE more == Append(tokens, token)
           P == Printed(tokens, record)
           Q == Printed(more, record)
           S == {n \in Nat : n <= Len(tokens) => Q[n] = P[n]}
<1>1. /\ Len(tokens) \in Nat /\ Len(more) = Len(tokens) + 1
      /\ \A n \in 1 .. Len(tokens) : more[n] = tokens[n]
      /\ more[Len(tokens) + 1] = token
  OBVIOUS
<1> HIDE DEF more
<1>2. /\ P[0] = <<>>
      /\ \A n \in 1 .. Len(tokens) : P[n] = P[n - 1] \o Text(tokens[n], record)
  BY <1>1, PrintedDefined
<1>3. /\ Q[0] = <<>>
      /\ \A n \in 1 .. Len(more) : Q[n] = Q[n - 1] \o Text(more[n], record)
  <2>1. Len(more) \in Nat
    BY <1>1
  <2> QED
    BY <2>1, PrintedDefined
<1> HIDE DEF P, Q
<1>4. 0 \in S
  BY <1>2, <1>3
<1>5. ASSUME NEW n \in Nat, n \in S PROVE n + 1 \in S
  <2> SUFFICES ASSUME n + 1 <= Len(tokens) PROVE Q[n + 1] = P[n + 1]
    OBVIOUS
  <2>1. /\ n + 1 \in 1 .. Len(tokens) /\ n + 1 \in 1 .. Len(more)
        /\ (n + 1) - 1 = n /\ n <= Len(tokens)
    BY <1>1
  <2>2. Q[n + 1] = Q[n] \o Text(more[n + 1], record)
    BY <2>1, <1>3
  <2>3. P[n + 1] = P[n] \o Text(tokens[n + 1], record)
    BY <2>1, <1>2
  <2> QED
    BY <2>1, <2>2, <2>3, <1>1, <1>5
<1>6. \A n \in Nat : n \in S
  <2> HIDE DEF S
  <2> QED
    BY <1>4, <1>5, Induct
<1>7. Q[Len(tokens)] = P[Len(tokens)]
  BY <1>6, <1>1
<1>8. Q[Len(tokens) + 1] = Q[Len(tokens)] \o Text(token, record)
  <2>1. Len(tokens) + 1 \in 1 .. Len(more) /\ (Len(tokens) + 1) - 1 = Len(tokens)
    BY <1>1
  <2> QED
    BY <2>1, <1>1, <1>3
<1> QED
  BY <1>1, <1>7, <1>8 DEF All, P, Q, more

\* Flushing the literal prints it after the tokens before it.
LEMMA AllOfFlush ==
  ASSUME NEW Char, NEW tokens \in Seq(Tokens(Char)), NEW literal \in Seq(Char), NEW record
  PROVE  /\ flush_literal(tokens, literal) \in Seq(Tokens(Char))
         /\ All(flush_literal(tokens, literal), record)
              = All(tokens, record) \o Characters(literal)
<1>1. All(tokens, record) \in Seq(Items(Char, record))
  <2>1. Len(tokens) \in 0 .. Len(tokens)
    OBVIOUS
  <2> QED
    BY <2>1, PrintedSeq DEF All
<1>2. CASE literal = <<>>
  <2>1. flush_literal(tokens, literal) = tokens
    BY <1>2 DEF flush_literal
  <2>2. Characters(literal) = <<>>
    <3>1. Characters(literal) \in Seq({<<c>> : c \in Char}) /\ Len(Characters(literal)) = 0
      BY <1>2, CharactersSeq, EmptySeq
    <3> QED
      BY <3>1, EmptySeq
  <2>3. All(tokens, record) \o <<>> = All(tokens, record)
    BY <1>1, ConcatEmptySeq
  <2> QED
    BY <2>1, <2>2, <2>3
<1>3. CASE literal # <<>>
  <2> DEFINE token == Token("Literal", literal)
  <2>1. flush_literal(tokens, literal) = Append(tokens, token)
    BY <1>3 DEF flush_literal
  <2>2. token \in Tokens(Char)
    BY DEF Tokens
  <2>3. Text(token, record) = Characters(literal)
    BY DEF Text, Token
  <2> HIDE DEF token
  <2>4. All(Append(tokens, token), record) = All(tokens, record) \o Text(token, record)
    BY <2>2, AllOfAppend
  <2>5. Append(tokens, token) \in Seq(Tokens(Char))
    BY <2>2
  <2> QED
    BY <2>1, <2>3, <2>4, <2>5
<1> QED
  BY <1>2, <1>3
-----------------------------------------------------------------------------
(* The loop of compile_pattern and the meaning of a pattern, by position *)

Start == [next |-> 1, literal |-> <<>>, tokens |-> <<>>]

After(pattern) ==
  CHOOSE after : after =
    [i \in 0 .. Len(pattern) |-> IF i = 0 THEN Start ELSE CompileStep(pattern, after[i - 1], i)]

\* The states of compile_pattern's loop exist.
LEMMA AfterDefined ==
  ASSUME NEW pattern, Len(pattern) \in Nat
  PROVE  /\ compile_pattern(pattern)
              = flush_literal(After(pattern)[Len(pattern)].tokens, After(pattern)[Len(pattern)].literal)
         /\ After(pattern)[0] = Start
         /\ \A i \in 1 .. Len(pattern) :
              After(pattern)[i] = CompileStep(pattern, After(pattern)[i - 1], i)
<1> DEFINE next(f, n) == CompileStep(pattern, f[n - 1], n)
           P(f, m) == f = [n \in 0 .. m |-> IF n = 0 THEN Start ELSE next(f, n)]
           S == {m \in Nat : \E f : P(f, m)}
<1>1. 0 \in S
  <2> DEFINE f == [n \in 0 .. 0 |-> Start]
  <2>1. P(f, 0)
    OBVIOUS
  <2> QED
    BY <2>1
<1>2. ASSUME NEW m \in Nat, m \in S PROVE m + 1 \in S
  <2>1. PICK f : P(f, m)
    BY <1>2
  <2> DEFINE g == [n \in 0 .. m + 1 |-> IF n = m + 1 THEN next(f, m + 1) ELSE f[n]]
  <2>2. \A n \in 0 .. m : f[n] = IF n = 0 THEN Start ELSE next(f, n)
    BY <2>1
  <2>3. ASSUME NEW n \in 0 .. m + 1
        PROVE  g[n] = IF n = 0 THEN Start ELSE next(g, n)
    <3>1. CASE n = m + 1
      BY <3>1
    <3>2. CASE n \in 0 .. m
      BY <3>2, <2>2
    <3> QED
      BY <3>1, <3>2
  <2>4. P(g, m + 1)
    BY <2>3
  <2> HIDE DEF g, P
  <2> QED
    BY <2>4
<1>3. \E f : P(f, Len(pattern))
  <2> HIDE DEF P
  <2>1. \A m \in Nat : m \in S
    BY <1>1, <1>2, Induct
  <2> QED
    BY <2>1
<1>4. P(After(pattern), Len(pattern))
  BY <1>3 DEF After
<1>5. \A i \in 0 .. Len(pattern) :
        After(pattern)[i] = IF i = 0 THEN Start ELSE next(After(pattern), i)
  BY <1>4
<1>6. compile_pattern(pattern)
        = flush_literal(After(pattern)[Len(pattern)].tokens, After(pattern)[Len(pattern)].literal)
  BY DEF compile_pattern, After, Start
<1>7. \A i \in 1 .. Len(pattern) : After(pattern)[i] = next(After(pattern), i)
  <2> HIDE DEF next
  <2> QED
    BY <1>5
<1>8. After(pattern)[0] = Start
  <2> HIDE DEF next
  <2> QED
    BY <1>5
<1> QED
  BY <1>6, <1>7, <1>8

\* What a piece of the pattern at i means, and how long it is.
Length(pattern, i) ==
  IF starts_with(pattern, i, kTimestampPattern) THEN Len(kTimestampPattern)
  ELSE IF pattern[i] = "%" /\ i < Len(pattern) THEN 2 ELSE 1

Piece(pattern, i, record) ==
  IF starts_with(pattern, i, kTimestampPattern) THEN Stamp(record.timestamp)
  ELSE IF pattern[i] = "%" /\ i < Len(pattern)
  THEN IF pattern[i + 1] \in DOMAIN Directive
       THEN <<Field(Directive[pattern[i + 1]], record)>>
       ELSE IF pattern[i + 1] = "%" THEN <<<<"%">>>> ELSE <<<<"%">>, <<pattern[i + 1]>>>>
  ELSE <<<<pattern[i]>>>>

MeaningFrom(pattern, record) ==
  CHOOSE meaning : meaning =
    [i \in 1 .. Len(pattern) + 1 |->
       IF i = Len(pattern) + 1 THEN <<>>
       ELSE IF starts_with(pattern, i, kTimestampPattern)
       THEN Stamp(record.timestamp) \o meaning[i + Len(kTimestampPattern)]
       ELSE IF pattern[i] = "%" /\ i < Len(pattern)
       THEN (IF pattern[i + 1] \in DOMAIN Directive
             THEN <<Field(Directive[pattern[i + 1]], record)>>
             ELSE IF pattern[i + 1] = "%" THEN <<<<"%">>>>
             ELSE <<<<"%">>, <<pattern[i + 1]>>>>) \o meaning[i + 2]
       ELSE <<<<pattern[i]>>>> \o meaning[i + 1]]

\* A piece lies within the pattern.
LEMMA LengthBound ==
  ASSUME NEW pattern, Len(pattern) \in Nat, NEW i \in 1 .. Len(pattern)
  PROVE  Length(pattern, i) \in 1 .. (Len(pattern) + 1) - i
<1>1. Len(kTimestampPattern) = 17
  BY DEF kTimestampPattern
<1>2. CASE starts_with(pattern, i, kTimestampPattern)
  <2>1. i - 1 + 17 <= Len(pattern)
    BY <1>1, <1>2 DEF starts_with
  <2> QED
    BY <2>1, <1>1, <1>2 DEF Length
<1>3. CASE ~starts_with(pattern, i, kTimestampPattern)
  BY <1>3 DEF Length
<1> QED
  BY <1>2, <1>3

\* The meanings of the rests of a pattern exist; that of the rest from i is
\* the meaning of the piece at i and of the rest after it.
LEMMA MeaningDefined ==
  ASSUME NEW pattern, Len(pattern) \in Nat, NEW record
  PROVE  /\ Meaning(pattern, record) = MeaningFrom(pattern, record)[1] \o <<<<"\n">>>>
         /\ MeaningFrom(pattern, record)[Len(pattern) + 1] = <<>>
         /\ \A i \in 1 .. Len(pattern) :
              MeaningFrom(pattern, record)[i]
                = Piece(pattern, i, record) \o MeaningFrom(pattern, record)[i + Length(pattern, i)]
<1> DEFINE n == Len(pattern)
           step(f, i) == Piece(pattern, i, record) \o f[i + Length(pattern, i)]
           value(f, i) == IF i = n + 1 THEN <<>> ELSE step(f, i)
           P(f, m) == /\ \A i \in 1 .. n + 1 : n + 1 - i <= m => f[i] = value(f, i)
                      /\ f = [i \in 1 .. n + 1 |-> f[i]]
           S == {m \in Nat : \E f : P(f, m)}
<1>1. 0 \in S
  <2> DEFINE f == [i \in 1 .. n + 1 |-> <<>>]
  <2>1. f = [i \in 1 .. n + 1 |-> f[i]]
    OBVIOUS
  <2>2. ASSUME NEW i \in 1 .. n + 1, n + 1 - i <= 0 PROVE f[i] = value(f, i)
    <3>1. i = n + 1
      BY <2>2
    <3> QED
      BY <3>1
  <2>3. P(f, 0)
    BY <2>1, <2>2
  <2> HIDE DEF f, P
  <2> QED
    BY <2>3
<1>2. ASSUME NEW m \in Nat, m \in S PROVE m + 1 \in S
  <2>1. PICK f : P(f, m)
    BY <1>2
  <2> DEFINE g == [i \in 1 .. n + 1 |-> IF n + 1 - i = m + 1 THEN value(f, i) ELSE f[i]]
  <2>2. g = [i \in 1 .. n + 1 |-> g[i]]
    OBVIOUS
  <2>3. ASSUME NEW i \in 1 .. n + 1, n + 1 - i <= m + 1 PROVE g[i] = value(g, i)
    <3>1. g[i] = value(f, i)
      <4> HIDE DEF value
      <4>1. CASE n + 1 - i = m + 1
        BY <4>1
      <4>2. CASE n + 1 - i # m + 1
        <5>1. g[i] = f[i]
          BY <4>2
        <5>2. n + 1 - i <= m
          BY <4>2, <2>3
        <5> QED
          BY <5>1, <5>2, <2>1
      <4> QED
        BY <4>1, <4>2
    <3>2. ASSUME i # n + 1 PROVE g[i + Length(pattern, i)] = f[i + Length(pattern, i)]
      <4>1. Length(pattern, i) \in 1 .. (n + 1) - i
        BY <3>2, LengthBound
      <4>2. i + Length(pattern, i) \in 1 .. n + 1 /\ n + 1 - (i + Length(pattern, i)) # m + 1
        BY <4>1, <2>3
      <4> QED
        BY <4>2
    <3> HIDE DEF g
    <3>3. value(f, i) = value(g, i)
      BY <3>2
    <3> QED
      BY <3>1, <3>3
  <2>4. P(g, m + 1)
    BY <2>2, <2>3
  <2> HIDE DEF g, P
  <2> QED
    BY <2>4
<1>3. PICK f : P(f, n + 1)
  <2>1. \A m \in Nat : m \in S
    <3> HIDE DEF S
    <3> QED
      BY <1>1, <1>2, Induct
  <2> QED
    BY <2>1
<1> DEFINE M == MeaningFrom(pattern, record)
           body(meaning, i) ==
             IF i = Len(pattern) + 1 THEN <<>>
             ELSE IF starts_with(pattern, i, kTimestampPattern)
             THEN Stamp(record.timestamp) \o meaning[i + Len(kTimestampPattern)]
             ELSE IF pattern[i] = "%" /\ i < Len(pattern)
             THEN (IF pattern[i + 1] \in DOMAIN Directive
                   THEN <<Field(Directive[pattern[i + 1]], record)>>
                   ELSE IF pattern[i + 1] = "%" THEN <<<<"%">>>>
                   ELSE <<<<"%">>, <<pattern[i + 1]>>>>) \o meaning[i + 2]
             ELSE <<<<pattern[i]>>>> \o meaning[i + 1]
<1>4. ASSUME NEW g, NEW i \in 1 .. n + 1 PROVE body(g, i) = value(g, i)
  BY DEF Piece, Length
<1>5. f = [i \in 1 .. n + 1 |-> body(f, i)]
  <2>1. ASSUME NEW i \in 1 .. n + 1 PROVE f[i] = value(f, i)
    <3>1. n + 1 - i <= n + 1
      OBVIOUS
    <3> QED
      BY <3>1, <1>3
  <2>2. \A i \in 1 .. n + 1 : f[i] = body(f, i)
    <3> HIDE DEF body, value
    <3> QED
      BY <2>1, <1>4
  <2>3. f = [i \in 1 .. n + 1 |-> f[i]]
    BY <1>3
  <2> HIDE DEF body, P
  <2> QED
    BY <2>2, <2>3
<1>6. M = [i \in 1 .. n + 1 |-> body(M, i)]
  BY <1>5 DEF MeaningFrom
<1>7. ASSUME NEW i \in 1 .. n + 1 PROVE M[i] = value(M, i)
  <2>1. M[i] = body(M, i)
    <3> HIDE DEF body, M
    <3> QED
      BY <1>6
  <2> HIDE DEF body, value, M
  <2> QED
    BY <2>1, <1>4
<1>8. Meaning(pattern, record) = M[1] \o <<<<"\n">>>>
  BY DEF Meaning, MeaningFrom
<1> HIDE DEF M
<1>9. M[n + 1] = <<>>
  <2>1. n + 1 \in 1 .. n + 1
    OBVIOUS
  <2> QED
    BY <2>1, <1>7
<1>10. \A i \in 1 .. n : M[i] = step(M, i)
  <2> HIDE DEF step
  <2> QED
    BY <1>7
<1> QED
  BY <1>8, <1>9, <1>10 DEF M
-----------------------------------------------------------------------------
(* One round of the loop prints one piece more *)

\* The state of the loop, and what it would print if it stopped here.
State(Char) == [next : Nat, literal : Seq(Char), tokens : Seq(Tokens(Char))]

Out(a, record) == All(a.tokens, record) \o Characters(a.literal)

LEMMA NoCharacters == Characters(<<>>) = <<>>
<1>1. <<>> \in Seq({}) /\ Len(<<>>) = 0
  BY EmptySeq
<1>2. Characters(<<>>) \in Seq({<<c>> : c \in {}}) /\ Len(Characters(<<>>)) = 0
  BY <1>1, CharactersSeq
<1> QED
  BY <1>2, EmptySeq

LEMMA CharactersOfOne == \A c : Characters(<<c>>) = <<<<c>>>>
<1> TAKE c
<1>1. <<c>> = [n \in 1 .. 1 |-> c] /\ DOMAIN <<c>> = 1 .. 1 /\ \A n \in 1 .. 1 : <<c>>[n] = c
  OBVIOUS
<1>2. Characters(<<c>>) = [n \in 1 .. 1 |-> <<c>>]
  BY <1>1 DEF Characters
<1> DEFINE d == <<c>>
<1>3. <<d>> = [n \in 1 .. 1 |-> d]
  <2> HIDE DEF d
  <2> QED
    OBVIOUS
<1> QED
  BY <1>2, <1>3

LEMMA PairIs ==
  ASSUME NEW b, NEW c
  PROVE  <<b, c>> = <<b>> \o <<c>>
<1> DEFINE S == {b, c}
           p == <<b, c>>
           q == <<b>>
           r == <<c>>
<1>1. /\ p \in Seq(S) /\ Len(p) = 2 /\ p[1] = b /\ p[2] = c
      /\ q \in Seq(S) /\ Len(q) = 1 /\ q[1] = b
      /\ r \in Seq(S) /\ Len(r) = 1 /\ r[1] = c
  OBVIOUS
<1> HIDE DEF S, p, q, r
<1>2. Len(p) = Len(q) + Len(r)
  BY <1>1
<1>3. \A n \in 1 .. Len(q) : p[n] = q[n]
  BY <1>1
<1>4. \A n \in 1 .. Len(r) : p[Len(q) + n] = r[n]
  BY <1>1
<1>5. p = q \o r
  BY <1>1, <1>2, <1>3, <1>4, ConcatIs
<1> QED
  BY <1>5 DEF p, q, r

LEMMA CharactersOfTwo == \A b, c : Characters(<<b, c>>) = <<<<b>>, <<c>>>>
<1> TAKE b, c
<1>1. <<b>> \in Seq({b, c}) /\ <<c>> \in Seq({b, c})
  OBVIOUS
<1>2. Characters(<<b>> \o <<c>>) = Characters(<<b>>) \o Characters(<<c>>)
  BY <1>1, CharactersConcat
<1> DEFINE d == <<b>>
           e == <<c>>
<1>3. <<d, e>> = <<d>> \o <<e>>
  <2> HIDE DEF d, e
  <2> QED
    BY PairIs
<1>4. Characters(<<b, c>>) = Characters(<<b>> \o <<c>>)
  BY PairIs
<1>5. Characters(<<b>>) = <<d>> /\ Characters(<<c>>) = <<e>>
  BY CharactersOfOne
<1> QED
  BY <1>2, <1>3, <1>4, <1>5

LEMMA OutSeq ==
  ASSUME NEW Char, NEW a \in State(Char), NEW record
  PROVE  /\ All(a.tokens, record) \in Seq(Items(Char, record))
         /\ Characters(a.literal) \in Seq(Items(Char, record))
         /\ Out(a, record) \in Seq(Items(Char, record))
<1>1. a.tokens \in Seq(Tokens(Char)) /\ a.literal \in Seq(Char)
  BY DEF State
<1>2. All(a.tokens, record) \in Seq(Items(Char, record))
  <2>1. Len(a.tokens) \in 0 .. Len(a.tokens)
    BY <1>1
  <2> QED
    BY <1>1, <2>1, PrintedSeq DEF All
<1>3. Characters(a.literal) \in Seq(Items(Char, record))
  <2>1. Characters(a.literal) \in Seq({<<c>> : c \in Char})
    BY <1>1, CharactersSeq
  <2>2. {<<c>> : c \in Char} \subseteq Items(Char, record)
    BY DEF Items
  <2> QED
    BY <2>1, <2>2, SeqMonotonic
<1>4. All(a.tokens, record) \o Characters(a.literal) \in Seq(Items(Char, record))
  BY <1>2, <1>3, ConcatProperties
<1> QED
  BY <1>2, <1>3, <1>4 DEF Out

\* A token after the flushed literal.
LEMMA OutOfToken ==
  ASSUME NEW Char, NEW a \in State(Char), NEW token \in Tokens(Char), NEW record
  PROVE  /\ Append(flush_literal(a.tokens, a.literal), token) \in Seq(Tokens(Char))
         /\ All(Append(flush_literal(a.tokens, a.literal), token), record) \o Characters(<<>>)
              = Out(a, record) \o Text(token, record)
<1> DEFINE before == flush_literal(a.tokens, a.literal)
<1>1. before \in Seq(Tokens(Char)) /\ All(before, record) = Out(a, record)
  BY AllOfFlush DEF State, Out
<1> HIDE DEF before
<1>2. All(Append(before, token), record) = Out(a, record) \o Text(token, record)
  BY <1>1, AllOfAppend
<1>3. Out(a, record) \o Text(token, record) \in Seq(Items(Char, record))
  BY OutSeq, TextIsItems, ConcatProperties
<1>4. All(Append(before, token), record) \o Characters(<<>>) = All(Append(before, token), record)
  BY <1>2, <1>3, NoCharacters, ConcatEmptySeq
<1>5. Append(before, token) \in Seq(Tokens(Char))
  BY <1>1
<1> QED
  BY <1>2, <1>4, <1>5 DEF before

\* A character after the literal.
LEMMA OutOfCharacter ==
  ASSUME NEW Char, NEW a \in State(Char), NEW c \in Char, NEW record
  PROVE  All(a.tokens, record) \o Characters(Append(a.literal, c)) = Out(a, record) \o <<<<c>>>>
<1> DEFINE all == All(a.tokens, record)
           old == Characters(a.literal)
           new == Characters(<<c>>)
           I == Items(Char, record)
<1>1. a.literal \in Seq(Char)
  BY DEF State
<1>2. Append(a.literal, c) = a.literal \o <<c>> /\ <<c>> \in Seq(Char)
  BY <1>1
<1>3. Characters(Append(a.literal, c)) = old \o new
  BY <1>1, <1>2, CharactersConcat
<1>4. new = <<<<c>>>>
  BY CharactersOfOne
<1>5. all \in Seq(I) /\ old \in Seq(I) /\ new \in Seq(I)
  <2>1. <<c>> \in I
    BY DEF Items
  <2> HIDE DEF I
  <2>2. <<<<c>>>> \in Seq(I)
    <3> DEFINE d == <<c>>
    <3>1. d \in I
      BY <2>1
    <3> HIDE DEF d
    <3>2. <<d>> \in Seq(I)
      BY <3>1
    <3> QED
      BY <3>2 DEF d
  <2>3. all \in Seq(I) /\ old \in Seq(I)
    BY OutSeq DEF I
  <2> QED
    BY <2>2, <2>3, <1>4
<1> HIDE DEF all, old, new, I
<1>6. (all \o old) \o new = all \o (old \o new)
  BY <1>5, ConcatAssociative
<1>7. Out(a, record) = all \o old
  BY DEF Out, all, old
<1> QED
  BY <1>3, <1>4, <1>6, <1>7 DEF all

\* A % and an unknown character after the flushed literal.
LEMMA OutOfUnknown ==
  ASSUME NEW Char, NEW a \in State(Char), NEW c, NEW record
  PROVE  /\ flush_literal(a.tokens, a.literal) \in Seq(Tokens(Char))
         /\ All(flush_literal(a.tokens, a.literal), record) \o Characters(<<"%", c>>)
              = Out(a, record) \o <<<<"%">>, <<c>>>>
<1>1. a.tokens \in Seq(Tokens(Char)) /\ a.literal \in Seq(Char)
  BY DEF State
<1>2. /\ flush_literal(a.tokens, a.literal) \in Seq(Tokens(Char))
      /\ All(flush_literal(a.tokens, a.literal), record) = Out(a, record)
  BY <1>1, AllOfFlush DEF Out
<1>3. Characters(<<"%", c>>) = <<<<"%">>, <<c>>>>
  BY CharactersOfTwo
<1> QED
  BY <1>2, <1>3

-----------------------------------------------------------------------------
(* The loop as a whole *)

\* A round that does not skip its position prints the piece at that position
\* and goes on with the position after it.
LEMMA RoundPrintsPiece ==
  ASSUME NEW Char, "%" \in Char, NEW pattern \in Seq(Char), NEW i \in 1 .. Len(pattern),
         NEW a \in State(Char), a.next <= i, NEW record
  PROVE  LET b == CompileStep(pattern, a, i)
         IN /\ b \in State(Char)
            /\ Out(b, record) = Out(a, record) \o Piece(pattern, i, record)
            /\ (IF b.next > i + 1 THEN b.next ELSE i + 1) = i + Length(pattern, i)
<1> DEFINE b == CompileStep(pattern, a, i)
           before == flush_literal(a.tokens, a.literal)
           c == pattern[i + 1]
<1>1. a.next \in Nat /\ ~(i < a.next) /\ Len(pattern) \in Nat /\ pattern[i] \in Char
  BY DEF State
<1>2. CASE starts_with(pattern, i, kTimestampPattern)
  <2> DEFINE token == Token("Timestamp", <<>>)
             next == i + Len(kTimestampPattern)
  <2>1. next \in Nat /\ Len(kTimestampPattern) = 17
    BY DEF kTimestampPattern
  <2>2. b = [next |-> next, literal |-> <<>>, tokens |-> Append(before, token)]
    BY <1>1, <1>2 DEF CompileStep
  <2>3. token \in Tokens(Char) /\ Text(token, record) = Stamp(record.timestamp)
    BY DEF Tokens, Text, Token
  <2>4. Piece(pattern, i, record) = Stamp(record.timestamp) /\ Length(pattern, i) = 17
    BY <1>2, <2>1 DEF Piece, Length
  <2>5. b.next = i + 17
    BY <2>1, <2>2
  <2> HIDE DEF token, next, b
  <2>6. b \in State(Char) /\ Out(b, record) = Out(a, record) \o Text(token, record)
    <3>1. /\ Append(before, token) \in Seq(Tokens(Char))
          /\ All(Append(before, token), record) \o Characters(<<>>)
               = Out(a, record) \o Text(token, record)
      BY <2>3, OutOfToken
    <3> HIDE DEF before
    <3>2. b \in State(Char)
      BY <2>1, <2>2, <3>1 DEF State
    <3>3. b.tokens = Append(before, token) /\ b.literal = <<>>
      BY <2>2
    <3> QED
      BY <3>1, <3>2, <3>3 DEF Out
  <2> QED
    BY <2>3, <2>4, <2>5, <2>6 DEF b
<1>3. CASE ~starts_with(pattern, i, kTimestampPattern) /\ ~(pattern[i] = "%" /\ i < Len(pattern))
  <2>1. b = [a EXCEPT !.literal = Append(@, pattern[i])]
    <3>1. CASE pattern[i] # "%"
      BY <1>1, <1>3, <3>1 DEF CompileStep
    <3>2. CASE pattern[i] = "%" /\ i = Len(pattern)
      BY <1>1, <1>3, <3>2 DEF CompileStep
    <3> QED
      BY <1>1, <1>3, <3>1, <3>2
  <2>2. Piece(pattern, i, record) = <<<<pattern[i]>>>> /\ Length(pattern, i) = 1
    BY <1>3 DEF Piece, Length
  <2>3. b.next = a.next
    BY <2>1 DEF State
  <2> HIDE DEF b
  <2>4. b \in State(Char) /\ Out(b, record) = Out(a, record) \o <<<<pattern[i]>>>>
    <3>1. /\ Append(a.literal, pattern[i]) \in Seq(Char)
          /\ b.tokens = a.tokens /\ b.literal = Append(a.literal, pattern[i])
      BY <1>1, <2>1 DEF State
    <3>2. b \in State(Char)
      BY <2>1, <3>1 DEF State
    <3>3. All(a.tokens, record) \o Characters(Append(a.literal, pattern[i]))
            = Out(a, record) \o <<<<pattern[i]>>>>
      BY <1>1, OutOfCharacter
    <3> QED
      BY <3>1, <3>2, <3>3 DEF Out
  <2> QED
    BY <1>1, <2>2, <2>3, <2>4 DEF b
<1>4. CASE ~starts_with(pattern, i, kTimestampPattern) /\ pattern[i] = "%" /\ i < Len(pattern)
  <2>1. c \in Char /\ i + 2 \in Nat /\ i # Len(pattern)
    BY <1>4
  <2>2. b = [next    |-> i + 2,
             literal |-> IF c \in DOMAIN Directive \cup {"%"} THEN <<>> ELSE <<"%", c>>,
             tokens  |-> IF c \in DOMAIN Directive THEN Append(before, Token(Directive[c], <<>>))
                         ELSE IF c = "%" THEN Append(before, Token("Literal", <<"%">>))
                         ELSE before]
    BY <1>1, <1>4, <2>1 DEF CompileStep
  <2>3. Length(pattern, i) = 2
    BY <1>4 DEF Length
  <2>4. Piece(pattern, i, record) =
          IF c \in DOMAIN Directive THEN <<Field(Directive[c], record)>>
          ELSE IF c = "%" THEN <<<<"%">>>> ELSE <<<<"%">>, <<c>>>>
    BY <1>4 DEF Piece
  <2>5. b.next = i + 2
    BY <2>2
  <2> HIDE DEF b
  <2>6. b \in State(Char) /\ Out(b, record) = Out(a, record) \o Piece(pattern, i, record)
    <3>1. CASE c \in DOMAIN Directive
      <4> DEFINE token == Token(Directive[c], <<>>)
      <4>1. b = [next |-> i + 2, literal |-> <<>>, tokens |-> Append(before, token)]
        BY <2>2, <3>1
      <4>2. Directive[c] \in Kinds
        BY <3>1, DirectiveKinds
      <4>3. token \in Tokens(Char)
        BY <4>2 DEF Tokens
      <4>4. Text(token, record) = <<Field(Directive[c], record)>>
        BY <4>2 DEF Text, Token, Kinds
      <4> HIDE DEF token
      <4>5. /\ Append(before, token) \in Seq(Tokens(Char))
            /\ All(Append(before, token), record) \o Characters(<<>>)
                 = Out(a, record) \o Text(token, record)
        BY <4>3, OutOfToken
      <4> HIDE DEF before
      <4>6. b \in State(Char)
        BY <2>1, <4>1, <4>5 DEF State
      <4>7. b.tokens = Append(before, token) /\ b.literal = <<>>
        BY <4>1
      <4>8. Out(b, record) = Out(a, record) \o Text(token, record)
        BY <4>5, <4>7 DEF Out
      <4> QED
        BY <2>4, <3>1, <4>4, <4>6, <4>8
    <3>2. CASE c \notin DOMAIN Directive /\ c = "%"
      <4> DEFINE token == Token("Literal", <<"%">>)
      <4>1. b = [next |-> i + 2, literal |-> <<>>, tokens |-> Append(before, token)]
        BY <2>2, <3>2
      <4>2. <<"%">> \in Seq(Char)
        OBVIOUS
      <4>3. token \in Tokens(Char)
        BY <4>2 DEF Tokens
      <4>4. Text(token, record) = <<<<"%">>>>
        BY CharactersOfOne DEF Text, Token
      <4> HIDE DEF token
      <4>5. /\ Append(before, token) \in Seq(Tokens(Char))
            /\ All(Append(before, token), record) \o Characters(<<>>)
                 = Out(a, record) \o Text(token, record)
        BY <4>3, OutOfToken
      <4> HIDE DEF before
      <4>6. b \in State(Char)
        BY <2>1, <4>1, <4>5 DEF State
      <4>7. b.tokens = Append(before, token) /\ b.literal = <<>>
        BY <4>1
      <4>8. Out(b, record) = Out(a, record) \o Text(token, record)
        BY <4>5, <4>7 DEF Out
      <4> QED
        BY <2>4, <3>2, <4>4, <4>6, <4>8
    <3>3. CASE c \notin DOMAIN Directive /\ c # "%"
      <4>1. b = [next |-> i + 2, literal |-> <<"%", c>>, tokens |-> before]
        BY <2>2, <3>3
      <4>2. /\ before \in Seq(Tokens(Char))
            /\ All(before, record) \o Characters(<<"%", c>>)
                 = Out(a, record) \o <<<<"%">>, <<c>>>>
        BY OutOfUnknown
      <4> HIDE DEF before
      <4>3. b \in State(Char)
        <5>1. <<"%", c>> \in Seq(Char)
          BY <2>1
        <5> QED
          BY <2>1, <4>1, <4>2, <5>1 DEF State
      <4>4. b.tokens = before /\ b.literal = <<"%", c>>
        BY <4>1
      <4>5. Out(b, record) = Out(a, record) \o <<<<"%">>, <<c>>>>
        BY <4>2, <4>4 DEF Out
      <4> QED
        BY <2>4, <3>3, <4>3, <4>5
    <3> QED
      BY <3>1, <3>2, <3>3
  <2> QED
    BY <2>3, <2>5, <2>6 DEF b
<1> QED
  BY <1>2, <1>3, <1>4

LEMMA PieceSeq ==
  ASSUME NEW Char, "%" \in Char, NEW pattern \in Seq(Char), NEW i \in 1 .. Len(pattern), NEW record
  PROVE  Piece(pattern, i, record) \in Seq(Items(Char, record))
<1> DEFINE c == pattern[i + 1]
           d == pattern[i]
           I == Items(Char, record)
<1>1. \A x \in Char : <<<<x>>>> \in Seq(I)
  <2> TAKE x \in Char
  <2> DEFINE y == <<x>>
  <2>1. y \in I
    BY DEF Items
  <2> HIDE DEF y, I
  <2>2. <<y>> \in Seq(I)
    BY <2>1
  <2> QED
    BY <2>2 DEF y
<1>2. CASE starts_with(pattern, i, kTimestampPattern)
  <2> DEFINE token == Token("Timestamp", <<>>)
  <2>1. token \in Tokens(Char) /\ Text(token, record) = Stamp(record.timestamp)
    BY DEF Tokens, Text, Token
  <2> QED
    BY <1>2, <2>1, TextIsItems DEF Piece
<1>3. CASE ~starts_with(pattern, i, kTimestampPattern) /\ ~(d = "%" /\ i < Len(pattern))
  <2>1. Piece(pattern, i, record) = <<<<d>>>>
    BY <1>3 DEF Piece
  <2> QED
    BY <1>1, <2>1
<1>4. CASE ~starts_with(pattern, i, kTimestampPattern) /\ d = "%" /\ i < Len(pattern)
  <2>1. Piece(pattern, i, record) =
          IF c \in DOMAIN Directive THEN <<Field(Directive[c], record)>>
          ELSE IF c = "%" THEN <<<<"%">>>> ELSE <<<<"%">>, <<c>>>>
    BY <1>4 DEF Piece
  <2>2. c \in Char
    BY <1>4
  <2>3. CASE c \in DOMAIN Directive
    <3>1. Field(Directive[c], record) \in I
      BY <2>3, DirectiveKinds DEF Items
    <3> HIDE DEF I
    <3> QED
      BY <2>1, <2>3, <3>1 DEF I
  <2>4. CASE c \notin DOMAIN Directive /\ c = "%"
    BY <1>1, <2>1, <2>4
  <2>5. CASE c \notin DOMAIN Directive /\ c # "%"
    <3> DEFINE x == <<"%">>
               y == <<c>>
    <3>1. x \in I /\ y \in I
      BY <2>2 DEF Items
    <3> HIDE DEF x, y, I
    <3>2. <<x, y>> \in Seq(I)
      BY <3>1
    <3> QED
      BY <2>1, <2>5, <3>2 DEF x, y, I
  <2> QED
    BY <2>3, <2>4, <2>5
<1> QED
  BY <1>2, <1>3, <1>4

LEMMA MeaningSeq ==
  ASSUME NEW Char, "%" \in Char, NEW pattern \in Seq(Char), NEW record
  PROVE  \A i \in 1 .. Len(pattern) + 1 :
           MeaningFrom(pattern, record)[i] \in Seq(Items(Char, record))
<1> DEFINE n == Len(pattern)
           M == MeaningFrom(pattern, record)
           I == Items(Char, record)
           S == {m \in Nat : \A i \in 1 .. n + 1 : n + 1 - i <= m => M[i] \in Seq(I)}
<1>1. n \in Nat
  OBVIOUS
<1>2. /\ M[n + 1] = <<>>
      /\ \A i \in 1 .. n : M[i] = Piece(pattern, i, record) \o M[i + Length(pattern, i)]
  BY <1>1, MeaningDefined
<1>3. \A i \in 1 .. n : Piece(pattern, i, record) \in Seq(I)
  BY PieceSeq
<1>4. \A i \in 1 .. n : Length(pattern, i) \in 1 .. (n + 1) - i
  BY <1>1, LengthBound
<1> HIDE DEF n, M, I
<1>5. 0 \in S
  <2> SUFFICES ASSUME NEW i \in 1 .. n + 1, n + 1 - i <= 0 PROVE M[i] \in Seq(I)
    OBVIOUS
  <2>1. i = n + 1
    BY <1>1
  <2> QED
    BY <2>1, <1>2, EmptySeq
<1>6. ASSUME NEW m \in Nat, m \in S PROVE m + 1 \in S
  <2> SUFFICES ASSUME NEW i \in 1 .. n + 1, n + 1 - i <= m + 1 PROVE M[i] \in Seq(I)
    OBVIOUS
  <2>1. CASE i = n + 1
    BY <2>1, <1>2, EmptySeq
  <2>2. CASE i # n + 1
    <3>1. i \in 1 .. n
      BY <2>2, <1>1
    <3> DEFINE j == i + Length(pattern, i)
    <3>2. j \in 1 .. n + 1 /\ n + 1 - j <= m
      <4>1. Length(pattern, i) \in 1 .. (n + 1) - i
        BY <3>1, <1>4
      <4> QED
        BY <4>1, <3>1, <1>1
    <3> HIDE DEF j
    <3>3. M[j] \in Seq(I)
      BY <3>2, <1>6
    <3>4. M[i] = Piece(pattern, i, record) \o M[j] /\ Piece(pattern, i, record) \in Seq(I)
      BY <3>1, <1>2, <1>3 DEF j
    <3> QED
      BY <3>3, <3>4, ConcatProperties
  <2> QED
    BY <2>1, <2>2
<1>7. \A m \in Nat : m \in S
  <2> HIDE DEF S
  <2> QED
    BY <1>5, <1>6, Induct
<1>8. ASSUME NEW i \in 1 .. n + 1 PROVE M[i] \in Seq(I)
  <2>1. n + 1 \in Nat /\ n + 1 - i <= n + 1
    BY <1>1
  <2> QED
    BY <2>1, <1>7
<1> QED
  BY <1>8 DEF n, M, I

\* What has been compiled after i rounds prints the meaning of the pattern, but
\* for the meaning of the rest.
LEMMA CompiledSoFar ==
  ASSUME NEW Char, "%" \in Char, NEW pattern \in Seq(Char), NEW record
  PROVE  LET a == After(pattern)[Len(pattern)]
         IN a \in State(Char) /\ Out(a, record) = MeaningFrom(pattern, record)[1]
<1> DEFINE n == Len(pattern)
           A == After(pattern)
           M == MeaningFrom(pattern, record)
           I == Items(Char, record)
           rest(i) == IF A[i].next > i + 1 THEN A[i].next ELSE i + 1
           Done(i) == /\ A[i] \in State(Char) /\ rest(i) \in 1 .. n + 1
                      /\ Out(A[i], record) \o M[rest(i)] = M[1]
           S == {i \in Nat : i <= n => Done(i)}
<1>1. n \in Nat
  OBVIOUS
<1>2. A[0] = Start /\ \A i \in 1 .. n : A[i] = CompileStep(pattern, A[i - 1], i)
  BY <1>1, AfterDefined
<1>3. /\ M[n + 1] = <<>>
      /\ \A i \in 1 .. n : M[i] = Piece(pattern, i, record) \o M[i + Length(pattern, i)]
  BY <1>1, MeaningDefined
<1>4. \A i \in 1 .. n + 1 : M[i] \in Seq(I)
  BY MeaningSeq
<1>5. \A i \in 1 .. n : Length(pattern, i) \in 1 .. (n + 1) - i
  BY <1>1, LengthBound
<1>6. \A i \in 1 .. n : Piece(pattern, i, record) \in Seq(I)
  BY PieceSeq
<1> HIDE DEF A, M, I
<1>7. 0 \in S
  <2>1. Start \in State(Char) /\ Start.next = 1 /\ Start.tokens = <<>> /\ Start.literal = <<>>
    BY DEF State, Start
  <2>2. rest(0) = 1
    BY <2>1, <1>2
  <2>3. All(<<>>, record) = <<>>
    <3>1. Len(<<>>) = 0
      OBVIOUS
    <3> QED
      BY <3>1, PrintedDefined DEF All
  <2>4. Out(Start, record) = <<>>
    BY <2>1, <2>3, NoCharacters DEF Out
  <2>5. <<>> \o M[1] = M[1]
    <3>1. M[1] \in Seq(I)
      BY <1>1, <1>4
    <3> QED
      BY <3>1, ConcatEmptySeq
  <2> HIDE DEF rest
  <2>6. Done(0)
    <3>1. A[0] \in State(Char) /\ Out(A[0], record) = <<>>
      BY <2>1, <2>4, <1>2
    <3>2. rest(0) \in 1 .. n + 1
      BY <2>2, <1>1
    <3>3. Out(A[0], record) \o M[rest(0)] = M[1]
      BY <3>1, <2>2, <2>5
    <3> QED
      BY <3>1, <3>2, <3>3
  <2> HIDE DEF Done
  <2> QED
    BY <2>6
<1>8. ASSUME NEW i \in Nat, i \in S PROVE i + 1 \in S
  <2> DEFINE a == A[i]
             b == A[i + 1]
  <2> HIDE DEF Done
  <2> SUFFICES ASSUME i + 1 <= n PROVE Done(i + 1)
    OBVIOUS
  <2>0. Done(i)
    BY <1>1, <1>8
  <2> USE DEF Done
  <2>1. /\ i + 1 \in 1 .. n /\ (i + 1) - 1 = i /\ i <= n
    BY <1>1
  <2>2. /\ a \in State(Char) /\ rest(i) \in 1 .. n + 1
        /\ Out(a, record) \o M[rest(i)] = M[1]
    BY <2>0
  <2>3. b = CompileStep(pattern, a, i + 1)
    BY <2>1, <1>2
  <2>4. a.next \in Nat
    BY <2>2 DEF State
  <2>5. CASE i + 1 < a.next
    <3>1. b = a
      BY <2>3, <2>5 DEF CompileStep
    <3>2. rest(i) = a.next /\ rest(i + 1) = a.next
      BY <3>1, <2>4, <2>5
    <3> HIDE DEF rest
    <3> QED
      BY <3>1, <3>2, <2>2
  <2>6. CASE ~(i + 1 < a.next)
    <3>1. rest(i) = i + 1
      BY <2>4, <2>6
    <3>2. a.next <= i + 1
      BY <2>4, <2>6
    <3> DEFINE piece == Piece(pattern, i + 1, record)
               j == (i + 1) + Length(pattern, i + 1)
    <3> HIDE DEF a
    <3>3. /\ b \in State(Char) /\ Out(b, record) = Out(a, record) \o piece
          /\ (IF b.next > (i + 1) + 1 THEN b.next ELSE (i + 1) + 1) = j
      BY <2>1, <2>2, <2>3, <3>2, RoundPrintsPiece
    <3>4. rest(i + 1) = j
      BY <3>3
    <3>5. j \in 1 .. n + 1
      <4>1. Length(pattern, i + 1) \in 1 .. (n + 1) - (i + 1)
        BY <2>1, <1>5
      <4> QED
        BY <4>1, <2>1, <1>1
    <3>6. M[i + 1] = piece \o M[j] /\ piece \in Seq(I)
      BY <2>1, <1>3, <1>6
    <3>7. M[j] \in Seq(I) /\ Out(a, record) \in Seq(I)
      BY <3>5, <1>4, <2>2, OutSeq DEF I
    <3> HIDE DEF piece, j, b, rest
    <3>8. (Out(a, record) \o piece) \o M[j] = Out(a, record) \o (piece \o M[j])
      <4> DEFINE u == Out(a, record)
                 v == M[j]
      <4>1. u \in Seq(I) /\ piece \in Seq(I) /\ v \in Seq(I)
        BY <3>6, <3>7
      <4> HIDE DEF u, v
      <4>2. (u \o piece) \o v = u \o (piece \o v)
        BY <4>1, ConcatAssociative
      <4> QED
        BY <4>2 DEF u, v
    <3> QED
      BY <2>2, <3>1, <3>3, <3>4, <3>5, <3>6, <3>8 DEF b
  <2> QED
    BY <2>5, <2>6
<1>9. Done(n)
  <2> HIDE DEF Done
  <2>1. \A i \in Nat : i \in S
    <3> HIDE DEF S
    <3> QED
      BY <1>7, <1>8, Induct
  <2> QED
    BY <2>1, <1>1
<1>10. rest(n) = n + 1
  <2>1. A[n].next \in Nat
    BY <1>9 DEF State
  <2> QED
    BY <2>1, <1>9, <1>1
<1>11. Out(A[n], record) \o <<>> = Out(A[n], record)
  <2>1. Out(A[n], record) \in Seq(I)
    BY <1>9, OutSeq DEF I
  <2> QED
    BY <2>1, ConcatEmptySeq
<1> HIDE DEF rest
<1>12. Out(A[n], record) = M[1]
  BY <1>3, <1>9, <1>10, <1>11
<1> QED
  BY <1>9, <1>12 DEF A, M

\* The compiled form of a pattern is a sequence of tokens: compile_pattern.
THEOREM CompiledTokens ==
  ASSUME NEW Char, NEW pattern \in Seq(Char)
  PROVE  compile_pattern(pattern) \in Seq(Tokens(Char \cup {"%"}))
<1> DEFINE C == Char \cup {"%"}
           a == After(pattern)[Len(pattern)]
<1>1. pattern \in Seq(C)
  BY SeqMonotonic
<1>2. Len(pattern) \in Nat /\ "%" \in C
  OBVIOUS
<1> HIDE DEF C
<1>3. a \in State(C)
  BY <1>1, <1>2, CompiledSoFar
<1>4. compile_pattern(pattern) = flush_literal(a.tokens, a.literal)
  BY <1>2, AfterDefined
<1> HIDE DEF a
<1>5. a.tokens \in Seq(Tokens(C)) /\ a.literal \in Seq(C)
  BY <1>3 DEF State
<1>6. flush_literal(a.tokens, a.literal) \in Seq(Tokens(C))
  BY <1>5, AllOfFlush
<1> QED
  BY <1>4, <1>6 DEF C

\* Whatever the pattern and the record are, what the compiled pattern prints of
\* the record is what the pattern means for it: compile_pattern and format.
THEOREM CompiledPatternPrintsMeaning ==
  ASSUME NEW Char, NEW pattern \in Seq(Char), NEW record
  PROVE  Render(compile_pattern(pattern), record) = Meaning(pattern, record)
<1> DEFINE C == Char \cup {"%"}
           a == After(pattern)[Len(pattern)]
           tokens == compile_pattern(pattern)
           M == MeaningFrom(pattern, record)
           end == <<"\n">>
<1>1. pattern \in Seq(C)
  BY SeqMonotonic
<1>2. Len(pattern) \in Nat /\ "%" \in C
  OBVIOUS
<1> HIDE DEF C
<1>3. a \in State(C) /\ Out(a, record) = M[1]
  BY <1>1, <1>2, CompiledSoFar
<1>4. tokens = flush_literal(a.tokens, a.literal)
  BY <1>2, AfterDefined
<1> HIDE DEF a
<1>5. a.tokens \in Seq(Tokens(C)) /\ a.literal \in Seq(C)
  BY <1>3 DEF State
<1>6. tokens \in Seq(Tokens(C)) /\ All(tokens, record) = Out(a, record)
  BY <1>4, <1>5, AllOfFlush DEF Out
<1>7. Render(tokens, record) = Append(All(tokens, record), end)
  <2>1. Len(tokens) \in Nat
    BY <1>6
  <2> QED
    BY <2>1, PrintedDefined
<1>8. Meaning(pattern, record) = M[1] \o <<end>>
  BY <1>2, MeaningDefined
<1>9. Out(a, record) \in Seq(Items(C, record))
  BY <1>3, OutSeq
<1> DEFINE all == Out(a, record)
<1>10. Append(all, end) = all \o <<end>>
  <2> HIDE DEF all, end
  <2> DEFINE E == Items(C, record) \cup {end}
  <2>1. all \in Seq(E)
    BY <1>9, SeqMonotonic DEF all
  <2>2. end \in E
    OBVIOUS
  <2> HIDE DEF E
  <2> QED
    BY <2>1, <2>2
<1> QED
  BY <1>3, <1>6, <1>7, <1>8, <1>10
=============================================================================
