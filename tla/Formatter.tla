------------------------------ MODULE Formatter ------------------------------
(***************************************************************************)
(* logger::Formatter (src/formatter.cpp) as operators: what the compiler   *)
(* of patterns and the rendering of a token do.  A pattern is a sequence   *)
(* of characters.  A line is a sequence of items: <<c>> for a character c, *)
(* <<kind, value>> for what a token prints of a record.                    *)
(***************************************************************************)
EXTENDS Naturals, SequencesExt

\* Severities and their names (level.hpp); operator< compares the numbers.
Level == [Trace |-> 0, Debug |-> 1, Info |-> 2, Warn |-> 3, Error |-> 4,
          Fatal |-> 5, Off |-> 6]
KLevelNames == <<"TRACE", "DEBUG", "INFO", "WARN", "ERROR", "FATAL", "OFF">>
to_string(level) == KLevelNames[level + 1]

\* A record; logger_name keeps its initial value, for nothing sets it.
LogRecord(timestamp, level, thread_id, process_id, location, message) ==
  [timestamp |-> timestamp, level |-> level, thread_id |-> thread_id,
   process_id |-> process_id, file |-> location, function |-> location,
   line |-> location, message |-> message, logger_name |-> ""]

kTimestampPattern == <<"%", "Y", "-", "%", "m", "-", "%", "d", " ",
                       "%", "H", ":", "%", "M", ":", "%", "S">>
kDefaultPattern ==
  <<"[">> \o kTimestampPattern \o <<"]", " ", "[", "%", "l", "]", " ",
                                    "[", "T", "%", "t", "]", " ", "%", "m">>

starts_with(value, offset, prefix) ==
  /\ offset - 1 + Len(prefix) <= Len(value)
  /\ SubSeq(value, offset, offset - 1 + Len(prefix)) = prefix

\* The switch on the character after %; %% and unknown characters are not in it.
Directive ==
  LET named == [Y |-> "Year", d |-> "Day", H |-> "Hour", M |-> "Minute", S |-> "Second",
                l |-> "Level", L |-> "Level", t |-> "ThreadId", p |-> "ProcessId",
                f |-> "File", F |-> "Function", n |-> "LoggerName",
                m |-> "Message", v |-> "Message"]
  IN [c \in DOMAIN named \cup {"#"} |-> IF c = "#" THEN "Line" ELSE named[c]]

Token(kind, literal) == [kind |-> kind, literal |-> literal]

flush_literal(tokens, literal) ==
  IF literal = <<>> THEN tokens ELSE Append(tokens, Token("Literal", literal))

\* Mutant: a directive does not flush the literal before it.
CompileStepLate(pattern, a, i) ==
  IF i < a.next THEN a
  ELSE IF starts_with(pattern, i, kTimestampPattern)
  THEN [next |-> i + Len(kTimestampPattern), literal |-> <<>>,
        tokens |-> Append(flush_literal(a.tokens, a.literal), Token("Timestamp", <<>>))]
  ELSE IF pattern[i] # "%" THEN [a EXCEPT !.literal = Append(@, pattern[i])]
  ELSE IF i = Len(pattern) THEN [a EXCEPT !.literal = Append(@, "%")]
  ELSE LET c == pattern[i + 1] IN
       IF c \in DOMAIN Directive
       THEN [a EXCEPT !.next = i + 2, !.tokens = Append(@, Token(Directive[c], <<>>))]
       ELSE [a EXCEPT !.next = i + 2, !.literal = @ \o IF c = "%" THEN <<c>> ELSE <<"%", c>>]

\* The body of compile_pattern's loop at position i; a.next is the position it
\* goes on with.
CompileStep(pattern, a, i) ==
  LET before == flush_literal(a.tokens, a.literal) IN
  IF i < a.next THEN a
  ELSE IF starts_with(pattern, i, kTimestampPattern)
  THEN [next |-> i + Len(kTimestampPattern), literal |-> <<>>,
        tokens |-> Append(before, Token("Timestamp", <<>>))]
  ELSE IF pattern[i] # "%" THEN [a EXCEPT !.literal = Append(@, pattern[i])]
  ELSE IF i = Len(pattern) THEN [a EXCEPT !.literal = Append(@, "%")]
  ELSE LET c == pattern[i + 1] IN
       [next    |-> i + 2,
        literal |-> IF c \in DOMAIN Directive \cup {"%"} THEN <<>> ELSE <<"%", c>>,
        tokens  |-> IF c \in DOMAIN Directive THEN Append(before, Token(Directive[c], <<>>))
                    ELSE IF c = "%" THEN Append(before, Token("Literal", <<"%">>))
                    ELSE before]

compile_pattern(pattern) ==
  LET after[i \in 0 .. Len(pattern)] ==
        IF i = 0 THEN [next |-> 1, literal |-> <<>>, tokens |-> <<>>]
        ELSE CompileStep(pattern, after[i - 1], i)
      end == after[Len(pattern)]
  IN flush_literal(end.tokens, end.literal)

Characters(s) == [i \in DOMAIN s |-> <<s[i]>>]

\* "{:%Y-%m-%d %H:%M:%S}" of a second.
Stamp(second) ==
  <<<<"Year", second>>, <<"-">>, <<"Month", second>>, <<"-">>, <<"Day", second>>, <<" ">>,
    <<"Hour", second>>, <<":">>, <<"Minute", second>>, <<":">>, <<"Second", second>>>>

\* append_timestamp keeps, for each thread, the second it formatted last;
\* 0 stands for a cache that is not valid yet.
Refresh(cached_seconds, record) ==
  IF cached_seconds # record.timestamp THEN record.timestamp ELSE cached_seconds

\* A part of the time is taken from the record's own second, not the cache.
append_time_component(kind, record) == <<kind, record.timestamp>>

\* What a token that is neither a literal nor the full timestamp prints.
Field(kind, record) ==
  IF kind \in {"Year", "Month", "Day", "Hour", "Minute", "Second"}
  THEN append_time_component(kind, record)
  ELSE <<kind, CASE kind = "Level"      -> to_string(record.level)
                 [] kind = "ThreadId"   -> record.thread_id
                 [] kind = "ProcessId"  -> record.process_id
                 [] kind = "File"       -> record.file
                 [] kind = "Function"   -> record.function
                 [] kind = "Line"       -> record.line
                 [] kind = "LoggerName" -> record.logger_name
                 [] kind = "Message"    -> record.message>>

\* cached_seconds is the cache after Refresh.
append_token(buffer, token, record, cached_seconds) ==
  buffer \o CASE token.kind = "Literal"   -> Characters(token.literal)
              [] token.kind = "Timestamp" -> Stamp(cached_seconds)
              [] OTHER                    -> <<Field(token.kind, record)>>

\* format, by one thread with a fresh cache.
Render(tokens, record) ==
  LET buffer[n \in 0 .. Len(tokens)] ==
        IF n = 0 THEN <<>>
        ELSE append_token(buffer[n - 1], tokens[n], record, Refresh(0, record))
  IN Append(buffer[Len(tokens)], <<"\n">>)

\* What a pattern means for a record, read off the table of formatter.hpp:
\* the full timestamp first, then the directives, and a % that starts neither
\* stands for itself.
Meaning(pattern, record) ==
  LET n == Len(pattern)
      meaning[i \in 1 .. n + 1] ==
        IF i = n + 1 THEN <<>>
        ELSE IF starts_with(pattern, i, kTimestampPattern)
        THEN Stamp(record.timestamp) \o meaning[i + Len(kTimestampPattern)]
        ELSE IF pattern[i] = "%" /\ i < n
        THEN (IF pattern[i + 1] \in DOMAIN Directive
              THEN <<Field(Directive[pattern[i + 1]], record)>>
              ELSE IF pattern[i + 1] = "%" THEN <<<<"%">>>>
              ELSE <<<<"%">>, <<pattern[i + 1]>>>>) \o meaning[i + 2]
        ELSE <<<<pattern[i]>>>> \o meaning[i + 1]
  IN meaning[1] \o <<<<"\n">>>>
=============================================================================
