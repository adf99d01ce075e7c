------------------------------- MODULE Startup -------------------------------
(***************************************************************************)
(* How a logger comes to be: ConfigParser::parse_file reads a file line by *)
(* line, and the constructor of logger::Logger (src/logger.cpp) builds the *)
(* formatter, the backend and the sinks from the Config.  An exception of  *)
(* the file or of a sink leaves no logger behind.                          *)
(***************************************************************************)
EXTENDS ConfigParser

CONSTANTS
  Char,       \* the characters of patterns
  Texts,      \* the files that may be read, as sequences of lines
  BadPaths    \* the texts of paths FileSink cannot open: no directory part,
              \* or a file or directory that cannot be created

IsSequence(s) == Len(s) \in Nat /\ s = [n \in 1 .. Len(s) |-> s[n]]

\* What getline and find('=') can leave of a line: at least one word, and for
\* the pattern the characters of its value.
IsLine(line) ==
  /\ line.hash \in BOOLEAN
  /\ IsSequence(line.words) /\ Len(line.words) > 0
  /\ \A n \in 1 .. Len(line.words) :
       LET w == line.words[n] IN
       /\ w = [text |-> w.text, upper |-> w.upper, pad |-> w.pad]
       /\ w.upper \in BOOLEAN /\ w.pad \subseteq {"left", "right"}
       /\ line.words[1].text = "pattern" /\ n > 1 => w.text \in Seq(Char)

ASSUME StartupAssumption ==
  \A t \in Texts : IsSequence(t) /\ \A n \in 1 .. Len(t) : IsLine(t[n])

VARIABLES
  text,       \* the file
  position,   \* how many of its lines getline has returned
  config,
  phase,      \* how far the program has come
  backend,    \* what m_backend points to
  m_level, m_tokens, m_sinks

built == <<m_level, m_tokens, m_sinks>>
vars  == <<text, position, config, phase, backend, built>>

StartTypeOK ==
  /\ position \in 0 .. Len(text)
  /\ DOMAIN config = DOMAIN DefaultConfig
  /\ \A f \in DOMAIN Parser : config[f] \in Range(Parser[f]) \cup {DefaultConfig[f]}
  /\ phase \in {"open", "reading", "parsed", "console", "file", "unwind", "alive", "failed"}
  /\ backend \in {"none", "AsyncBackend", "SyncBackend"}
  /\ m_level \in 0 .. 6
  /\ Len(m_sinks) <= 2

Init ==
  /\ text \in Texts
  /\ position = 0 /\ config = DefaultConfig /\ phase = "open"
  /\ backend = "none"
  /\ m_level = Level.Info /\ m_tokens = <<>> /\ m_sinks = <<>>

At(from, to) == phase = from /\ phase' = to

\* parse_file throws when the file cannot be opened.
OpenFile ==
  /\ At("open", "reading") \/ At("open", "failed")
  /\ UNCHANGED <<text, position, config, backend, built>>

\* Mutant: two calls of getline in each round.
ReadLineSkips ==
  /\ phase = "reading"
  /\ position < Len(text)
  /\ position' = position + 2
  /\ config' = parse_line(config, text[position + 1])
  /\ UNCHANGED <<text, phase, backend, built>>

ReadLine ==
  /\ phase = "reading"
  /\ position < Len(text)
  /\ position' = position + 1
  /\ config' = parse_line(config, text[position + 1])
  /\ UNCHANGED <<text, phase, backend, built>>

EndOfFile ==
  /\ At("reading", "parsed")
  /\ position = Len(text)
  /\ UNCHANGED <<text, position, config, backend, built>>

\* The characters of a string value.
Joined(s) ==
  LET side(w, end) == IF end \in w.pad THEN <<" ">> ELSE <<>>
      word(w) == side(w, "left") \o w.text \o side(w, "right")
      joined[n \in 1 .. Len(s)] ==
        IF n = 1 THEN word(s[1]) ELSE joined[n - 1] \o <<"=">> \o word(s[n])
  IN joined[Len(s)]

\* Logger's initializers and the choice of the backend.
Construct ==
  /\ At("parsed", "console")
  /\ m_level' = config.level
  /\ m_tokens' = compile_pattern(Joined(config.pattern))
  /\ backend' = IF config.mode = "Async" THEN "AsyncBackend" ELSE "SyncBackend"
  /\ UNCHANGED <<text, position, config, m_sinks>>

AddConsole ==
  /\ At("console", "file")
  /\ m_sinks' = IF config.enable_console
                THEN Append(m_sinks, <<"ConsoleSink", config.colored_output>>)
                ELSE m_sinks
  /\ UNCHANGED <<text, position, config, backend, m_level, m_tokens>>

\* FileSink creates the directories of the path and opens the file, or throws.
FileSinkOpens == config.file_path[1].text \notin BadPaths

\* Mutant: a file sink that cannot be opened is left out.
AddFileQuiet ==
  /\ At("file", "alive")
  /\ m_sinks' = IF config.enable_file /\ FileSinkOpens
                THEN Append(m_sinks, <<"FileSink", config.file_path>>)
                ELSE m_sinks
  /\ UNCHANGED <<text, position, config, backend, m_level, m_tokens>>

AddFile ==
  /\ \/ /\ ~config.enable_file
        /\ At("file", "alive")
        /\ UNCHANGED m_sinks
     \/ /\ config.enable_file /\ FileSinkOpens
        /\ At("file", "alive")
        /\ m_sinks' = Append(m_sinks, <<"FileSink", config.file_path>>)
     \/ /\ config.enable_file /\ ~FileSinkOpens
        /\ At("file", "unwind")
        /\ UNCHANGED m_sinks
  /\ UNCHANGED <<text, position, config, backend, m_level, m_tokens>>

\* The exception of FileSink destroys the members built so far: the backend,
\* whose worker ends, and then the sinks.
Unwind ==
  /\ At("unwind", "failed")
  /\ backend' = "none"
  /\ m_sinks' = <<>>
  /\ UNCHANGED <<text, position, config, m_level, m_tokens>>

Next == \/ OpenFile \/ ReadLine \/ EndOfFile
        \/ Construct \/ AddConsole \/ AddFile \/ Unwind

Spec == Init /\ [][Next]_vars
-----------------------------------------------------------------------------
(* Properties *)

\* The value a line gives a member, read off the table of supported keys in
\* README.md: the keys and values are compared without case and outer white
\* space, a # line is a comment, and what is unknown or invalid gives none.
Given(f, line) ==
  LET value == trim(Tail(trim(line.words)))
      named == \E key \in DOMAIN KeyField :
                 KeyField[key] = f /\ line.words[1].text = key
  IN IF line.hash \/ Len(line.words) = 1 \/ ~named THEN {}
     ELSE IF f \in {"pattern", "file_path"} THEN {value}
     ELSE IF Len(value) = 1 /\ value[1].text \in DOMAIN Parser[f]
     THEN {Parser[f][value[1].text]} ELSE {}

\* What the file as a whole says of a member.
Setting(f) ==
  LET lines == {n \in DOMAIN text : Given(f, text[n]) # {}}
  IN IF lines = {} THEN DefaultConfig[f]
     ELSE CHOOSE value \in Given(f, text[Max(lines)]) : TRUE

\* Every member has the value of the last line that gives it one, under any of
\* its names, or its default: an invalid line, a comment or a line for another
\* member never takes an earlier setting away.
LastValidWins ==
  phase = "parsed" => \A f \in DOMAIN config : config[f] = Setting(f)

Sample == LogRecord(1, Level.Warn, "thread", "process", "here", "text")

\* The compiled pattern prints what the pattern means: literals, timestamps
\* and directives in their order, with nothing lost where one ends and the
\* next begins, and incomplete or unknown directives as they stand.
PatternMeaning ==
  phase = "console" => Render(m_tokens, Sample) = Meaning(Joined(config.pattern), Sample)

AskedSinks ==
  (IF Setting("enable_console")
   THEN <<<<"ConsoleSink", Setting("colored_output")>>>> ELSE <<>>) \o
  (IF Setting("enable_file") THEN <<<<"FileSink", Setting("file_path")>>>> ELSE <<>>)

AskedFileOpens == Setting("enable_file") => Setting("file_path")[1].text \notin BadPaths

\* From the file to the logger: it has the backend of the mode, the level, and
\* the sinks in their order that the lines of the file add up to.  No logger
\* comes to be without a file sink it was asked for, and one is missing only
\* because that sink's file or the configuration itself could not be opened.
BuiltAsAsked ==
  /\ phase = "alive" =>
       /\ backend = IF Setting("mode") = "Async" THEN "AsyncBackend" ELSE "SyncBackend"
       /\ m_level = Setting("level")
       /\ m_sinks = AskedSinks /\ AskedFileOpens
  /\ phase = "failed" => position = 0 \/ ~AskedFileOpens
=============================================================================
