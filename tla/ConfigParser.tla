---------------------------- MODULE ConfigParser ----------------------------
(***************************************************************************)
(* logger::ConfigParser (src/parser.cpp) as operators: what one line of a  *)
(* configuration file does to a Config (include/logger/config.hpp).        *)
(*                                                                         *)
(* A line is [hash, words]: does its first visible character comment it    *)
(* out, and its words, which are what its = signs separate.  A word is     *)
(* [text, upper, pad]: its letters without regard to case, is any of them  *)
(* a capital, and on which of its sides there is white space (a word of    *)
(* nothing else is empty, with white space on its left).  A string is a    *)
(* sequence of words, an optional a set of at most one value.              *)
(***************************************************************************)
EXTENDS Formatter

CONSTANTS
  Numeral,    \* the texts of decimal digits under consideration, with their values
  MaxSize     \* the largest size_t

ASSUME ParserAssumption ==
  MaxSize \in Nat /\ \A t \in DOMAIN Numeral : Numeral[t] \in Nat

Word(text) == [text |-> text, upper |-> FALSE, pad |-> {}]

DefaultConfig ==
  [mode |-> "Async", level |-> Level.Info, colored_output |-> TRUE,
   flush_on_error |-> TRUE, pattern |-> <<Word(kDefaultPattern)>>,
   enable_console |-> TRUE, enable_file |-> FALSE,
   file_path |-> <<Word("logs/application.log")>>, rotation_enabled |-> FALSE,
   max_file_size |-> 10 * 1024 * 1024, max_file |-> 5, queue_capacity |-> 65536,
   overflowPolicy |-> "Block", flush_interval_ms |-> 1000]

\* The member a key sets, with its other names.
KeyField ==
  [mode |-> "mode", level |-> "level", pattern |-> "pattern",
   queue_size |-> "queue_capacity", queue_capacity |-> "queue_capacity",
   overflow_policy |-> "overflowPolicy",
   console |-> "enable_console", console_enabled |-> "enable_console",
   file |-> "enable_file", file_enabled |-> "enable_file", file_path |-> "file_path",
   rotation |-> "rotation_enabled", rotation_enabled |-> "rotation_enabled",
   rotation_max_file_size |-> "max_file_size", rotation_max_files |-> "max_file",
   flush_interval |-> "flush_interval_ms", flush_interval_ms |-> "flush_interval_ms",
   colored_output |-> "colored_output", flush_on_error |-> "flush_on_error"]

parse_level ==
  [trace |-> Level.Trace, debug |-> Level.Debug, info |-> Level.Info,
   warn |-> Level.Warn, warning |-> Level.Warn, error |-> Level.Error,
   fatal |-> Level.Fatal, off |-> Level.Off]

parse_mode == [sync |-> "Sync", synchronous |-> "Sync",
               async |-> "Async", asynchronous |-> "Async"]

parse_overflow_policy ==
  [block |-> "Block", dropnewest |-> "DropNewest", drop_newest |-> "DropNewest",
   dropoldest |-> "DropOldest", drop_oldest |-> "DropOldest", discard |-> "Discard"]

parse_bool == [t \in {"true", "yes", "on", "1", "false", "no", "off", "0"} |->
                 t \in {"true", "yes", "on", "1"}]

\* from_chars over the whole text: digits only, and a number that fits.
parse_size == [t \in {n \in DOMAIN Numeral : Numeral[n] <= MaxSize} |-> Numeral[t]]

\* The table a member's values are looked up in; pattern and file_path have none.
Parser ==
  [f \in {"mode", "level", "overflowPolicy", "enable_console", "enable_file",
          "rotation_enabled", "colored_output", "flush_on_error", "queue_capacity",
          "max_file_size", "max_file", "flush_interval_ms"} |->
     CASE f = "mode"           -> parse_mode
       [] f = "level"          -> parse_level
       [] f = "overflowPolicy" -> parse_overflow_policy
       [] f \in {"enable_console", "enable_file", "rotation_enabled", "colored_output",
                 "flush_on_error"} -> parse_bool
       [] f \in {"queue_capacity", "max_file_size", "max_file", "flush_interval_ms"} -> parse_size]

\* White space at the outer ends of a string goes, on both sides of a word that
\* is nothing else.
trim(s) ==
  LET cut(w, end) == [w EXCEPT !.pad = IF Len(w.text) = 0 THEN {} ELSE @ \ {end}]
      start == [s EXCEPT ![1] = cut(@, "left")]
  IN IF s = <<>> THEN s ELSE [start EXCEPT ![Len(s)] = cut(@, "right")]

lower(s) == [i \in DOMAIN s |-> [s[i] EXCEPT !.upper = FALSE]]

\* A string compared with the words of a table.
Lookup(table, s) ==
  {table[text] : text \in {t \in DOMAIN table : lower(trim(s)) = <<Word(t)>>}}

\* Mutant: a value that cannot be parsed puts the default back.
ApplyOrDefault(config, key, value) ==
  LET fields == Lookup(KeyField, key) IN
  [f \in DOMAIN config |->
     IF f \notin fields THEN config[f]
     ELSE IF f \in {"pattern", "file_path"} THEN trim(value)
     ELSE IF Lookup(Parser[f], value) = {} THEN DefaultConfig[f]
     ELSE CHOOSE v \in Lookup(Parser[f], value) : TRUE]

\* An unknown key or a value that cannot be parsed changes nothing.
apply(config, key, value) ==
  LET fields == Lookup(KeyField, key) IN
  [f \in DOMAIN config |->
     IF f \notin fields THEN config[f]
     ELSE IF f \in {"pattern", "file_path"} THEN trim(value)
     ELSE IF Lookup(Parser[f], value) = {} THEN config[f]
     ELSE CHOOSE v \in Lookup(Parser[f], value) : TRUE]

\* The body of parse's loop: comments, blank lines and lines without = are
\* skipped; the first = separates the key from the value.
parse_line(config, line) ==
  LET stripped == trim(line.words) IN
  IF line.hash \/ Len(stripped) < 2 THEN config
  ELSE apply(config, <<stripped[1]>>, Tail(stripped))
=============================================================================
