----------------------------- MODULE MCStartup -----------------------------
(* The instance of Startup for TLC. *)
EXTENDS Startup

W(t, upper, pad) == [text |-> t, upper |-> upper, pad |-> pad]
L(words)            == [hash |-> FALSE, words |-> words]
KV(key, value)      == L(<<Word(key), Word(value)>>)

\* Lines that set the same few members, well and badly.
MCLines ==
  { KV("mode", "sync"), KV("mode", "synchron"), KV("level", "warning"),
    L(<<W("level", TRUE, {"left", "right"}), W("off", TRUE, {"left", "right"})>>),
    L(<<Word("level"), Word("off"), Word("debug")>>),
    [hash |-> TRUE, words |-> <<Word("level"), Word("trace")>>],
    L(<<W("", FALSE, {"left"})>>), L(<<Word("level")>>), L(<<Word(""), Word("info")>>),
    KV("colour", "1"), KV("console", "0"), KV("console_enabled", "yes"),
    KV("console_enabled", "maybe"), KV("file", "on"), KV("file_enabled", ""),
    KV("file_path", "app.log"), KV("file_path", ""), L(<<Word("file_path"), W("d/x", TRUE, {"right"}), W("y", FALSE, {"left"})>>),
    KV("queue_size", "0"), KV("queue_capacity", "1024"), KV("queue_size", "16777216"),
    KV("overflow_policy", "drop_oldest"), KV("rotation_max_files", "01"),
    KV("rotation_max_file_size", "1k"),
    L(<<Word("file_path"), Word("d"), W("", FALSE, {"left"})>>) }

\* The texts of digits in these lines and in the tables.
MCNumeral == "0" :> 0 @@ "1" :> 1 @@ "01" :> 1 @@ "1024" :> 1024 @@ "16777216" :> 16777216

\* Pieces of patterns: whole, broken and adjoining directives and timestamps.
MCPieces == { <<"%">>, <<"m">>, <<"Y">>, <<"x">>, <<"#">>, kTimestampPattern,
              SubSeq(kTimestampPattern, 1, 5) }

MCChar == UNION {ToSet(s) : s \in MCPieces} \cup {"l"}

MCPatternTexts ==
  { <<L(<<Word("pattern"), W(FlattenSeq(s), FALSE, {"left", "right"})>>)>>
      : s \in BoundedSeq(MCPieces, 4) }
  \cup { <<L(<<Word("pattern"), W(<<"%", "l">>, FALSE, {"right"}), Word(<<"%", "m">>)>>)>>,
         <<L(<<Word("pattern"), Word(<<"%", "l">>), W(<<>>, FALSE, {"left"})>>)>> }

MCTexts == BoundedSeq(MCLines, 3) \cup MCPatternTexts
=============================================================================
