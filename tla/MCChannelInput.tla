--------------------------- MODULE MCChannelInput ---------------------------
(* ChannelInput for three kinds of host: one that types a command line of   *)
(* any characters the parser looks at, one that types anything with         *)
(* backslashes and lines that are too long, and one that makes a call,      *)
(* sends pluses and other bytes, and types on.                              *)
EXTENDS ChannelInput

CONSTANTS LineLen, TextLen, DataLen   \* bounds: how long their texts are

Characters == {"A", "T", "D", "9", "+", "x", ";", "=", ",", "?", QUOTE, ESCAPE, NEWLINE}
Texts(S, n) == UNION {[1..m -> S] : m \in 0..n}
CommandScripts ==
  {<<"A", "T">> \o t \o <<NEWLINE>> : t \in Texts({"+", "x", ";", "=", ",", "?", QUOTE, ESCAPE}, LineLen)}
ReaderScripts == {<<"x", "x", "x", "x">> \o t : t \in Texts({"x", ESCAPE, NEWLINE}, TextLen)}
DialLine == <<"A", "T", "D", "9", NEWLINE>>
DataScripts ==
  {DialLine \o t \o u : t \in Texts({"+", "x"}, DataLen), u \in {<<>>, <<"x", NEWLINE>>, DialLine \o <<"+">>}}
HostScripts == CommandScripts \cup ReaderScripts \cup DataScripts
=============================================================================
