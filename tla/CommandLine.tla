----------------------------- MODULE CommandLine ----------------------------
(***************************************************************************)
(* What libs/at/param.c and on_cmd_line() of libs/at/engine.c make of a    *)
(* command line: at_split_args() cuts it into commands in place, writing   *)
(* over the characters it has read; on_cmd_line() walks over the result    *)
(* from one terminating zero to the next; at_cmd_parse() takes each command*)
(* apart and has at_split_args() cut its parameters.                       *)
(*                                                                         *)
(* A line is a sequence of characters, of which those that no code looks at*)
(* may be any strings.                                                     *)
(***************************************************************************)
EXTENDS Integers, Sequences, FiniteSets

CONSTANTS
  MaxCommands,   \* argc of the commands of a line (10)
  MaxParams      \* argc of the parameters of a command (sizeof(argv), 160)

ASSUME ArgcAssumption == MaxCommands \in Nat \ {0} /\ MaxParams \in Nat \ {0}

NUL == "NUL"
QUOTE == "\""
ESCAPE == "\\"

LeastOf(S) == CHOOSE i \in S : \A j \in S : i <= j

(* The numbers of a finite set, from the least on. *)
InOrder(S) == [k \in 1..Cardinality(S) |-> CHOOSE i \in S : Cardinality({j \in S : j <= i}) = k]

-----------------------------------------------------------------------------
(* at_split_args(): `in' is SS_DELIM, SS_ARG or SS_QUOTED_ARG, `escaped'    *)
(* SS_FLAG_ESCAPE; `out' is what has been written from the line's start on, *)
(* `starts' where the arguments begin in it. *)

Start == [in |-> "delim", escaped |-> FALSE, argc |-> 0, out |-> <<>>, starts |-> <<>>]

NextArg(s, kind, text, escape) ==
  [s EXCEPT !.in = kind, !.escaped = escape, !.starts = Append(@, Len(s.out) + 1), !.out = @ \o text]

MutantEndArg(s) == [s EXCEPT !.in = "delim", !.argc = @ + 1]
EndArg(s) == [s EXCEPT !.in = "delim", !.argc = @ + 1, !.out = Append(@, NUL)]

Between(s, c, delimiter) ==
  IF c = delimiter THEN s
  ELSE IF c = QUOTE THEN NextArg(s, "quoted", <<>>, FALSE)
  ELSE IF c = ESCAPE THEN NextArg(s, "arg", <<>>, TRUE)
  ELSE NextArg(s, "arg", <<c>>, FALSE)

Unescape(s, c, delimiter) ==
  [s EXCEPT !.escaped = FALSE, !.out = IF c \in {ESCAPE, QUOTE, delimiter} THEN Append(@, c) ELSE @]

Within(s, c, delimiter) ==
  IF c = (IF s.in = "quoted" THEN QUOTE ELSE delimiter) THEN EndArg(s)
  ELSE IF c = ESCAPE THEN [s EXCEPT !.escaped = TRUE]
  ELSE [s EXCEPT !.out = Append(@, c)]

Char(s, c, delimiter, limit) ==
  IF s.argc = limit THEN s
  ELSE IF s.in = "delim" THEN Between(s, c, delimiter)
  ELSE IF s.escaped THEN Unescape(s, c, delimiter)
  ELSE Within(s, c, delimiter)

(* The line afterwards, and where its arguments begin. *)
at_split_args(line, delimiter, limit) ==
  LET upTo[n \in 0..Len(line)] ==
        IF n = 0 THEN Start ELSE Char(upTo[n - 1], line[n], delimiter, limit)
      end == upTo[Len(line)]
  IN
  [starts |-> end.starts,
   text   |-> [i \in 1..(Len(line) + 1) |->
                 IF i <= Len(end.out) THEN end.out[i]
                 ELSE IF i = Len(end.out) + 1 \/ i > Len(line) THEN NUL ELSE line[i]]]

(* The string that begins at i. *)
EndOf(text, i) == LeastOf({j \in i..Len(text) : text[j] = NUL})
StringAt(text, i) == SubSeq(text, i, EndOf(text, i) - 1)

Args(line, delimiter, limit) ==
  LET split == at_split_args(line, delimiter, limit) IN
  [k \in DOMAIN split.starts |-> StringAt(split.text, split.starts[k])]

-----------------------------------------------------------------------------
(* at_cmd_parse(): a single character with the rest as its parameter, or a  *)
(* name, what it ends with, and behind the first = its parameters.          *)
EndsWith(s, t) == Len(s) >= Len(t) /\ SubSeq(s, Len(s) - Len(t) + 1, Len(s)) = t
Equals(s) == {i \in DOMAIN s : s[i] = "="}

Behind(s) == SubSeq(s, LeastOf(Equals(s)) + 1, Len(s))

Parse(s, args) ==
  IF s[1] \notin {"+", "#"}
  THEN [cmd |-> <<s[1]>>, type |-> "EXE", args |-> IF Len(s) > 1 THEN <<Tail(s)>> ELSE <<>>]
  ELSE
  CASE EndsWith(s, <<"=", "?">>) -> [cmd |-> SubSeq(s, 1, Len(s) - 2), type |-> "TST", args |-> <<>>]
    [] ~EndsWith(s, <<"=", "?">>) /\ EndsWith(s, <<"?">>) ->
         [cmd |-> SubSeq(s, 1, Len(s) - 1), type |-> "GET", args |-> <<>>]
    [] ~EndsWith(s, <<"?">>) /\ Equals(s) # {} ->
         [cmd |-> SubSeq(s, 1, LeastOf(Equals(s)) - 1), type |-> "SET", args |-> args]
    [] OTHER -> [cmd |-> s, type |-> "EXE", args |-> <<>>]

at_cmd_parse(s) == Parse(s, Args(Behind(s), ",", MaxParams))

-----------------------------------------------------------------------------
(* on_cmd_line(): the walk, for as many commands as were counted (the       *)
(* length left, which it also looks at, is not used up before: Aligned of   *)
(* ChannelInput); an empty one is passed over in silence. *)
IsCommandLine(line) == Len(line) > 2 /\ SubSeq(line, 1, 2) = <<"A", "T">>

Walk(split) ==
  LET at[k \in DOMAIN split.starts] == IF k = 1 THEN 1 ELSE EndOf(split.text, at[k - 1]) + 1
  IN  at

Commands(line) ==
  IF ~IsCommandLine(line) THEN <<>>
  ELSE LET split == at_split_args(SubSeq(line, 3, Len(line)), ";", MaxCommands)
           walked == [k \in DOMAIN split.starts |-> StringAt(split.text, Walk(split)[k])]
           some == InOrder({k \in DOMAIN walked : walked[k] # <<>>})
       IN  [n \in DOMAIN some |-> at_cmd_parse(walked[some[n]])]

-----------------------------------------------------------------------------
(* What is meant, where nothing is quoted or escaped: the pieces between    *)
(* delimiters, as many as there is room for, found without writing. *)
Begins(s, d) == {i \in DOMAIN s : s[i] # d /\ (i = 1 \/ s[i - 1] = d)}
Piece(s, d, i) == SubSeq(s, i, LeastOf({j \in i..Len(s) : j = Len(s) \/ s[j + 1] = d}))
Pieces(s, d, limit) ==
  LET begins == InOrder(Begins(s, d)) IN
  [k \in 1..(IF Len(begins) < limit THEN Len(begins) ELSE limit) |-> Piece(s, d, begins[k])]

Plain(line) == {QUOTE, ESCAPE} \cap {line[i] : i \in DOMAIN line} = {}
Written(line) ==
  LET pieces == Pieces(SubSeq(line, 3, Len(line)), ";", MaxCommands) IN
  [k \in DOMAIN pieces |-> Parse(pieces[k], Pieces(Behind(pieces[k]), ",", MaxParams))]
=============================================================================
