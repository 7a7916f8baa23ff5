---------------------------- MODULE ChannelInput ----------------------------
(***************************************************************************)
(* What a channel makes of the characters it is sent: at_engine_input() of *)
(* libs/at/engine.c in command and data mode, and the reader of            *)
(* libs/util/line_reader.c.  The characters come in chunks of any size; a  *)
(* chunk is a command's or pppd's as a whole, by the mode at its start.    *)
(*                                                                         *)
(* A call ends by "+++" or because pppd has exited.  Either way            *)
(* io_spawn_wait() runs the event loop once more before the mode changes,  *)
(* and more chunks may arrive in it.                                       *)
(***************************************************************************)
EXTENDS CommandLine, SequencesExt

CONSTANTS
  BufLen,     \* sizeof(at_channel_t.__buff) (1024)
  Character,  \* the characters there are
  Scripts     \* everything the host is going to send

NEWLINE == "\n"
ASSUME BufAssumption == BufLen \in Nat /\ BufLen > 3
ASSUME ScriptAssumption == {"+", ESCAPE, NEWLINE} \subseteq Character /\ NUL \notin Character
                           /\ Scripts \subseteq Seq(Character)

VARIABLES
  pipe,      \* what the host has still to send, or read() to return
  chunk,     \* what line_reader_read() has not looked at yet
  mode,      \* at_channel_t.mode
  ending,    \* why reset_channel() or io_spawn_wait() is running: "none", "escape", "exit"
  plus_cnt,  \* at_channel_t.plus_cnt
  buff,      \* the reader's buffer up to its w_idx
  escaped,   \* and its is_escaped
  typed,     \* history: what the reader was given since line_reader_reset()
  lines,     \* history: the lines it has handed over since
  sent,      \* history: what was read in data mode since the call began
  toPpp      \* history: what pppd_input() was given since

reader == <<buff, escaped, typed, lines>>
call == <<sent, toPpp>>
vars == <<pipe, chunk, mode, ending, plus_cnt, reader, call>>

TypeOK ==
  /\ pipe \in Seq(Character) /\ chunk \in Seq(Character)
  /\ mode \in {"CMD", "DATA"} /\ ending \in {"none", "escape", "exit"}
  /\ plus_cnt \in 0..3 /\ escaped \in BOOLEAN
  /\ buff \in Seq(Character) /\ typed \in Seq(Character) /\ lines \in Seq(Seq(Character))
  /\ sent \in Seq(Character) /\ toPpp \in Seq(Character)

Init ==
  /\ pipe \in Scripts /\ chunk = <<>>
  /\ mode = "CMD" /\ ending = "none" /\ plus_cnt = 0
  /\ buff = <<>> /\ escaped = FALSE /\ typed = <<>> /\ lines = <<>>
  /\ sent = <<>> /\ toPpp = <<>>

line_reader_reset == buff' = <<>> /\ escaped' = FALSE /\ typed' = <<>> /\ lines' = <<>>

-----------------------------------------------------------------------------
(* line_reader_read(), one character. *)
Cap == BufLen - 3

Added(c) ==
  IF escaped THEN (IF c = NEWLINE THEN buff \o <<c>> ELSE buff \o <<ESCAPE, c>>)
  ELSE IF c \in {ESCAPE, NEWLINE} THEN buff ELSE Append(buff, c)
Ends(c) == (~escaped /\ c = NEWLINE /\ buff # <<>>) \/ Len(Added(c)) >= Cap

(* ATD*99# among the commands of a line; at_engine_start_ppp_server()       *)
(* starts a call or, as openpty() or posix_spawnp() failed or there is one, *)
(* does not. *)
Dials(line) == \E k \in DOMAIN Commands(line) :
  Commands(line)[k] = [cmd |-> <<"D">>, type |-> "EXE", args |-> <<<<"9">>>>]
StartCall == mode' = "DATA" /\ plus_cnt' = 0 /\ sent' = <<>> /\ toPpp' = <<>>
NoCall == UNCHANGED <<mode, plus_cnt, call>>

(* Calls begun while another is being ended are those of AtEngine. *)
MayCall(line) == Dials(line) /\ mode = "CMD" /\ ending = "none"

ReadCharacter ==
  /\ chunk # <<>>
  /\ LET c == Head(chunk) IN
       /\ chunk' = Tail(chunk)
       /\ escaped' = (~escaped /\ c = ESCAPE)
       /\ typed' = Append(typed, c)
       /\ IF Ends(c)
          THEN /\ lines' = Append(lines, Added(c)) /\ buff' = <<>>
               /\ NoCall \/ (MayCall(Added(c)) /\ StartCall)
          ELSE lines' = lines /\ buff' = Added(c) /\ NoCall
  /\ UNCHANGED <<pipe, ending>>

-----------------------------------------------------------------------------
(* at_engine_input() *)
Polling == chunk = <<>>
First(n) == SubSeq(pipe, 1, n)
Take(n) == pipe' = SubSeq(pipe, n + 1, Len(pipe))

MutantCommandChunk ==
  /\ Polling /\ mode = "CMD"
  /\ \E n \in 1..Len(pipe) : Take(n) /\ chunk' = First(n)
  /\ buff' = <<>>
  /\ UNCHANGED <<mode, ending, plus_cnt, escaped, typed, lines, call>>
CommandChunk ==
  /\ Polling /\ mode = "CMD"
  /\ \E n \in 1..Len(pipe) : Take(n) /\ chunk' = First(n)
  /\ UNCHANGED <<mode, ending, plus_cnt, reader, call>>

Pluses(n) == [i \in 1..n |-> "+"]

(* pppd_input(), for the pluses kept back and then for the chunk. *)
MutantForward(data) == toPpp' = toPpp \o data /\ plus_cnt' = 0
Forward(data) == toPpp' = toPpp \o Pluses(plus_cnt) \o data /\ plus_cnt' = 0

(* reset_channel(): the first one waits for pppd; one that comes while the  *)
(* call is ending finds nothing to wait for. *)
HangUp ==
  IF ending = "none"
  THEN ending' = "escape" /\ plus_cnt' = 3 /\ UNCHANGED <<mode, reader>>
  ELSE mode' = "CMD" /\ plus_cnt' = 0 /\ line_reader_reset /\ UNCHANGED ending

Kept(data) == plus_cnt + Len(data) <= 3 /\ data = Pluses(Len(data))

DataChunk ==
  /\ Polling /\ mode = "DATA"
  /\ \E n \in 1..Len(pipe) :
       /\ Take(n)
       /\ sent' = sent \o First(n)
       /\ \/ /\ ~Kept(First(n)) /\ Forward(First(n))
             /\ UNCHANGED <<mode, ending, reader>>
          \/ /\ Kept(First(n)) /\ plus_cnt + n < 3
             /\ plus_cnt' = plus_cnt + n /\ UNCHANGED <<mode, ending, reader, toPpp>>
          \/ /\ Kept(First(n)) /\ plus_cnt + n = 3
             /\ HangUp /\ UNCHANGED toPpp
  /\ UNCHANGED chunk

(* End of file on the pty or the pipes: io_spawn_wait(spawn, false). *)
CarrierLost ==
  /\ Polling /\ mode = "DATA" /\ ending = "none"
  /\ ending' = "exit"
  /\ UNCHANGED <<pipe, chunk, mode, plus_cnt, reader, call>>

(* The nested loop is over.  After an escape the channel is reset in any    *)
(* case; SPAWN_STOPPED resets it unless an escape has done so meanwhile. *)
CallEnds ==
  /\ Polling /\ ending # "none" /\ ending' = "none"
  /\ IF ending = "escape" \/ mode = "DATA"
     THEN /\ mode' = "CMD" /\ line_reader_reset
          /\ plus_cnt' = IF ending = "escape" THEN 0 ELSE plus_cnt
     ELSE UNCHANGED <<mode, plus_cnt, reader>>
  /\ UNCHANGED <<pipe, chunk, call>>

(* The host has nothing more to send. *)
Silence == Polling /\ pipe = <<>> /\ UNCHANGED vars

Next == ReadCharacter \/ CommandChunk \/ DataChunk \/ CarrierLost \/ CallEnds \/ Silence
Spec == Init /\ [][Next]_vars

-----------------------------------------------------------------------------
(* The lines line_reader_read() hands over are those that were typed,       *)
(* however read() has cut them: their characters and those in the buffer    *)
(* are, in order, everything but the line ends and the backslashes that     *)
(* stand before one; a line ends at every newline without a backslash, and  *)
(* otherwise only when the buffer is full.  No line is empty, and none is   *)
(* longer than the buffer holds with its zero.                              *)
EscapedAt(i) == i > 1 /\ LET run == {j \in 1..(i - 1) : \A k \in j..(i - 1) : typed[k] = ESCAPE}
                         IN  Cardinality(run) % 2 = 1
Token(i) ==
  IF EscapedAt(i) THEN (IF typed[i] = NEWLINE THEN <<NEWLINE>> ELSE <<ESCAPE, typed[i]>>)
  ELSE IF typed[i] \in {ESCAPE, NEWLINE} THEN <<>> ELSE <<typed[i]>>
KeptTo(n) == FlattenSeq([i \in 1..n |-> Token(i)])
LineEnds == {Len(KeptTo(i)) : i \in {i \in DOMAIN typed : typed[i] = NEWLINE /\ ~EscapedAt(i)}} \ {0}
Handed(n) == FlattenSeq(SubSeq(lines, 1, n))
LinesAsTyped ==
  /\ Handed(Len(lines)) \o buff = KeptTo(Len(typed))
  /\ LineEnds \subseteq {Len(Handed(n)) : n \in DOMAIN lines}
  /\ \A n \in DOMAIN lines : /\ Len(lines[n]) \in 1..(BufLen - 1)
                             /\ Len(Handed(n)) \in LineEnds \/ Len(lines[n]) >= Cap
  /\ Len(buff) < Cap

(* pppd_input() gets every character that is read in data mode, in order    *)
(* and also while the call is being ended, but for up to three pluses that  *)
(* may yet be an escape; and three of those are never kept without ending   *)
(* the call.  (What follows the dialling line in its own chunk is not read  *)
(* in data mode: the reader gets it.)  The types are part of the invariant. *)
PppGetsAll ==
  /\ TypeOK
  /\ mode = "DATA" => toPpp \o Pluses(plus_cnt) = sent /\ (ending = "none" => plus_cnt < 3)

(* on_cmd_line() comes in its walk exactly to where at_split_args() has put *)
(* the commands, although those are written over the line, whatever is      *)
(* quoted, escaped or empty; and a line without quotes and backslashes is   *)
(* run as the commands and parameters between its delimiters.               *)
Aligned(line) ==
  LET split == at_split_args(SubSeq(line, 3, Len(line)), ";", MaxCommands) IN
  Walk(split) = split.starts /\ \A k \in DOMAIN split.starts : split.starts[k] <= Len(line) - 2
CommandsAsWritten == \A n \in DOMAIN lines : IsCommandLine(lines[n]) =>
  Aligned(lines[n]) /\ (Plain(lines[n]) => Commands(lines[n]) = Written(lines[n]))
=============================================================================
