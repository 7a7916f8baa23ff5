--------------------------- MODULE ChannelStreams ---------------------------
(***************************************************************************)
(* What the multiplexer of libs/cmux/cmux.c promises: every mux channel is *)
(* a byte stream of its own.  What is written to a channel comes out of the*)
(* same channel, once, in order and complete; how it is cut into pieces on *)
(* the way is left open.                                                   *)
(***************************************************************************)
EXTENDS Sequences, SequencesExt

CONSTANT Channels   \* the channels that carry data

VARIABLES
  written,    \* what has been written to each channel so far
  read        \* what has come out of it so far

streams == <<written, read>>

Init == written = [c \in Channels |-> <<>>] /\ read = [c \in Channels |-> <<>>]

(* A write adds to the end of one stream. *)
Write(c) ==
  /\ IsStrictPrefix(written[c], written'[c])
  /\ written' = [written EXCEPT ![c] = written'[c]]
  /\ UNCHANGED read

(* A read takes the next bytes of what was written, any number of them. *)
Read(c) ==
  /\ \E n \in (Len(read[c]) + 1)..Len(written[c]) :
       read' = [read EXCEPT ![c] = SubSeq(written[c], 1, n)]
  /\ UNCHANGED written

Next == \E c \in Channels : Write(c) \/ Read(c)
Spec == Init /\ [][Next]_streams /\ \A c \in Channels : WF_streams(Read(c))
=============================================================================
