------------------------------ MODULE CmuxLink ------------------------------
(***************************************************************************)
(* The framing of libs/cmux/cmux.c, both halves: cmux_ch_input() cuts what *)
(* a channel is given into frames and send_frame() writes them;            *)
(* cmux_tp_input() finds the frames in the bytes that arrive.  The line    *)
(* between them carries every byte, in pieces of any size: cmux_t holds    *)
(* all that the receiver remembers between two read()s, so that receiving  *)
(* byte by byte is receiving in any pieces.                                *)
(*                                                                         *)
(* A byte is below Base (256), a length up to ShortMax (127) fits in one,  *)
(* after its extension bit; a longer one takes two.                        *)
(***************************************************************************)
EXTENDS Naturals, Sequences, SequencesExt

CONSTANTS
  Base,        \* values of a byte (256)
  SOF_MARKER,  \* 0xF9
  Channels,    \* the mux channels that carry data
  FrameSize,   \* cmux_t.max_frame_size
  Payloads,    \* what is written to a channel at once
  Fcs,         \* the values crc8() may take; the receiver ignores it
  Noise,       \* bytes between frames, such as the rest of a command line
  MaxWrites    \* bound: how many times something is put on the line

Bytes == 0..(Base - 1)
ShortMax == Base \div 2 - 1

(* No address looks like a flag, since its two low bits are set (0xF9 is    *)
(* 1 modulo 4): the receiver takes a flag at the start of a frame for one   *)
(* more flag between frames. *)
ASSUME ByteAssumption == /\ Base \in Nat /\ Base >= 8 /\ Base % 2 = 0
                         /\ SOF_MARKER \in Bytes /\ SOF_MARKER % 4 # 3
ASSUME ChannelAssumption == Channels \subseteq 1..(Base \div 4 - 1)
ASSUME FrameAssumption == FrameSize \in Nat \ {0} /\ 2 * FrameSize < Base * Base
ASSUME DataAssumption == Payloads \subseteq Seq(Bytes) /\ Fcs \subseteq Bytes
                         /\ Noise \subseteq Bytes \ {SOF_MARKER} /\ MaxWrites \in Nat

VARIABLES
  line,      \* bytes written and not yet received
  recving,   \* cmux_t.is_recving_frame
  buff,      \* cmux_t.frame_buff.bytes[0..w_idx-1]
  writes,    \* how often the line was written to
  written,   \* what each channel was given
  read       \* what each channel has put out

vars == <<line, recving, buff, writes, written, read>>

(* cmux_t.buff has room for one frame of max_frame_size; cmux_tp_input() does *)
(* not look at its end. *)
LongestFrame == 4 + FrameSize + 1

(* Everything on the line is a byte, and what the receiver collects never   *)
(* outgrows the longest frame that the sender makes. *)
TypeOK ==
  /\ line \in Seq(Bytes) /\ recving \in BOOLEAN
  /\ buff \in Seq(Bytes) /\ Len(buff) <= LongestFrame
  /\ writes \in 0..MaxWrites
  /\ written \in [Channels -> Seq(Bytes)] /\ read \in [Channels -> Seq(Bytes)]

Init ==
  /\ line = <<>> /\ recving = FALSE /\ buff = <<>> /\ writes = 0
  /\ written = [c \in Channels |-> <<>>] /\ read = [c \in Channels |-> <<>>]

-----------------------------------------------------------------------------
(* send_frame().  The address has its extension and command bits set; the   *)
(* length is a bit field: what does not fit is cut off.                     *)
UIH == Base - 1
Address(c) == 4 * c + 3

LengthField(n) ==
  IF n <= ShortMax THEN <<(2 * n + 1) % Base>> ELSE <<(2 * n) % Base, (2 * n) \div Base>>
Frame(c, d, fcs) ==
  <<SOF_MARKER, Address(c), UIH>> \o LengthField(Len(d)) \o d \o <<fcs, SOF_MARKER>>

(* cmux_ch_input(): pieces of max_frame_size bytes and the rest. *)
MutantOnePiece(d) == <<d>>
Pieces(d) ==
  [i \in 1..((Len(d) + FrameSize - 1) \div FrameSize) |->
     SubSeq(d, (i - 1) * FrameSize + 1, IF i * FrameSize < Len(d) THEN i * FrameSize ELSE Len(d))]

cmux_ch_input(c) ==
  /\ writes < MaxWrites
  /\ \E d \in Payloads, fcs \in Fcs :
       /\ line' = line \o FlattenSeq([i \in DOMAIN Pieces(d) |-> Frame(c, Pieces(d)[i], fcs)])
       /\ written' = [written EXCEPT ![c] = @ \o d]
  /\ writes' = writes + 1
  /\ UNCHANGED <<recving, buff, read>>

(* External: bytes that belong to no frame. *)
Stray ==
  /\ writes < MaxWrites
  /\ \E b \in Noise : line' = Append(line, b)
  /\ writes' = writes + 1
  /\ UNCHANGED <<recving, buff, written, read>>

-----------------------------------------------------------------------------
(* GET_HLEN, GET_DLEN, GET_FLEN of the frame in buff, from its header.      *)
HeaderLen(b) == IF b[3] % 2 = 1 THEN 3 ELSE 4
DataLen(b)   == IF b[3] % 2 = 1 THEN b[3] \div 2 ELSE (b[3] + b[4] * Base) \div 2
MutantNoFcs(b) == Len(b) >= 3 /\ Len(b) >= HeaderLen(b) /\ Len(b) = HeaderLen(b) + DataLen(b)
Complete(b)  == Len(b) >= 3 /\ Len(b) >= HeaderLen(b) /\ Len(b) = HeaderLen(b) + DataLen(b) + 1
Channel(b)   == b[1] \div 4
Data(b)      == SubSeq(b, HeaderLen(b) + 1, HeaderLen(b) + DataLen(b))

Received(b) ==
  read' = IF Channel(b) \in Channels THEN [read EXCEPT ![Channel(b)] = @ \o Data(b)] ELSE read

(* One byte of cmux_tp_input(). *)
Inside(b) ==
  /\ recving
  /\ IF buff = <<>> /\ b = SOF_MARKER
     THEN UNCHANGED <<recving, buff>>
     ELSE buff' = Append(buff, b) /\ recving' = ~Complete(buff')
  /\ UNCHANGED read

MutantSharedFlag(b) ==
  /\ ~recving /\ b = SOF_MARKER
  /\ recving' = TRUE /\ buff' = <<>>
  /\ UNCHANGED read
Flag(b) ==
  /\ ~recving /\ b = SOF_MARKER
  /\ IF buff = <<>>
     THEN recving' = TRUE /\ UNCHANGED read
     ELSE Received(buff) /\ UNCHANGED recving
  /\ buff' = <<>>

Between(b) ==
  /\ ~recving /\ b # SOF_MARKER
  /\ UNCHANGED <<recving, buff, read>>

cmux_tp_input ==
  /\ line # <<>>
  /\ line' = Tail(line)
  /\ Inside(Head(line)) \/ Flag(Head(line)) \/ Between(Head(line))
  /\ UNCHANGED <<writes, written>>

-----------------------------------------------------------------------------
Done == line = <<>> /\ writes = MaxWrites /\ UNCHANGED vars
Next == (\E c \in Channels : cmux_ch_input(c)) \/ Stray \/ cmux_tp_input \/ Done

(* The transport is polled, and what is readable is read. *)
Spec == Init /\ [][Next]_vars /\ WF_vars(cmux_tp_input)

-----------------------------------------------------------------------------
(* The link implements one byte stream per channel: whatever the payload    *)
(* (flag bytes, lengths around the one-byte limit, pieces of                *)
(* max_frame_size, stray bytes between frames), every channel puts out what *)
(* it was given, in order, completely and eventually.                       *)
Streams == INSTANCE ChannelStreams WITH written <- written, read <- read
ImplementsStreams == Streams!Spec

(* Between two frames the receiver is in its ground state: a frame leaves   *)
(* nothing behind that the next one would be read with. *)
GroundState == line = <<>> => ~recving /\ buff = <<>>
=============================================================================
