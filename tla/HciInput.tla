------------------------------ MODULE HciInput ------------------------------
(***************************************************************************)
(* From the host to the Bluetooth adapter: hci_usb_device_input() of       *)
(* libs/devices/hci_usb.c finds the H4 packets in what on_hci_input() of   *)
(* main.c reads from the terminal, in chunks of any size, and submits      *)
(* commands and ACL data to the adapter in pieces of an endpoint's packet  *)
(* size.                                                                   *)
(*                                                                         *)
(* `window' is what input_buff holds between r_idx and r_idx + w_idx: the  *)
(* memmove() at read_again makes r_idx zero before anything is added.      *)
(***************************************************************************)
EXTENDS Naturals, Sequences, SequencesExt

CONSTANTS
  Base,        \* values of a byte (256)
  BufLen,      \* sizeof(__input_buff) (2048)
  RxSize,      \* sizeof(io_rx_buff) (4096)
  CmdSize,     \* max_pkt_size of tx_cmd (64)
  AclSize,     \* max_pkt_size of tx_acl
  Packets,     \* what the host sends: packet type and parameters
  Strays,      \* what else it may send: bytes that are no such packet
  MaxPackets   \* bound: packets between two plug-ins

HCI_CMD == 1
HCI_ACL == 2
HCI_SCO == 3
HCI_EVT == 4
Types == {HCI_CMD, HCI_ACL, HCI_SCO, HCI_EVT}

(* sizeof(hci_pkt_t) and the structure behind it; all but the last of its   *)
(* bytes (of ACL, the last two) are ids and flags that are not looked at.   *)
HeaderLen(t) == CASE t = HCI_EVT -> 3 [] t \in {HCI_CMD, HCI_SCO} -> 4 [] t = HCI_ACL -> 5
Ids(t) == IF t = HCI_EVT THEN <<0>> ELSE <<0, 1>>
Bytes(p) ==
  <<p.type>> \o Ids(p.type)
  \o (IF p.type = HCI_ACL THEN <<Len(p.data) % Base, Len(p.data) \div Base>> ELSE <<Len(p.data)>>)
  \o p.data

ASSUME SizeAssumption ==
  /\ Base \in Nat /\ Base > 4 /\ RxSize \in Nat \ {0}
  /\ BufLen \in Nat /\ BufLen > 8   \* any header fits, with the four bytes to spare
  /\ CmdSize \in Nat \ {0} /\ AclSize \in Nat \ {0} /\ MaxPackets \in Nat
ASSUME PacketAssumption ==
  \A p \in Packets : /\ p.type \in Types /\ p.data \in Seq(0..(Base - 1))
                     /\ Bytes(p) \in Seq(0..(Base - 1)) /\ Len(Bytes(p)) <= BufLen - 4
ASSUME StrayAssumption == Strays \subseteq Seq(0..(Base - 1))

VARIABLES
  given,    \* packets the host has written since the adapter was plugged in
  strayed,  \* whether it has written something else
  pipe,     \* their bytes that have not been read yet
  chunk,    \* data[0..length-1] of the call under way
  window,   \* input_buff
  at,       \* where the call is: "idle", "copy" (the while), "check" (check_again)
  sent      \* what was submitted: the endpoint and the bytes

vars == <<given, strayed, pipe, chunk, window, at, sent>>

TypeOK ==
  /\ given \in Seq(Packets) /\ strayed \in BOOLEAN /\ pipe \in Seq(Nat) /\ chunk \in Seq(Nat)
  /\ window \in Seq(Nat) /\ Len(window) <= BufLen
  /\ at \in {"idle", "copy", "check"} /\ (at = "idle" => chunk = <<>>)
  /\ sent \in Seq([ep : {HCI_CMD, HCI_ACL}, data : Seq(Nat)])
  \* no piece is empty or more than a packet of its endpoint
  /\ \A i \in DOMAIN sent : Len(sent[i].data) \in 1..(IF sent[i].ep = HCI_CMD THEN CmdSize ELSE AclSize)

Init ==
  /\ given = <<>> /\ strayed = FALSE /\ pipe = <<>> /\ chunk = <<>> /\ window = <<>> /\ at = "idle" /\ sent = <<>>

-----------------------------------------------------------------------------
(* External: the host writes a packet, or loses its way. *)
Host ==
  /\ Len(given) < MaxPackets
  /\ \E p \in Packets : given' = Append(given, p) /\ pipe' = pipe \o Bytes(p)
  /\ UNCHANGED <<strayed, chunk, window, at, sent>>

Stray ==
  /\ ~strayed /\ \E s \in Strays : pipe' = pipe \o s
  /\ strayed' = TRUE
  /\ UNCHANGED <<given, chunk, window, at, sent>>

(* on_hci_input(): a chunk, of whatever size read() returns. *)
Read ==
  /\ at = "idle" /\ pipe # <<>>
  /\ \E n \in 1..(IF Len(pipe) < RxSize THEN Len(pipe) ELSE RxSize) :
       chunk' = SubSeq(pipe, 1, n) /\ pipe' = SubSeq(pipe, n + 1, Len(pipe))
  /\ at' = "copy"
  /\ UNCHANGED <<given, strayed, window, sent>>

(* The while loop: what fits is added; a full buffer is thrown away. *)
Copy ==
  /\ at = "copy" /\ chunk # <<>>
  /\ LET room == BufLen - Len(window)
         n == IF room < Len(chunk) THEN room ELSE Len(chunk) IN
       IF room = 0
       THEN window' = <<>> /\ UNCHANGED <<chunk, at>>
       ELSE /\ window' = window \o SubSeq(chunk, 1, n)
            /\ chunk' = SubSeq(chunk, n + 1, Len(chunk))
            /\ at' = "check"
  /\ UNCHANGED <<given, strayed, pipe, sent>>

CallReturns ==
  /\ at = "copy" /\ chunk = <<>>
  /\ at' = "idle"
  /\ UNCHANGED <<given, strayed, pipe, chunk, window, sent>>

-----------------------------------------------------------------------------
(* check_again, which is only reached with something in the buffer.  IF_PKT:*)
(* the length of the packet, once its header is there. *)

HeaderThere(w) == Len(w) >= HeaderLen(w[1])
PktLength(w) ==
  HeaderLen(w[1]) + (IF w[1] = HCI_ACL THEN w[4] + Base * w[5] ELSE w[HeaderLen(w[1])])

(* The loop that submits a packet without its type byte. *)
Size(ep) == IF ep = HCI_CMD THEN CmdSize ELSE AclSize
MutantOnePiece(ep, d) == <<[ep |-> ep, data |-> d]>>
Submits(ep, d) ==
  [i \in 1..((Len(d) + Size(ep) - 1) \div Size(ep)) |->
     [ep |-> ep,
      data |-> SubSeq(d, (i - 1) * Size(ep) + 1, IF i * Size(ep) < Len(d) THEN i * Size(ep) ELSE Len(d))]]

Wait == at' = "copy" /\ UNCHANGED <<window, sent>>
ResetRead == at' = "copy" /\ window' = <<>> /\ UNCHANGED sent

TakePacket(w) ==
  /\ sent' = IF w[1] \in {HCI_CMD, HCI_ACL} THEN sent \o Submits(w[1], SubSeq(w, 2, PktLength(w))) ELSE sent
  /\ window' = SubSeq(w, PktLength(w) + 1, Len(w))
  /\ at' = IF window' = <<>> THEN "copy" ELSE "check"

MutantNoLimit ==
  /\ at = "check"
  /\ \/ window[1] \notin Types /\ ResetRead
     \/ /\ window[1] \in Types
        /\ \/ ~HeaderThere(window) /\ Wait
           \/ HeaderThere(window)
              /\ IF Len(window) < PktLength(window) THEN Wait ELSE TakePacket(window)
  /\ UNCHANGED <<given, strayed, pipe, chunk>>
Check ==
  /\ at = "check"
  /\ \/ window[1] \notin Types /\ ResetRead
     \/ /\ window[1] \in Types
        /\ \/ ~HeaderThere(window) /\ Wait
           \/ HeaderThere(window) /\ PktLength(window) > BufLen - 4 /\ ResetRead
           \/ HeaderThere(window) /\ PktLength(window) <= BufLen - 4
              /\ IF Len(window) < PktLength(window) THEN Wait ELSE TakePacket(window)
  /\ UNCHANGED <<given, strayed, pipe, chunk>>

(* hci_usb_device_init(): the adapter was unplugged and another is plugged  *)
(* in, and the host starts over, with whatever it had begun thrown away.    *)
MutantReplug ==
  /\ at = "idle"
  /\ given' = <<>> /\ strayed' = FALSE /\ pipe' = <<>> /\ sent' = <<>>
  /\ UNCHANGED <<chunk, window, at>>
Replug ==
  /\ at = "idle"
  /\ given' = <<>> /\ strayed' = FALSE /\ pipe' = <<>> /\ sent' = <<>>
  /\ window' = <<>>
  /\ UNCHANGED <<chunk, at>>

Next == Host \/ Stray \/ Read \/ Copy \/ CallReturns \/ Check \/ Replug

Spec == Init /\ [][Next]_vars

-----------------------------------------------------------------------------
(* Bytes together with the endpoint that they go to: those of a command or  *)
(* ACL packet without its type, those that were submitted. *)
To(ep, d) == [i \in DOMAIN d |-> <<ep, d[i]>>]
Expected ==
  FlattenSeq([i \in DOMAIN given |->
    IF given[i].type \in {HCI_CMD, HCI_ACL} THEN To(given[i].type, Tail(Bytes(given[i]))) ELSE <<>>])
Arrived == FlattenSeq([i \in DOMAIN sent |-> To(sent[i].ep, sent[i].data)])

(* However the bytes are cut into chunks, the adapter gets the host's       *)
(* packets, in order and unchanged, and all of them once the bytes are read;*)
(* what was left of an earlier adapter's is not mixed in.                   *)
PacketsArrive == ~strayed =>
  /\ IsPrefix(Arrived, Expected)
  /\ (at = "idle" /\ pipe = <<>>) => Arrived = Expected

(* Whatever arrives, the buffer is never so full that nothing can be added  *)
(* (the branch of the while that throws it away is not taken): what waits   *)
(* there is the beginning of a packet that is to fit with four bytes to     *)
(* spare.                                                                   *)
NeverFull == (at = "copy" /\ chunk # <<>>) => Len(window) < BufLen - 4
=============================================================================
