----------------------------- MODULE HciOutput ------------------------------
(***************************************************************************)
(* From the Bluetooth adapter to the host: on_transfer() of                *)
(* libs/devices/hci_usb.c.  Events and ACL data come in on two endpoints;  *)
(* an endpoint gives a packet in one completion or in several.  The driver *)
(* writes each completion to the terminal at once, the first one of a      *)
(* packet with the packet type before it, and counts in rem_acl_bytes and  *)
(* rem_evt_bytes what a packet still lacks.                                *)
(***************************************************************************)
EXTENDS Integers, Sequences, SequencesExt

CONSTANTS
  MaxData,     \* the longest parameters of a packet, a number
  MaxPackets   \* bound, a number: packets between two plug-ins

Endpoint == {"acl", "evt"}
HeaderLen(e) == IF e = "acl" THEN 4 ELSE 2

VARIABLES
  packets,   \* how many packets the adapter has begun to send
  left,      \* of each endpoint's packet: bytes the adapter has not yet sent
  length,    \* and the length in its header, which stays in the buffer
  rem,       \* rem_acl_bytes, rem_evt_bytes
  begun,     \* whether the piece last taken from an endpoint begins a packet
  tty        \* what was written: endpoint, with its type or not, bytes

vars == <<packets, left, length, rem, begun, tty>>

Longest == HeaderLen("acl") + MaxData
TypeOK ==
  /\ packets \in 0..MaxPackets
  /\ left \in [Endpoint -> 0..Longest] /\ length \in [Endpoint -> 0..MaxData]
  \* a size_t, and it never wraps while the adapter is there
  /\ rem \in [Endpoint -> 0..Longest]
  /\ begun \in Seq(BOOLEAN)
  /\ tty \in Seq([ep : Endpoint, type : BOOLEAN, n : 0..Longest])

Init ==
  /\ packets = 0 /\ left = [e \in Endpoint |-> 0] /\ length = [e \in Endpoint |-> 0]
  /\ rem = [e \in Endpoint |-> 0] /\ begun = <<>> /\ tty = <<>>

-----------------------------------------------------------------------------
(* on_transfer() for n bytes of endpoint e, with a header that says len. *)
on_transfer(e, n, len) ==
  /\ rem' = [rem EXCEPT ![e] = IF @ = 0 THEN HeaderLen(e) + len - n ELSE @ - n]
  /\ tty' = Append(tty, [ep |-> e, type |-> rem[e] = 0, n |-> n])

(* External: the adapter begins a packet; its header comes in one piece. *)
Begin(e) ==
  /\ left[e] = 0 /\ packets < MaxPackets
  /\ packets' = packets + 1
  /\ \E len \in 0..MaxData :
     \E n \in HeaderLen(e)..(HeaderLen(e) + len) :
       /\ left' = [left EXCEPT ![e] = HeaderLen(e) + len - n]
       /\ length' = [length EXCEPT ![e] = len]
       /\ on_transfer(e, n, len)
  /\ begun' = Append(begun, TRUE)

(* External: another piece of it. *)
Continue(e) ==
  /\ \E n \in 1..left[e] :
       /\ left' = [left EXCEPT ![e] = @ - n]
       /\ on_transfer(e, n, length[e])
  /\ begun' = Append(begun, FALSE)
  /\ UNCHANGED <<packets, length>>

(* The adapter is pulled out, perhaps in the middle of a packet, and        *)
(* hci_usb_device_init() clears the counters before another is listened to, *)
(* with transfers and buffers of its own;                                   *)
(* the host starts over.  (What the last completions of the old adapter,    *)
(* which carry nothing, do to the counters is undone by this.)              *)
MutantReplug ==
  /\ packets' = 0 /\ left' = [e \in Endpoint |-> 0]
  /\ length' = [e \in Endpoint |-> 0] /\ UNCHANGED rem
  /\ begun' = <<>> /\ tty' = <<>>
Replug ==
  /\ packets' = 0 /\ left' = [e \in Endpoint |-> 0]
  /\ length' = [e \in Endpoint |-> 0] /\ rem' = [e \in Endpoint |-> 0]
  /\ begun' = <<>> /\ tty' = <<>>

Next == Replug \/ \E e \in Endpoint : Begin(e) \/ Continue(e)
Spec == Init /\ [][Next]_vars

-----------------------------------------------------------------------------
(* The counters of the driver are exactly what the adapter still owes, so   *)
(* that each packet is given its type once, before its first byte, however  *)
(* the endpoints cut their packets and take turns, and whatever was cut off *)
(* when an adapter was pulled out.                                          *)
TypedOnce ==
  /\ rem = left
  /\ \A i \in DOMAIN tty : tty[i].type = begun[i]
=============================================================================
