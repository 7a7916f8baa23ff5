------------------------------ MODULE HciBridge -----------------------------
(***************************************************************************)
(* The bridge of libs/devices/hci_usb.c as a whole: HciInput from the host *)
(* to the adapter and HciOutput back.  The two directions share only       *)
(* hci_usb_device_init(), which starts both over when an adapter has been  *)
(* plugged in; each of them keeps state of its own in between, so that it  *)
(* is enough to look at one at a time.                                     *)
(***************************************************************************)
EXTENDS HciInput

CONSTANT MaxData   \* the longest parameters of a packet from the adapter

ASSUME DataAssumption == MaxData \in Nat

VARIABLES
  packets, left, length, rem, begun, tty,   \* of HciOutput
  direction   \* bound: the one that carries packets until the next plug-in

Out == INSTANCE HciOutput WITH packets <- packets, left <- left, length <- length,
                                rem <- rem, begun <- begun, tty <- tty

outVars == <<packets, left, length, rem, begun, tty>>
bridgeVars == <<vars, outVars, direction>>

BridgeTypeOK == TypeOK /\ Out!TypeOK /\ direction \in {"in", "out"}

BridgeInit == Init /\ Out!Init /\ direction \in {"in", "out"}

FromHost ==
  /\ direction = "in"
  /\ Host \/ Stray \/ Read \/ Copy \/ CallReturns \/ Check
  /\ UNCHANGED <<outVars, direction>>

FromAdapter ==
  /\ direction = "out"
  /\ \E e \in Out!Endpoint : Out!Begin(e) \/ Out!Continue(e)
  /\ UNCHANGED <<vars, direction>>

hci_usb_device_init == Replug /\ Out!Replug /\ direction' \in {"in", "out"}

BridgeNext == FromHost \/ FromAdapter \/ hci_usb_device_init
BridgeSpec == BridgeInit /\ [][BridgeNext]_bridgeVars

(* See TypedOnce in HciOutput: each packet of the adapter is given its type *)
(* by on_transfer() exactly once, and the counters neither drift nor wrap.  *)
TypedOnce == Out!TypedOnce
=============================================================================
