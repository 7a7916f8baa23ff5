------------------------------ MODULE MCDevices -----------------------------
(***************************************************************************)
(* The two devices that answer a terminal by themselves, of which one is   *)
(* at work from the start: they share nothing, so that their interleavings *)
(* would add nothing but states.                                           *)
(***************************************************************************)
EXTENDS MCNmeaGenerator, MCAtCommands

VARIABLE device

DevicesInit == Init /\ ModemInit /\ device \in {"receiver", "modem"}
Receiver == device = "receiver" /\ Next /\ UNCHANGED <<modemVars, device>>
Modem == device = "modem" /\ ModemNext /\ UNCHANGED <<vars, device>>
DevicesNext == Receiver \/ Modem
DevicesSpec == DevicesInit /\ [][DevicesNext]_<<vars, modemVars, device>>
=============================================================================
