------------------------------ MODULE MCUsbHost ------------------------------
(* UsbHost with two adapters of one kind and a modem. *)
EXTENDS UsbHost

CONSTANTS h1, h2, g1
Adapters == {h1, h2}
Modems == {g1}
=============================================================================
