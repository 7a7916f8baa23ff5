----------------------------- MODULE MCHciBridge ----------------------------
(* HciBridge with bytes below 6 and a buffer of 15.  The packets have        *)
(* parameters that look like packet types, an ACL length that takes both    *)
(* bytes, and the greatest length the buffer allows; others are empty.      *)
EXTENDS HciBridge

SmallPackets ==
  {[type |-> HCI_CMD, data |-> <<>>], [type |-> HCI_CMD, data |-> <<4, 0, 1>>],
   [type |-> HCI_ACL, data |-> <<2, 5, 1, 0, 0, 3>>], [type |-> HCI_SCO, data |-> <<1>>],
   [type |-> HCI_EVT, data |-> <<>>]}
SmallStrays == {<<0>>, <<HCI_ACL, 0, 1, 5, 3, HCI_EVT>>}
=============================================================================
