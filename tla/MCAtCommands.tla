---------------------------- MODULE MCAtCommands ----------------------------
(* AtCommands with a command of every kind, one that the modem does not     *)
(* know, and numbers around the values of CFUN and the width of a byte.     *)
EXTENDS AtCommands

SomeNumbers == {0, 4, 5, 257}
SomeNames == {"E", "CFUN", "CTZU", "CGATT", "CGDCONT", "CPIN", "CCID", "CRSM", "CMGF"}
SimNames == {"CFUN", "CRSM"}
=============================================================================
