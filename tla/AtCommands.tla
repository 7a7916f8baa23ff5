----------------------------- MODULE AtCommands -----------------------------
(***************************************************************************)
(* The commands of the simulated modem: the handlers of at_cmd.h over      *)
(* mdm_state, the table of at_cmd_defs.h, the way on_cmd_line() of         *)
(* libs/at/engine.c goes through the commands of a line, and the result    *)
(* codes that at_cmd_resp() of libs/at/resp.c looks up for them.           *)
(*                                                                         *)
(* ATD and AT+CMUX, which act on the channel and not on the modem, are in  *)
(* module AtEngine.  A line is what at_split_args() and at_cmd_parse()     *)
(* make of it: names, types and arguments.                                 *)
(***************************************************************************)
EXTENDS Integers, Sequences

CONSTANTS
  Numbers,    \* what atoi() may return for an argument
  Names,      \* the commands that are sent; the modem may not know them all
  MaxLine     \* bound: commands in a line

ASSUME NumberAssumption == Numbers \subseteq Int /\ MaxLine \in Nat

Type == {"TST", "GET", "SET", "EXE"}  \* at_cmd_type

(* at_cmd_defs.h: what each command may be asked for. *)
Mask(c) ==
  CASE c \in {"A", "E", "H", "I", "CGSN", "CLAC"} -> {"EXE"}
    [] c \in {"CBC", "CCID", "ICCID", "CSQ"} -> {"TST", "EXE"}
    [] c \in {"CFUN", "CTZU", "CPIN", "CREG", "CGREG", "CCLK", "CGATT", "CGDCONT"} -> {"TST", "GET", "SET"}
    [] c = "CSPN" -> {"GET", "EXE"}
    [] c = "CRSM" -> {"TST", "SET"}
Known == {"A", "E", "H", "I", "CGSN", "CLAC", "CBC", "CCID", "ICCID", "CSQ", "CFUN", "CTZU",
          "CPIN", "CREG", "CGREG", "CCLK", "CGATT", "CGDCONT", "CSPN", "CRSM"}

(* CRSM is sent with <command>, <fileid>, <P1>, <P2>, <P3>, or with fewer   *)
(* arguments; the others with one number, or none.                          *)
Args == {<<>>} \cup {<<n>> : n \in Numbers}
CrsmArgs == {<<>>, <<176>>, <<176, 28486, 0, 1, 16>>, <<176, 28486, 0, 0, 16>>, <<176, 12258, 0, 0, 10>>,
             <<176, 1, 0, 0, 10>>, <<214, 28486, 0, 0, 10>>}
Command == {c \in [cmd : Names, type : Type, args : Args \cup CrsmArgs] :
              IF c.type = "EXE" THEN c.args \in (IF c.cmd = "E" THEN Args ELSE {<<>>})
              ELSE IF c.type # "SET" THEN c.args = <<>>
              ELSE c.args \in (IF c.cmd = "CRSM" THEN CrsmArgs ELSE Args)}

VARIABLES
  cfun, cpin, creg, cgreg, cgatt, ctzu,  \* modem_state_t
  echo,      \* at_channel_t.echo
  left,      \* the commands of the line that are still to do
  replies    \* what the line has been answered so far

modem == <<cfun, cpin, creg, cgreg, cgatt, ctzu, echo>>
modemVars == <<modem, left, replies>>

Byte == 0..255
Bit == {0, 1}
ModemTypeOK ==
  /\ cfun \in Byte /\ ctzu \in Byte
  /\ cpin \in Bit /\ creg \in Bit /\ cgreg \in Bit /\ cgatt \in Bit
  /\ echo \in BOOLEAN
  /\ left \in 0..MaxLine

ModemInit ==
  /\ cfun = 1 /\ cpin = 1 /\ creg = 1 /\ cgreg = 1 /\ cgatt = 0 /\ ctzu = 1
  /\ echo = TRUE /\ left = 0 /\ replies = <<>>

-----------------------------------------------------------------------------
(* Result codes.  libs/at/defs.h gives every name a code; a handler returns *)
(* the position of the name in its list, from 0.                            *)
CME_ERR ==
  <<0, 1, 2, 3, 4, 5, 6, 7, 10, 11, 12, 13, 14, 15, 16, 17, 18, 20, 21, 22, 23, 24, 25, 26, 27,
    30, 31, 32, 40, 41, 42, 43, 44, 45, 46, 47, 48, 49, 50, 51, 52, 53, 54, 55, 56, 57, 58, 59,
    60, 61, 62, 63, 96, 97, 98, 99, 103, 106, 107, 111, 112, 113, 132, 133, 134, 149, 150, 148,
    181, 264, 265, 266, 267, 268, 269, 270, 271, 272, 273, 274, 275, 276, 277, 278, 279, 280,
    281, 282, 283>>
CMS_ERR ==
  <<1, 8, 10, 21, 27, 28, 29, 30, 38, 41, 42, 47, 50, 69, 81, 95, 96, 97, 98, 99, 111, 127, 128,
    129, 130, 143, 144, 145, 159, 160, 161, 175, 176, 192, 193, 194, 195, 196, 197, 198, 199,
    208, 209, 210, 211, 212, 213, 255, 300, 301, 302, 303, 304, 305, 310, 311, 312, 313, 314,
    315, 316, 317, 318, 320, 321, 322, 330, 331, 332, 340, 500, 512, 513, 514, 515, 516, 517,
    518, 519, 520, 521, 530>>
OPERATION_NOT_SUPPORTED == 4
PARAM_INVALID           == 41
SIM_INVALID_PARAMETER   == 74
SIM_UNKNOW_COMMAND      == 75
SIM_FILEID_NOT_FOUND    == 85
SIM_NOT_INSERT          == 54

(* resp.c builds CMS_ERR_values, too, out of the REG_CME_ERR entries. *)
Codes(type) == IF type = "CME" THEN CME_ERR ELSE CME_ERR
Code(type, value) == Codes(type)[value + 1]

Result(c, type, value) ==
  [what |-> "result", cmd |-> c.cmd, type |-> type, value |-> value,
   code |-> IF type = "DCE" THEN 0 ELSE Code(type, value)]
OK(c) == <<Result(c, "DCE", "OK")>>
ERROR(c) == <<Result(c, "DCE", "ERROR")>>
CME(c, value) == <<Result(c, "CME", value)>>
CMS(c, value) == <<Result(c, "CMS", value)>>
Info(c, v) == <<[what |-> "info", cmd |-> c.cmd, value |-> v]>>

Answer(rs) == replies' = replies \o rs /\ left' = left - 1

-----------------------------------------------------------------------------
(* Handlers, for the next command c of the line: it is one of `names', and  *)
(* it may be, and is, asked for as one of `types'. *)

Allowed(c) == c.type \in Mask(c.cmd) /\ (c.type = "SET" => c.args # <<>>)
Is(c, names, types) == c.cmd \in names \cap Known /\ Allowed(c) /\ c.type \in types

(* Nothing but OK: A, H, and what a handler does not look at. *)
Ignored(c) ==
  /\ \/ Is(c, {"A", "H"}, Type)
     \/ Is(c, {"CFUN", "CTZU", "CPIN", "CREG", "CGREG", "CCLK", "CGATT", "CGDCONT", "CRSM"}, {"TST"})
     \/ Is(c, {"CPIN", "CREG", "CGREG", "CCLK"}, {"SET"})
  /\ Answer(OK(c)) /\ UNCHANGED modem

E(c) ==
  /\ Is(c, {"E"}, Type)
  /\ echo' = (c.args = <<>> \/ c.args[1] > 0)
  /\ Answer(OK(c)) /\ UNCHANGED <<cfun, cpin, creg, cgreg, cgatt, ctzu>>

(* Questions: the value that the answer shows; "fixed" is a text that does  *)
(* not change, or one that no handler looks at again (CGDCONT's contexts).  *)
Shown(c) ==
  CASE c = "CFUN" -> cfun [] c = "CTZU" -> ctzu [] c = "CREG" -> creg [] c = "CGREG" -> cgreg
    [] c = "CGATT" -> cgatt [] c \in {"CPIN", "CSPN", "CCID", "ICCID"} -> cpin [] OTHER -> "fixed"
Query(c) ==
  /\ \/ Is(c, {"CFUN", "CTZU", "CREG", "CGREG", "CGATT", "CPIN", "CCLK", "CGDCONT"}, {"GET"})
     \/ Is(c, {"I", "CBC", "CGSN", "CSQ", "CLAC", "CSPN", "CCID", "ICCID"}, Type)
  /\ Answer(Info(c, Shown(c.cmd)) \o OK(c)) /\ UNCHANGED modem

(* mdm_state.cfun is a byte; the switch looks at what it holds. *)
MutantSwitchOnNumber(n) ==
  /\ cfun' = n % 256
  /\ cpin' = CASE n = 0 -> 0 [] n \in {1, 4} -> 1 [] OTHER -> cpin
  /\ creg' = CASE n \in {0, 4} -> 0 [] n = 1 -> 1 [] OTHER -> creg
  /\ cgreg' = CASE n \in {0, 4} -> 0 [] n = 1 -> 1 [] OTHER -> cgreg
  /\ cgatt' = CASE n \in {0, 4} -> 0 [] n = 1 -> 1 [] OTHER -> cgatt
SetFunction(n) ==
  /\ cfun' = n % 256
  /\ cpin' = CASE cfun' = 0 -> 0 [] cfun' \in {1, 4} -> 1 [] OTHER -> cpin
  /\ creg' = CASE cfun' \in {0, 4} -> 0 [] cfun' = 1 -> 1 [] OTHER -> creg
  /\ cgreg' = CASE cfun' \in {0, 4} -> 0 [] cfun' = 1 -> 1 [] OTHER -> cgreg
  /\ cgatt' = CASE cfun' \in {0, 4} -> 0 [] cfun' = 1 -> 1 [] OTHER -> cgatt
CFUN(c) ==
  /\ Is(c, {"CFUN"}, {"SET"})
  /\ SetFunction(c.args[1])
  /\ Answer(OK(c)) /\ UNCHANGED <<ctzu, echo>>

Zone(n) == ctzu' = n % 256
CTZU(c) ==
  /\ Is(c, {"CTZU"}, {"SET"})
  /\ Zone(c.args[1])
  /\ Answer(OK(c)) /\ UNCHANGED <<cfun, cpin, creg, cgreg, cgatt, echo>>

CGATT(c) ==
  /\ Is(c, {"CGATT"}, {"SET"})
  /\ cgatt' = IF c.args[1] > 0 THEN 1 ELSE 0
  /\ Answer(OK(c)) /\ UNCHANGED <<cfun, cpin, creg, cgreg, ctzu, echo>>

CGDCONT(c) == Is(c, {"CGDCONT"}, {"SET"}) /\ Answer(OK(c)) /\ UNCHANGED modem

(* The SIM: EF_SPN and EF_ICCID can be read, in binary. *)
READ_BINARY == 176
EF_SPN == 28486
EF_ICCID == 12258
MutantNoService == creg = 0
NoSim == cpin = 0
CRSM(c) ==
  /\ Is(c, {"CRSM"}, {"SET"})
  /\ LET a == c.args IN
       Answer(IF NoSim THEN CMS(c, SIM_NOT_INSERT)
              ELSE IF Len(a) <= 4 THEN CME(c, SIM_INVALID_PARAMETER)
              ELSE IF a[1] # READ_BINARY THEN CME(c, SIM_UNKNOW_COMMAND)
              ELSE IF a[2] \notin {EF_SPN, EF_ICCID} THEN CME(c, SIM_FILEID_NOT_FOUND)
              ELSE Info(c, 1) \o OK(c))
  /\ UNCHANGED modem

-----------------------------------------------------------------------------
(* on_cmd_line() otherwise. *)
Refused(c) ==
  /\ c.cmd \in Known /\ ~Allowed(c)
  /\ Answer(IF c.type \in Mask(c.cmd) THEN CME(c, PARAM_INVALID) ELSE CME(c, OPERATION_NOT_SUPPORTED))
  /\ UNCHANGED modem

Unknown(c) ==
  /\ c.cmd \notin Known
  /\ Answer(ERROR(c))
  /\ UNCHANGED modem

(* One turn of the loop over the commands of the line. *)
Exec ==
  /\ left > 0
  /\ \E c \in Command :
       \/ Ignored(c) \/ E(c) \/ Query(c) \/ CFUN(c) \/ CTZU(c) \/ CGATT(c) \/ CGDCONT(c)
       \/ CRSM(c) \/ Refused(c) \/ Unknown(c)

(* A line with commands arrives. *)
Line ==
  /\ left = 0
  /\ left' \in 1..MaxLine
  /\ replies' = <<>>
  /\ UNCHANGED modem

ModemNext == Line \/ Exec
ModemSpec == ModemInit /\ [][ModemNext]_modemVars

-----------------------------------------------------------------------------
(* The states of the modem belong together, whatever is sent in whatever    *)
(* order, and with numbers that do not fit into a byte: with minimum        *)
(* functionality there is neither SIM nor service, with the radio off there *)
(* is the SIM alone, and with full functionality there is everything; a     *)
(* modem that is registered always has a SIM and is registered for packets. *)
(* What is stored fits the fields of modem_state_t.                         *)
StatesAgree ==
  /\ cfun = 0 => cpin = 0 /\ creg = 0
  /\ cfun = 4 => cpin = 1 /\ creg = 0
  /\ cfun = 1 => cpin = 1 /\ creg = 1
  /\ creg = 1 => cpin = 1
  /\ creg = cgreg
RadioState == ModemTypeOK /\ StatesAgree

(* All commands tell the same of the SIM: between two settings of CFUN,     *)
(* CPIN, CSPN, CCID and ICCID show it exactly when CRSM does not say that   *)
(* it is missing. *)
SimSeen(i) == replies[i].what = "info" /\ replies[i].cmd \in {"CPIN", "CSPN", "CCID", "ICCID", "CRSM"}
                /\ replies[i].value = 1
SimMissing(i) == \/ replies[i].what = "info" /\ replies[i].cmd \in {"CPIN", "CSPN", "CCID", "ICCID"}
                      /\ replies[i].value = 0
                 \/ replies[i].what = "result" /\ replies[i].type = "CMS"
SimTold ==
  \A i, j \in DOMAIN replies :
    (SimSeen(i) /\ SimMissing(j)) =>
      \E k \in DOMAIN replies : replies[k].cmd = "CFUN" /\ (i < k) # (j < k)

(* libs/at/defs.h: an error is reported with the code that its name is      *)
(* registered with, such as REG_CMS_ERR(SIM_NOT_INSERT, 310). *)
Declared(type) == IF type = "CME" THEN CME_ERR ELSE CMS_ERR
CodesAsDeclared ==
  \A i \in DOMAIN replies :
    (replies[i].what = "result" /\ replies[i].type # "DCE") =>
      replies[i].code = Declared(replies[i].type)[replies[i].value + 1]
=============================================================================
