-------------------------- MODULE HciBridgeProofs ---------------------------
(***************************************************************************)
(* Type correctness of the Bluetooth bridge, the counters of its output    *)
(* and the room in its input buffer: for every size of buffer, chunk and   *)
(* packet, whatever the host writes and however the adapter cuts what it   *)
(* sends.                                                                  *)
(***************************************************************************)
EXTENDS HciBridge, SequenceTheorems, FiniteSetTheorems, WellFoundedInduction, TLAPS

-----------------------------------------------------------------------------
(* From the adapter. *)

(* The counters are right only together with the types: rem_acl_bytes and   *)
(* rem_evt_bytes do not wrap because they are what is left, and that each   *)
(* completion has a note of whether it begins a packet.                     *)
OutInv == Out!TypeOK /\ TypedOnce /\ Len(tty) = Len(begun)

LEMMA OutInit == BridgeInit => OutInv
<1> SUFFICES ASSUME BridgeInit PROVE OutInv
  OBVIOUS
<1>1. packets = 0 /\ left = [e \in Out!Endpoint |-> 0] /\ length = [e \in Out!Endpoint |-> 0]
      /\ rem = [e \in Out!Endpoint |-> 0] /\ begun = <<>> /\ tty = <<>>
  BY DEF BridgeInit, Out!Init
<1>2. Out!TypeOK
  BY <1>1, DataAssumption, SizeAssumption DEF Out!TypeOK, Out!Longest, Out!HeaderLen
<1> QED BY <1>1, <1>2 DEF OutInv, TypedOnce, Out!TypedOnce

(* Header lengths, and how much of a packet there can be. *)
LEMMA OutNumbers ==
  /\ MaxData \in Nat /\ MaxPackets \in Nat /\ Out!Longest \in Nat
  /\ \A e \in Out!Endpoint : Out!HeaderLen(e) \in 1..4 /\ Out!HeaderLen(e) + MaxData <= Out!Longest
BY DataAssumption, SizeAssumption DEF Out!Longest, Out!HeaderLen, Out!Endpoint

(* What on_transfer() does when it is given n bytes of a packet of which    *)
(* rest are to come; first says whether they are its first.                 *)
LEMMA TransferTypes ==
  ASSUME OutInv, NEW e \in Out!Endpoint, NEW n \in 1..Out!Longest, NEW len \in 0..MaxData,
         NEW rest \in 0..Out!Longest, NEW first \in BOOLEAN,
         first = (left[e] = 0),
         rest = IF first THEN Out!HeaderLen(e) + len - n ELSE left[e] - n,
         left' = [left EXCEPT ![e] = rest], begun' = Append(begun, first),
         Out!on_transfer(e, n, len)
  PROVE  /\ rem' = left' /\ left' \in [Out!Endpoint -> 0..Out!Longest]
         /\ begun' \in Seq(BOOLEAN)
         /\ tty' \in Seq([ep : Out!Endpoint, type : BOOLEAN, n : 0..Out!Longest])
         /\ Len(tty') = Len(begun') /\ \A i \in DOMAIN tty' : tty'[i].type = begun'[i]
<1> DEFINE Write == [ep : Out!Endpoint, type : BOOLEAN, n : 0..Out!Longest]
           w == [ep |-> e, type |-> rem[e] = 0, n |-> n]
<1>1. rem = left /\ left \in [Out!Endpoint -> 0..Out!Longest] /\ begun \in Seq(BOOLEAN)
      /\ tty \in Seq(Write) /\ Len(tty) = Len(begun)
      /\ \A i \in DOMAIN tty : tty[i].type = begun[i]
  BY DEF OutInv, TypedOnce, Out!TypedOnce, Out!TypeOK
<1>2. rem' = left'
  BY <1>1 DEF Out!on_transfer
<1>3. left' \in [Out!Endpoint -> 0..Out!Longest]
  BY <1>1
<1>4. w \in Write /\ w.type = first
  <2>1. n \in 0..Out!Longest
    BY OutNumbers
  <2>2. (rem[e] = 0) \in BOOLEAN /\ (rem[e] = 0) = first
    BY <1>1
  <2> QED BY <2>1, <2>2
<1>5. tty' = Append(tty, w)
  BY DEF Out!on_transfer
<1> HIDE DEF Write, w
<1>6. /\ tty' \in Seq(Write) /\ Len(tty') = Len(tty) + 1 /\ tty'[Len(tty) + 1] = w
      /\ \A i \in 1..Len(tty) : tty'[i] = tty[i]
  BY <1>1, <1>4, <1>5, AppendProperties
<1>7. /\ begun' \in Seq(BOOLEAN) /\ Len(begun') = Len(begun) + 1 /\ begun'[Len(begun) + 1] = first
      /\ \A i \in 1..Len(begun) : begun'[i] = begun[i]
  BY <1>1, AppendProperties
<1>8. Len(tty) \in Nat /\ DOMAIN tty = 1..Len(tty) /\ DOMAIN tty' = 1..Len(tty')
  BY <1>1, <1>6, LenProperties
<1>9. ASSUME NEW i \in DOMAIN tty' PROVE tty'[i].type = begun'[i]
  <2>1. i \in 1..Len(tty) \/ i = Len(tty) + 1
    BY <1>6, <1>8
  <2> QED BY <2>1, <1>1, <1>4, <1>6, <1>7, <1>8
<1> QED BY <1>1, <1>2, <1>3, <1>6, <1>7, <1>9 DEF Write

LEMMA BeginKeeps ==
  ASSUME OutInv, NEW e \in Out!Endpoint, Out!Begin(e)
  PROVE  OutInv'
<1>1. PICK len \in 0..MaxData : \E n \in Out!HeaderLen(e)..(Out!HeaderLen(e) + len) :
        /\ left' = [left EXCEPT ![e] = Out!HeaderLen(e) + len - n]
        /\ length' = [length EXCEPT ![e] = len]
        /\ Out!on_transfer(e, n, len)
  BY DEF Out!Begin
<1>2. PICK n \in Out!HeaderLen(e)..(Out!HeaderLen(e) + len) :
        /\ left' = [left EXCEPT ![e] = Out!HeaderLen(e) + len - n]
        /\ length' = [length EXCEPT ![e] = len]
        /\ Out!on_transfer(e, n, len)
  BY <1>1
<1> DEFINE rest == Out!HeaderLen(e) + len - n
<1>3. n \in 1..Out!Longest /\ rest \in 0..Out!Longest
  <2>1. Out!HeaderLen(e) \in 1..4 /\ Out!HeaderLen(e) + MaxData <= Out!Longest
        /\ MaxData \in Nat /\ Out!Longest \in Nat
    BY OutNumbers
  <2> QED BY <2>1
<1>4. left[e] = 0 /\ begun' = Append(begun, TRUE)
      /\ packets < MaxPackets /\ packets' = packets + 1
  BY DEF Out!Begin
<1> HIDE DEF rest
<1>5. /\ rem' = left' /\ left' \in [Out!Endpoint -> 0..Out!Longest]
      /\ begun' \in Seq(BOOLEAN)
      /\ tty' \in Seq([ep : Out!Endpoint, type : BOOLEAN, n : 0..Out!Longest])
      /\ Len(tty') = Len(begun') /\ \A i \in DOMAIN tty' : tty'[i].type = begun'[i]
  <2>1. left' = [left EXCEPT ![e] = rest] /\ rest = Out!HeaderLen(e) + len - n
    BY <1>2 DEF rest
  <2> QED BY <1>2, <1>3, <1>4, <2>1, TransferTypes
<1>6. packets' \in 0..MaxPackets /\ length' \in [Out!Endpoint -> 0..MaxData]
  BY <1>2, <1>4, OutNumbers DEF OutInv, Out!TypeOK
<1> QED BY <1>5, <1>6 DEF OutInv, TypedOnce, Out!TypedOnce, Out!TypeOK

LEMMA ContinueKeeps ==
  ASSUME OutInv, NEW e \in Out!Endpoint, Out!Continue(e)
  PROVE  OutInv'
<1>1. PICK n \in 1..left[e] : /\ left' = [left EXCEPT ![e] = @ - n]
                              /\ Out!on_transfer(e, n, length[e])
  BY DEF Out!Continue
<1> DEFINE rest == left[e] - n
<1>2. left[e] \in 0..Out!Longest /\ length[e] \in 0..MaxData
  BY DEF OutInv, Out!TypeOK
<1>3. n \in 1..Out!Longest /\ rest \in 0..Out!Longest /\ left[e] # 0
  BY <1>2, OutNumbers
<1>4. begun' = Append(begun, FALSE) /\ packets' = packets /\ length' = length
  BY DEF Out!Continue
<1>5. left' = [left EXCEPT ![e] = rest]
  BY <1>1
<1> HIDE DEF rest
<1>6. /\ rem' = left' /\ left' \in [Out!Endpoint -> 0..Out!Longest]
      /\ begun' \in Seq(BOOLEAN)
      /\ tty' \in Seq([ep : Out!Endpoint, type : BOOLEAN, n : 0..Out!Longest])
      /\ Len(tty') = Len(begun') /\ \A i \in DOMAIN tty' : tty'[i].type = begun'[i]
  <2>1. rest = left[e] - n
    BY DEF rest
  <2> QED BY <1>1, <1>2, <1>3, <1>4, <1>5, <2>1, TransferTypes
<1> QED BY <1>4, <1>6 DEF OutInv, TypedOnce, Out!TypedOnce, Out!TypeOK

LEMMA OutStep == OutInv /\ [BridgeNext]_bridgeVars => OutInv'
<1> SUFFICES ASSUME OutInv, [BridgeNext]_bridgeVars PROVE OutInv'
  OBVIOUS
<1>1. CASE FromAdapter
  BY <1>1, BeginKeeps, ContinueKeeps DEF FromAdapter
<1>2. CASE hci_usb_device_init
  <2>1. packets' = 0 /\ left' = [e \in Out!Endpoint |-> 0]
        /\ length' = [e \in Out!Endpoint |-> 0] /\ rem' = [e \in Out!Endpoint |-> 0]
        /\ begun' = <<>> /\ tty' = <<>>
    BY <1>2 DEF hci_usb_device_init, Out!Replug
  <2>2. (Out!TypeOK)'
    BY <2>1, OutNumbers DEF Out!TypeOK
  <2> QED BY <2>1, <2>2 DEF OutInv, TypedOnce, Out!TypedOnce
<1>3. CASE FromHost \/ UNCHANGED bridgeVars
  <2>1. UNCHANGED outVars
    BY <1>3 DEF FromHost, bridgeVars
  <2> QED BY <2>1 DEF outVars, OutInv, TypedOnce, Out!TypedOnce, Out!TypeOK
<1> QED BY <1>1, <1>2, <1>3 DEF BridgeNext

(* on_transfer() of hci_usb.c gives each packet of the adapter its type     *)
(* once, before its first byte, however the two endpoints cut their packets *)
(* and take turns, and whatever an unplugged adapter has left unfinished.   *)
THEOREM PacketsTypedOnce == BridgeSpec => []TypedOnce
<1>1. OutInv => TypedOnce
  BY DEF OutInv
<1> QED BY <1>1, OutInit, OutStep, PTL DEF BridgeSpec

-----------------------------------------------------------------------------
(* From the host: types. *)

LEMMA InNumbers ==
  /\ Base \in Nat /\ Base > 4 /\ BufLen \in Nat /\ BufLen > 8 /\ RxSize \in Nat \ {0}
  /\ CmdSize \in Nat \ {0} /\ AclSize \in Nat \ {0}
  /\ \A ep \in {HCI_CMD, HCI_ACL} : Size(ep) \in Nat \ {0}
  /\ \A t \in Types : HeaderLen(t) \in 3..5 /\ (t = HCI_ACL => HeaderLen(t) = 5)
BY SizeAssumption DEF Size, Types, HeaderLen, HCI_CMD, HCI_ACL, HCI_SCO, HCI_EVT

LEMMA TypeBytes == Types \subseteq Nat /\ {HCI_CMD, HCI_ACL} \subseteq Types
BY DEF Types, HCI_CMD, HCI_ACL, HCI_SCO, HCI_EVT

(* The pieces of endpoint size z that L bytes are cut into. *)
LEMMA PieceBounds ==
  ASSUME NEW L \in Nat, NEW z \in Nat \ {0}, NEW i \in 1..((L + z - 1) \div z)
  PROVE  /\ (i - 1) * z + 1 \in 1..L
         /\ i * z = (i - 1) * z + z /\ i * z \in Nat
<1> DEFINE k == (L + z - 1) \div z
<1>1. k \in Int /\ k * z <= L + z - 1
  OBVIOUS
<1> HIDE DEF k
<1>2. i \in Nat \ {0} /\ i <= k
  BY <1>1 DEF k
<1>3. i * z \in Nat /\ i * z <= k * z
  BY <1>1, <1>2
<1>4. (i - 1) * z \in Nat /\ i * z = (i - 1) * z + z
  BY <1>2
<1> QED BY <1>1, <1>3, <1>4

Submission == [ep : {HCI_CMD, HCI_ACL}, data : Seq(Nat)]

LEMMA SubmitsType ==
  ASSUME NEW ep \in {HCI_CMD, HCI_ACL}, NEW d \in Seq(Nat)
  PROVE  /\ Submits(ep, d) \in Seq(Submission)
         /\ \A i \in 1..Len(Submits(ep, d)) :
              /\ Submits(ep, d)[i].ep = ep
              /\ Len(Submits(ep, d)[i].data) \in 1..Size(ep)
<1> DEFINE L == Len(d)
           z == Size(ep)
           k == (L + z - 1) \div z
           hi(i) == IF i * z < L THEN i * z ELSE L
           piece(i) == SubSeq(d, (i - 1) * z + 1, hi(i))
<1>1. L \in Nat /\ z \in Nat \ {0}
  BY InNumbers, LenProperties
<1>2. \A j \in 1..L : d[j] \in Nat
  BY ElementOfSeq
<1>3. k \in Nat
  BY <1>1
<1> HIDE DEF L, z, k
<1>4. ASSUME NEW i \in 1..k
      PROVE  piece(i) \in Seq(Nat) /\ Len(piece(i)) \in 1..z
  <2>1. (i - 1) * z + 1 \in 1..L /\ i * z = (i - 1) * z + z /\ i * z \in Nat
    BY <1>1, PieceBounds DEF k
  <2> DEFINE lo == (i - 1) * z + 1
  <2>2. lo \in 1..L /\ hi(i) \in lo..L /\ hi(i) - lo + 1 \in 1..z
    <3>1. hi(i) \in Nat
      BY <1>1, <2>1
    <3>2. CASE i * z < L
      BY <1>1, <2>1, <3>2
    <3>3. CASE ~(i * z < L)
      BY <1>1, <2>1, <3>3
    <3> QED BY <3>2, <3>3
  <2> HIDE DEF lo, hi
  <2>3. lo \in Int /\ hi(i) \in Int /\ lo <= hi(i) /\ \A j \in lo..hi(i) : d[j] \in Nat
    BY <1>1, <1>2, <2>2
  <2>4. SubSeq(d, lo, hi(i)) \in Seq(Nat) /\ Len(SubSeq(d, lo, hi(i))) = hi(i) - lo + 1
    BY <2>3, SubSeqProperties
  <2> QED BY <2>2, <2>4 DEF lo
<1>5. Submits(ep, d) = [i \in 1..k |-> [ep |-> ep, data |-> piece(i)]]
  BY DEF Submits, L, z, k
<1> HIDE DEF piece
<1>6. \A i \in 1..k : [ep |-> ep, data |-> piece(i)] \in Submission
  BY <1>4 DEF Submission
<1>7. Submits(ep, d) \in Seq(Submission) /\ Len(Submits(ep, d)) = k
  BY <1>3, <1>5, <1>6
<1>8. \A i \in 1..k : /\ Submits(ep, d)[i].ep = ep
                      /\ Submits(ep, d)[i].data = piece(i)
  BY <1>5
<1>9. \A i \in 1..k : Len(Submits(ep, d)[i].data) \in 1..z
  BY <1>4, <1>8
<1> QED BY <1>7, <1>8, <1>9 DEF z

(* A part of a sequence of bytes. *)
LEMMA Part ==
  ASSUME NEW s \in Seq(Nat), NEW m \in Nat \ {0}, NEW n \in Nat, n <= Len(s)
  PROVE  /\ SubSeq(s, m, n) \in Seq(Nat)
         /\ Len(SubSeq(s, m, n)) = IF m <= n THEN n - m + 1 ELSE 0
<1>1. Len(s) \in Nat /\ \A i \in 1..Len(s) : s[i] \in Nat
  BY LenProperties, ElementOfSeq
<1>2. \A i \in m..n : s[i] \in Nat
  BY <1>1
<1> QED BY <1>2, SubSeqProperties

(* The length that IF_PKT computes from a header that is there. *)
LEMMA LengthType ==
  ASSUME NEW w \in Seq(Nat), w # <<>>
  PROVE  /\ w[1] \in Nat
         /\ w[1] \in Types /\ HeaderThere(w) =>
              PktLength(w) \in Nat /\ PktLength(w) >= 3
<1>1. Len(w) \in Nat \ {0} /\ \A i \in 1..Len(w) : w[i] \in Nat
  BY EmptySeq, ElementOfSeq
<1>2. ASSUME w[1] \in Types, HeaderThere(w)
      PROVE  PktLength(w) \in Nat /\ PktLength(w) >= 3
  <2>1. HeaderLen(w[1]) \in 3..5 /\ HeaderLen(w[1]) <= Len(w)
    BY <1>2, InNumbers DEF HeaderThere
  <2>2. w[HeaderLen(w[1])] \in Nat
    BY <1>1, <2>1
  <2>3. CASE w[1] = HCI_ACL
    <3>1. Len(w) >= 5
      BY <1>1, <1>2, <2>1, <2>3, InNumbers
    <3>2. w[4] \in Nat /\ w[5] \in Nat
      BY <1>1, <3>1
    <3>3. Base * w[5] \in Nat
      BY <3>2, InNumbers
    <3>4. PktLength(w) = HeaderLen(w[1]) + (w[4] + Base * w[5])
      BY <2>3 DEF PktLength
    <3>5. \A h \in 3..5 : \A a, b \in Nat : h + (a + b) \in Nat /\ h + (a + b) >= 3
      OBVIOUS
    <3> QED BY <2>1, <3>2, <3>3, <3>4, <3>5
  <2>4. CASE w[1] # HCI_ACL
    BY <2>1, <2>2, <2>4 DEF PktLength
  <2> QED BY <2>3, <2>4
<1> QED BY <1>1, <1>2

SentInPieces == \A i \in 1..Len(sent) : Len(sent[i].data) \in 1..Size(sent[i].ep)

LEMMA TypeParts ==
  TypeOK <=> /\ given \in Seq(Packets) /\ strayed \in BOOLEAN
             /\ pipe \in Seq(Nat) /\ chunk \in Seq(Nat)
             /\ window \in Seq(Nat) /\ Len(window) <= BufLen
             /\ at \in {"idle", "copy", "check"} /\ (at = "idle" => chunk = <<>>)
             /\ sent \in Seq(Submission) /\ SentInPieces
<1>1. sent \in Seq(Submission) => DOMAIN sent = 1..Len(sent)
  BY LenProperties
<1> QED BY <1>1 DEF TypeOK, Submission, SentInPieces, Size

(* What is submitted for a packet is added behind what was. *)
LEMMA SentAppended ==
  ASSUME sent \in Seq(Submission), SentInPieces,
         NEW ep \in {HCI_CMD, HCI_ACL}, NEW d \in Seq(Nat), sent' = sent \o Submits(ep, d)
  PROVE  sent' \in Seq(Submission) /\ SentInPieces'
<1> DEFINE new == Submits(ep, d)
<1>1. new \in Seq(Submission) /\ \A i \in 1..Len(new) : Len(new[i].data) \in 1..Size(new[i].ep)
  BY SubmitsType
<1> HIDE DEF new
<1>2. /\ sent' \in Seq(Submission) /\ Len(sent') = Len(sent) + Len(new)
      /\ \A i \in 1..(Len(sent) + Len(new)) :
           sent'[i] = IF i <= Len(sent) THEN sent[i] ELSE new[i - Len(sent)]
  BY <1>1, ConcatProperties DEF new
<1>3. Len(sent) \in Nat /\ Len(new) \in Nat
  BY <1>1, LenProperties
<1>4. ASSUME NEW i \in 1..Len(sent')
      PROVE  Len(sent'[i].data) \in 1..Size(sent'[i].ep)
  <2>1. i \in 1..Len(sent) \/ (~(i <= Len(sent)) /\ i - Len(sent) \in 1..Len(new))
    BY <1>2, <1>3
  <2>2. CASE i \in 1..Len(sent)
    <3>1. sent'[i] = sent[i]
      BY <2>2, <1>2, <1>3
    <3> QED BY <2>2, <3>1 DEF SentInPieces
  <2>3. CASE ~(i <= Len(sent)) /\ i - Len(sent) \in 1..Len(new)
    <3>1. sent'[i] = new[i - Len(sent)]
      BY <2>3, <1>2, <1>3
    <3> QED BY <2>3, <3>1, <1>1
  <2> QED BY <2>1, <2>2, <2>3
<1> QED BY <1>2, <1>4 DEF SentInPieces

(* NeverFull is not inductive: what the buffer can still take in depends on *)
(* what check_again left there.  While a call waits for more bytes that is  *)
(* the beginning of a packet: of a known type, and, once its length is      *)
(* known, of one that is to fit with four bytes to spare and not complete.  *)
Beginning(w) ==
  w # <<>> => /\ w[1] \in Types
              /\ HeaderThere(w) => PktLength(w) <= BufLen - 4 /\ Len(w) < PktLength(w)
Collecting ==
  /\ at # "check" => Beginning(window)
  /\ at = "check" => window # <<>>

LEMMA BeginningFits ==
  ASSUME NEW w \in Seq(Nat), Beginning(w)
  PROVE  Len(w) < BufLen - 4
<1>1. CASE w = <<>>
  BY <1>1, InNumbers, EmptySeq
<1>2. CASE w # <<>> /\ ~HeaderThere(w)
  <2>1. w[1] \in Types /\ Len(w) \in Nat
    BY <1>2, LenProperties DEF Beginning
  <2>2. HeaderLen(w[1]) \in 3..5 /\ ~(Len(w) >= HeaderLen(w[1]))
    BY <1>2, <2>1, InNumbers DEF HeaderThere
  <2> QED BY <2>1, <2>2, InNumbers
<1>3. CASE w # <<>> /\ HeaderThere(w)
  <2>1. PktLength(w) <= BufLen - 4 /\ Len(w) < PktLength(w)
    BY <1>3 DEF Beginning
  <2>2. PktLength(w) \in Nat /\ Len(w) \in Nat
    BY <1>3, LengthType, LenProperties DEF Beginning
  <2> QED BY <2>1, <2>2, InNumbers
<1> QED BY <1>1, <1>2, <1>3

InInv == TypeOK /\ Collecting

LEMMA ReadKeeps == InInv /\ Read => InInv'
<1> SUFFICES ASSUME InInv, Read PROVE InInv'
  OBVIOUS
<1>1. PICK n \in 1..(IF Len(pipe) < RxSize THEN Len(pipe) ELSE RxSize) :
        chunk' = SubSeq(pipe, 1, n) /\ pipe' = SubSeq(pipe, n + 1, Len(pipe))
  BY DEF Read
<1>2. pipe \in Seq(Nat) /\ Len(pipe) \in Nat
  BY LenProperties DEF InInv, TypeOK
<1>3. n \in Nat /\ n + 1 \in Nat \ {0} /\ n <= Len(pipe)
  BY <1>2, InNumbers
<1>4. chunk' \in Seq(Nat) /\ pipe' \in Seq(Nat)
  BY <1>1, <1>2, <1>3, Part
<1>5. at = "idle" /\ at' = "copy" /\ UNCHANGED <<given, strayed, window, sent>>
  BY DEF Read
<1> QED BY <1>4, <1>5, TypeParts DEF InInv, Collecting, TypeOK

LEMMA CopyKeeps == InInv /\ Copy => InInv'
<1> SUFFICES ASSUME InInv, Copy PROVE InInv'
  OBVIOUS
<1> DEFINE room == BufLen - Len(window)
           n == IF room < Len(chunk) THEN room ELSE Len(chunk)
<1>1. /\ window \in Seq(Nat) /\ Len(window) \in Nat /\ Len(window) <= BufLen
      /\ chunk \in Seq(Nat) /\ chunk # <<>> /\ Len(chunk) \in Nat \ {0}
      /\ at = "copy" /\ Beginning(window)
  BY EmptySeq, LenProperties DEF InInv, TypeOK, Collecting, Copy
<1>2. room > 4 /\ room \in Nat
  BY <1>1, BeginningFits, InNumbers
<1>3. /\ window' = window \o SubSeq(chunk, 1, n)
      /\ chunk' = SubSeq(chunk, n + 1, Len(chunk))
      /\ at' = "check"
      /\ UNCHANGED <<given, strayed, pipe, sent>>
  BY <1>2 DEF Copy
<1>4. n \in Nat \ {0} /\ n + 1 \in Nat \ {0} /\ n <= Len(chunk) /\ n <= room
  BY <1>1, <1>2
<1> HIDE DEF n
<1>5. chunk' \in Seq(Nat)
  BY <1>1, <1>3, <1>4, Part
<1>6. SubSeq(chunk, 1, n) \in Seq(Nat) /\ Len(SubSeq(chunk, 1, n)) = n
  BY <1>1, <1>4, Part
<1>7. window' \in Seq(Nat) /\ Len(window') = Len(window) + n
  BY <1>1, <1>3, <1>6, ConcatProperties
<1>8. Len(window') <= BufLen /\ window' # <<>>
  BY <1>1, <1>2, <1>4, <1>7, InNumbers, EmptySeq
<1> QED BY <1>3, <1>5, <1>7, <1>8 DEF InInv, TypeOK, Collecting

LEMMA CheckKeeps == InInv /\ Check => InInv'
<1> SUFFICES ASSUME InInv, Check PROVE InInv'
  OBVIOUS
<1>1. /\ window \in Seq(Nat) /\ window # <<>> /\ Len(window) \in Nat /\ Len(window) <= BufLen
      /\ window[1] \in Nat /\ sent \in Seq(Submission) /\ SentInPieces
      /\ UNCHANGED <<given, strayed, pipe, chunk>>
  BY TypeParts, LengthType, LenProperties DEF InInv, Collecting, Check
<1>2. CASE ResetRead
  BY <1>1, <1>2, EmptySeq, InNumbers DEF ResetRead, InInv, TypeOK, Collecting, Beginning
<1>3. CASE /\ window[1] \in Types /\ Wait
           /\ HeaderThere(window) => PktLength(window) <= BufLen - 4
                                     /\ Len(window) < PktLength(window)
  BY <1>1, <1>3 DEF Wait, InInv, TypeOK, Collecting, Beginning
<1>4. CASE /\ window[1] \in Types /\ HeaderThere(window)
           /\ ~(Len(window) < PktLength(window)) /\ TakePacket(window)
  <2> DEFINE n == PktLength(window)
  <2>1. n \in Nat /\ n >= 3 /\ n <= Len(window)
    BY <1>1, <1>4, LengthType
  <2>2. /\ sent' = IF window[1] \in {HCI_CMD, HCI_ACL}
                   THEN sent \o Submits(window[1], SubSeq(window, 2, n)) ELSE sent
        /\ window' = SubSeq(window, n + 1, Len(window))
        /\ at' = IF window' = <<>> THEN "copy" ELSE "check"
    BY <1>4 DEF TakePacket
  <2> HIDE DEF n
  <2>3. SubSeq(window, 2, n) \in Seq(Nat)
    BY <1>1, <2>1, Part
  <2>4. sent' \in Seq(Submission) /\ SentInPieces'
    BY <1>1, <2>2, <2>3, SentAppended DEF SentInPieces
  <2>5. window' \in Seq(Nat) /\ Len(window') <= BufLen
    <3>1. n + 1 \in Nat \ {0} /\ Len(window) <= Len(window)
      BY <1>1, <2>1
    <3>2. window' \in Seq(Nat)
          /\ Len(window') = IF n + 1 <= Len(window) THEN Len(window) - (n + 1) + 1 ELSE 0
      BY <1>1, <2>2, <3>1, Part
    <3> QED BY <1>1, <2>1, <3>2, InNumbers
  <2>6. TypeOK'
    <3>1. DOMAIN sent' = 1..Len(sent')
      BY <2>4, LenProperties
    <3>2. \A i \in DOMAIN sent' :
            Len(sent'[i].data) \in 1..(IF sent'[i].ep = HCI_CMD THEN CmdSize ELSE AclSize)
      BY <2>4, <3>1 DEF SentInPieces, Size
    <3> QED BY <1>1, <2>2, <2>4, <2>5, <3>2 DEF InInv, TypeOK, Submission
  <2> QED BY <2>2, <2>6 DEF InInv, Collecting, Beginning
<1> QED BY <1>1, <1>2, <1>3, <1>4 DEF Check

LEMMA NothingYet ==
  /\ <<>> \in Seq(Packets) /\ <<>> \in Seq(Nat) /\ <<>> \in Seq(Submission)
  /\ Len(<<>>) = 0 /\ DOMAIN <<>> = {}
  /\ sent = <<>> => SentInPieces
<1>1. DOMAIN <<>> = {}
  OBVIOUS
<1>2. Len(<<>>) = 0 /\ \A S : <<>> \in Seq(S)
  BY EmptySeq
<1> QED BY <1>1, <1>2 DEF SentInPieces

LEMMA InInit == BridgeInit => InInv
<1> SUFFICES ASSUME BridgeInit PROVE InInv
  OBVIOUS
<1>1. Init
  BY DEF BridgeInit
<1>2. TypeOK
  <2>1. given = <<>> /\ strayed = FALSE /\ pipe = <<>> /\ chunk = <<>> /\ window = <<>>
        /\ at = "idle" /\ sent = <<>>
    BY <1>1 DEF Init
  <2>2. given \in Seq(Packets) /\ pipe \in Seq(Nat) /\ chunk \in Seq(Nat) /\ window \in Seq(Nat)
        /\ sent \in Seq(Submission)
    BY <2>1, NothingYet
  <2>3. Len(window) <= BufLen
    BY <2>1, NothingYet, InNumbers
  <2> QED BY <2>1, <2>2, <2>3, NothingYet, TypeParts
<1> QED BY <1>1, <1>2 DEF Init, InInv, Collecting, Beginning

LEMMA InStep == InInv /\ [BridgeNext]_bridgeVars => InInv'
<1> SUFFICES ASSUME InInv, [BridgeNext]_bridgeVars PROVE InInv'
  OBVIOUS
<1>1. CASE Host
  <2>1. PICK p \in Packets : given' = Append(given, p) /\ pipe' = pipe \o Bytes(p)
    BY <1>1 DEF Host
  <2>2. Bytes(p) \in Seq(Nat)
    <3>1. Bytes(p) \in Seq(0..(Base - 1)) /\ 0..(Base - 1) \subseteq Nat
      BY PacketAssumption, InNumbers
    <3> QED BY <3>1, SeqMonotonic
  <2>3. pipe' \in Seq(Nat) /\ given' \in Seq(Packets)
    BY <2>1, <2>2, ConcatProperties, AppendProperties DEF InInv, TypeOK
  <2> QED BY <1>1, <2>3 DEF Host, InInv, TypeOK, Collecting
<1>2. CASE Stray
  <2>1. PICK b \in Strays : pipe' = pipe \o b
    BY <1>2 DEF Stray
  <2>2. b \in Seq(Nat)
    <3>1. b \in Seq(0..(Base - 1)) /\ 0..(Base - 1) \subseteq Nat
      BY StrayAssumption, InNumbers
    <3> QED BY <3>1, SeqMonotonic
  <2>3. pipe' \in Seq(Nat)
    BY <2>1, <2>2, ConcatProperties DEF InInv, TypeOK
  <2> QED BY <1>2, <2>3 DEF Stray, InInv, TypeOK, Collecting
<1>3. CASE CallReturns
  BY <1>3 DEF CallReturns, InInv, TypeOK, Collecting
<1>4. CASE hci_usb_device_init
  <2>1. Replug
    BY <1>4 DEF hci_usb_device_init
  <2>2. TypeOK'
    <3>1. /\ given' = <<>> /\ strayed' = FALSE /\ pipe' = <<>> /\ chunk' = <<>>
          /\ window' = <<>> /\ at' = "idle" /\ sent' = <<>>
      BY <2>1 DEF Replug, InInv, TypeOK
    <3>2. \A i \in DOMAIN sent' :
            Len(sent'[i].data) \in 1..(IF sent'[i].ep = HCI_CMD THEN CmdSize ELSE AclSize)
      BY <3>1, NothingYet
    <3>3. given' \in Seq(Packets) /\ pipe' \in Seq(Nat) /\ chunk' \in Seq(Nat)
          /\ window' \in Seq(Nat) /\ sent' \in Seq(Submission)
      BY <3>1, NothingYet
    <3>4. Len(window') <= BufLen
      BY <3>1, NothingYet, InNumbers
    <3> QED BY <3>1, <3>2, <3>3, <3>4 DEF TypeOK, Submission
  <2> QED BY <2>1, <2>2 DEF Replug, InInv, Collecting, Beginning
<1>5. CASE FromAdapter \/ UNCHANGED bridgeVars
  <2>1. UNCHANGED vars
    BY <1>5 DEF FromAdapter, bridgeVars
  <2> QED BY <2>1 DEF vars, InInv, TypeOK, Collecting
<1> QED BY <1>1, <1>2, <1>3, <1>4, <1>5, ReadKeeps, CopyKeeps, CheckKeeps
        DEF BridgeNext, FromHost

(* hci_usb_device_input() of hci_usb.c always has room for what it is       *)
(* given: the branch that throws a full buffer away is never taken,         *)
(* whatever arrives and however it is cut.                                  *)
THEOREM InputNeverFull == BridgeSpec => []NeverFull
<1>1. InInv => NeverFull
  BY BeginningFits DEF InInv, Collecting, NeverFull, TypeOK
<1> QED BY <1>1, InInit, InStep, PTL DEF BridgeSpec

(* Every variable of both directions keeps its type: in particular, no      *)
(* piece that is submitted is empty or longer than a packet of its          *)
(* endpoint, and rem_acl_bytes and rem_evt_bytes never wrap.                *)
THEOREM TypeCorrect == BridgeSpec => []BridgeTypeOK
<1> DEFINE IInv == InInv /\ OutInv /\ direction \in {"in", "out"}
<1>1. BridgeInit => IInv
  BY InInit, OutInit DEF BridgeInit
<1>2. IInv /\ [BridgeNext]_bridgeVars => IInv'
  BY InStep, OutStep
     DEF BridgeNext, FromHost, FromAdapter, hci_usb_device_init, bridgeVars
<1>3. IInv => BridgeTypeOK
  BY DEF InInv, OutInv, BridgeTypeOK
<1> QED BY <1>1, <1>2, <1>3, PTL DEF BridgeSpec

-----------------------------------------------------------------------------
(* Sequences of sequences, one behind the other. *)

(* A set of numbers has a least one: induction by a least counterexample.   *)
LEMMA Minimum ==
  ASSUME NEW S \in SUBSET Nat, S # {}
  PROVE  \E m \in S : \A n \in S : m <= n
<1> DEFINE Below == {1..n : n \in S}
           R == StrictSubsetOrdering(Nat)
<1>1. Below \subseteq FiniteSubsetsOf(Nat) /\ Below # {}
  <2>1. \A n \in S : IsFiniteSet(1..n) /\ 1..n \in SUBSET Nat
    BY FS_Interval
  <2> QED BY <2>1 DEF FiniteSubsetsOf
<1>2. \E x \in Below : \A y \in Below : <<y, x>> \notin R
  <2>1. IsWellFoundedOn(R, FiniteSubsetsOf(Nat))
    BY FS_StrictSubsetOrderingWellFounded
  <2> HIDE DEF Below, R
  <2> QED BY <1>1, <2>1, WFMin
<1>3. PICK m \in S : \A n \in S : <<1..n, 1..m>> \notin R
  BY <1>2
<1>4. ASSUME NEW n \in S, n < m PROVE FALSE
  <2>1. 1..n \subseteq 1..m /\ m \in 1..m /\ m \notin 1..n
    BY <1>4
  <2>2. <<1..n, 1..m>> \in R
    BY <2>1 DEF StrictSubsetOrdering
  <2> QED BY <1>3, <2>2
<1> QED BY <1>3, <1>4

(* The recursion of FlattenSeq, up to the n-th sequence. *)
Flattens(f, s, n) == f = [i \in 1..n |-> IF i = 1 THEN s[i] ELSE f[i - 1] \o s[i]]

LEMMA FlattensExists ==
  ASSUME NEW s, NEW N \in Nat
  PROVE  \E f : Flattens(f, s, N)
<1> DEFINE Without == {n \in Nat : ~ \E f : Flattens(f, s, n)}
<1>1. SUFFICES ASSUME Without # {} PROVE FALSE
  OBVIOUS
<1>2. PICK m \in Without : \A n \in Without : m <= n
  <2>1. Without \in SUBSET Nat
    OBVIOUS
  <2> HIDE DEF Without
  <2> QED BY <1>1, <2>1, Minimum
<1>3. m # 0
  <2> DEFINE e == [i \in 1..0 |-> s[i]]
  <2>1. e = [i \in 1..0 |-> IF i = 1 THEN s[i] ELSE e[i - 1] \o s[i]]
    OBVIOUS
  <2>2. Flattens(e, s, 0)
    BY <2>1 DEF Flattens
  <2> QED BY <2>2
<1>4. m \in Nat /\ m - 1 \in Nat /\ m - 1 \notin Without
  BY <1>2, <1>3
<1>5. PICK f : Flattens(f, s, m - 1)
  BY <1>4
<1> DEFINE g == [i \in 1..m |-> IF i < m THEN f[i] ELSE IF i = 1 THEN s[i] ELSE f[i - 1] \o s[i]]
           h == [i \in 1..m |-> IF i = 1 THEN s[i] ELSE g[i - 1] \o s[i]]
<1>6. ASSUME NEW i \in 1..m PROVE g[i] = IF i = 1 THEN s[i] ELSE g[i - 1] \o s[i]
  <2>1. i # 1 => i - 1 \in 1..m /\ i - 1 < m
    BY <1>4
  <2>2. i # 1 => g[i - 1] = f[i - 1]
    BY <2>1
  <2>3. CASE i < m
    <3>1. i \in 1..(m - 1)
      BY <1>4, <2>3
    <3>2. f[i] = IF i = 1 THEN s[i] ELSE f[i - 1] \o s[i]
      BY <1>5, <3>1 DEF Flattens
    <3>3. g[i] = f[i]
      BY <2>3
    <3> HIDE DEF g
    <3> QED BY <2>2, <3>2, <3>3
  <2>4. CASE ~(i < m)
    <3>1. g[i] = IF i = 1 THEN s[i] ELSE f[i - 1] \o s[i]
      BY <2>4
    <3> HIDE DEF g
    <3> QED BY <2>2, <3>1
  <2> QED BY <2>3, <2>4
<1>7. g = h
  <2>1. \A i \in 1..m : g[i] = h[i]
    BY <1>6
  <2> QED BY <2>1
<1>8. Flattens(g, s, m)
  BY <1>7 DEF Flattens
<1> QED BY <1>2, <1>8

LEMMA FlattenSeqIs ==
  ASSUME NEW s, Len(s) \in Nat
  PROVE  /\ Len(s) = 0 => FlattenSeq(s) = s
         /\ Len(s) # 0 => \E f : Flattens(f, s, Len(s)) /\ FlattenSeq(s) = f[Len(s)]
<1>1. PICK f : Flattens(f, s, Len(s))
  BY FlattensExists
<1> DEFINE g == CHOOSE f_1 : f_1 = [i \in 1..Len(s) |-> IF i = 1 THEN s[i] ELSE f_1[i - 1] \o s[i]]
<1>2. Flattens(g, s, Len(s))
  BY <1>1 DEF Flattens
<1>3. Len(s) # 0 => FlattenSeq(s) = g[Len(s)]
  BY DEF FlattenSeq
<1>4. Len(s) = 0 => FlattenSeq(s) = s
  BY DEF FlattenSeq
<1> HIDE DEF g
<1> QED BY <1>2, <1>3, <1>4

LEMMA FlattensAgree ==
  ASSUME NEW S, NEW s \in Seq(Seq(S)), NEW t \in Seq(Seq(S)),
         NEW n \in Nat, n <= Len(s), n <= Len(t), \A i \in 1..n : s[i] = t[i],
         NEW f, Flattens(f, s, Len(s)), NEW g, Flattens(g, t, Len(t))
  PROVE  \A i \in 1..n : f[i] = g[i] /\ f[i] \in Seq(S)
<1> DEFINE Wrong == {i \in 1..n : ~(f[i] = g[i] /\ f[i] \in Seq(S))}
<1>1. SUFFICES ASSUME Wrong # {} PROVE FALSE
  OBVIOUS
<1>2. PICK k \in Wrong : \A i \in Wrong : k <= i
  <2>1. Wrong \in SUBSET Nat
    OBVIOUS
  <2> HIDE DEF Wrong
  <2> QED BY <1>1, <2>1, Minimum
<1>3. k \in 1..n /\ k \in 1..Len(s) /\ k \in 1..Len(t) /\ s[k] = t[k]
  OBVIOUS
<1>4. s[k] \in Seq(S)
  BY <1>3, ElementOfSeq
<1>5. /\ f[k] = IF k = 1 THEN s[k] ELSE f[k - 1] \o s[k]
      /\ g[k] = IF k = 1 THEN t[k] ELSE g[k - 1] \o t[k]
  BY <1>3 DEF Flattens
<1>6. CASE k = 1
  BY <1>3, <1>4, <1>5, <1>6
<1>7. CASE k # 1
  <2>1. k - 1 \in 1..n /\ k - 1 \notin Wrong
    <3>1. k - 1 \in 1..n /\ ~(k <= k - 1)
      BY <1>3, <1>7
    <3> HIDE DEF Wrong
    <3> QED BY <1>2, <3>1
  <2>2. f[k - 1] = g[k - 1] /\ f[k - 1] \in Seq(S)
    BY <2>1
  <2>3. f[k - 1] \o s[k] \in Seq(S)
    BY <1>4, <2>2, ConcatProperties
  <2> QED BY <1>3, <1>5, <1>7, <2>2, <2>3
<1> QED BY <1>6, <1>7

LEMMA FlattenEmpty == FlattenSeq(<<>>) = <<>>
BY FlattenSeqIs

LEMMA FlattenTyped ==
  ASSUME NEW S, NEW s \in Seq(Seq(S))
  PROVE  FlattenSeq(s) \in Seq(S)
<1>1. CASE Len(s) = 0
  <2>1. s = <<>>
    BY <1>1, EmptySeq
  <2>2. <<>> \in Seq(S)
    BY EmptySeq
  <2> QED BY <2>1, <2>2, FlattenEmpty
<1>2. CASE Len(s) # 0
  <2>1. PICK f : Flattens(f, s, Len(s)) /\ FlattenSeq(s) = f[Len(s)]
    BY <1>2, FlattenSeqIs
  <2>2. \A i \in 1..Len(s) : f[i] = f[i] /\ f[i] \in Seq(S)
    BY <2>1, FlattensAgree
  <2> QED BY <1>2, <2>1, <2>2
<1> QED BY <1>1, <1>2

LEMMA FlattenAppend ==
  ASSUME NEW S, NEW s \in Seq(Seq(S)), NEW e \in Seq(S)
  PROVE  FlattenSeq(Append(s, e)) = FlattenSeq(s) \o e
<1> DEFINE t == Append(s, e)
           n == Len(s)
<1>1. /\ t \in Seq(Seq(S)) /\ Len(t) = n + 1 /\ n \in Nat
      /\ t[n + 1] = e /\ \A i \in 1..n : s[i] = t[i]
  BY AppendProperties
<1> HIDE DEF t
<1>2. PICK g : Flattens(g, t, n + 1) /\ FlattenSeq(t) = g[n + 1]
  <2>1. Len(t) # 0 /\ Len(t) \in Nat
    BY <1>1
  <2> QED BY <1>1, <2>1, FlattenSeqIs
<1>3. g[n + 1] = IF n + 1 = 1 THEN e ELSE g[n] \o e
  <2>1. n + 1 \in 1..(n + 1) /\ (n + 1) - 1 = n
    BY <1>1
  <2> QED BY <1>1, <1>2, <2>1 DEF Flattens
<1>4. CASE n = 0
  <2>1. s = <<>>
    BY <1>4, EmptySeq
  <2>2. <<>> \o e = e
    BY ConcatEmptySeq
  <2> QED BY <1>2, <1>3, <1>4, <2>1, <2>2, FlattenEmpty DEF t
<1>5. CASE n # 0
  <2>1. PICK f : Flattens(f, s, n) /\ FlattenSeq(s) = f[n]
    BY <1>1, <1>5, FlattenSeqIs
  <2>2. \A i \in 1..n : f[i] = g[i]
    <3>1. n <= Len(s) /\ n <= Len(t) /\ n \in Nat
      BY <1>1
    <3>2. Flattens(f, s, Len(s)) /\ Flattens(g, t, Len(t))
      BY <1>1, <1>2, <2>1
    <3>3. \A i \in 1..n : s[i] = t[i]
      BY <1>1
    <3>4. t \in Seq(Seq(S))
      BY <1>1
    <3> HIDE DEF n
    <3>5. \A i \in 1..n : f[i] = g[i] /\ f[i] \in Seq(S)
      BY <3>1, <3>2, <3>3, <3>4, FlattensAgree
    <3> QED BY <3>5
  <2>3. f[n] = g[n]
    BY <1>1, <1>5, <2>2
  <2> QED BY <1>1, <1>2, <1>3, <1>5, <2>1, <2>3 DEF t
<1> QED BY <1>4, <1>5

LEMMA AppendGrouped ==
  ASSUME NEW T, NEW a \in Seq(T), NEW f \in Seq(T), NEW e \in T
  PROVE  a \o Append(f, e) = Append(a \o f, e)
<1>1. <<e>> \in Seq(T) /\ a \o f \in Seq(T)
  BY ConcatProperties
<1>2. Append(f, e) = f \o <<e>> /\ Append(a \o f, e) = (a \o f) \o <<e>>
  BY <1>1, AppendIsConcat
<1>3. (a \o f) \o <<e>> = a \o (f \o <<e>>)
  BY <1>1, ConcatAssociative
<1> QED BY <1>2, <1>3

(* Seq(S) under a name that the provers do not look into. *)
Strings(S) == Seq(S)

LEMMA Grouped ==
  ASSUME NEW S, NEW u \in Strings(S), NEW v \in Strings(S), NEW e \in Strings(S)
  PROVE  (u \o v) \o e = u \o (v \o e)
BY ConcatAssociative DEF Strings

LEMMA GroupedAppend ==
  ASSUME NEW S, NEW a \in Strings(Strings(S)), NEW f \in Strings(Strings(S)),
         NEW e \in Strings(S)
  PROVE  a \o Append(f, e) = Append(a \o f, e) /\ a \o f \in Strings(Strings(S))
<1> DEFINE T == Strings(S)
<1>1. a \in Seq(T) /\ f \in Seq(T) /\ e \in T
  BY DEF Strings
<1> HIDE DEF T
<1>2. a \o f \in Seq(T) /\ a \o Append(f, e) = Append(a \o f, e)
  BY <1>1, ConcatProperties, AppendGrouped
<1> QED BY <1>2 DEF Strings, T

LEMMA FlattenConcat ==
  ASSUME NEW S, NEW a \in Seq(Seq(S)), NEW b \in Seq(Seq(S))
  PROVE  FlattenSeq(a \o b) = FlattenSeq(a) \o FlattenSeq(b)
<1> DEFINE Joins(c) == FlattenSeq(a \o c) = FlattenSeq(a) \o FlattenSeq(c)
           Wrong == {n \in Nat : \E c \in Seq(Seq(S)) : Len(c) = n /\ ~Joins(c)}
<1>1. SUFFICES ASSUME Wrong # {} PROVE FALSE
  <2>1. Len(b) \in Nat
    BY LenProperties
  <2> QED BY <2>1
<1>2. PICK m \in Wrong : \A n \in Wrong : m <= n
  <2>1. Wrong \in SUBSET Nat
    OBVIOUS
  <2> HIDE DEF Wrong
  <2> QED BY <1>1, <2>1, Minimum
<1>3. PICK c \in Seq(Seq(S)) : Len(c) = m /\ ~Joins(c)
  BY <1>2
<1>4. FlattenSeq(a) \in Seq(S)
  BY FlattenTyped
<1>5. c # <<>>
  <2>1. a \o <<>> = a /\ FlattenSeq(a) \o <<>> = FlattenSeq(a)
    BY <1>4, ConcatEmptySeq
  <2> QED BY <1>3, <2>1, FlattenEmpty
<1>6. PICK f \in Seq(Seq(S)), e \in Seq(S) : c = Append(f, e)
  BY <1>5, SequenceEmptyOrAppend
<1>7. Len(f) \in Nat /\ ~(m <= Len(f))
  BY <1>3, <1>6, AppendProperties, LenProperties
<1>8. Joins(f)
  BY <1>2, <1>7
<1> HIDE DEF Joins, Wrong
<1>9. a \o Append(f, e) = Append(a \o f, e) /\ a \o f \in Seq(Seq(S))
  <2>1. a \in Strings(Strings(S)) /\ f \in Strings(Strings(S)) /\ e \in Strings(S)
    BY <1>6 DEF Strings
  <2>2. a \o Append(f, e) = Append(a \o f, e) /\ a \o f \in Strings(Strings(S))
    BY <2>1, GroupedAppend, Zenon
  <2> QED BY <2>2 DEF Strings
<1>10. /\ FlattenSeq(Append(a \o f, e)) = FlattenSeq(a \o f) \o e
       /\ FlattenSeq(Append(f, e)) = FlattenSeq(f) \o e
  BY <1>9, FlattenAppend
<1>11. (FlattenSeq(a) \o FlattenSeq(f)) \o e = FlattenSeq(a) \o (FlattenSeq(f) \o e)
  <2>1. FlattenSeq(a) \in Strings(S) /\ FlattenSeq(f) \in Strings(S) /\ e \in Strings(S)
    BY <1>4, <1>6, FlattenTyped DEF Strings
  <2> HIDE DEF Strings
  <2>2. PICK x \in Strings(S), y \in Strings(S) : x = FlattenSeq(a) /\ y = FlattenSeq(f)
    BY <2>1
  <2>3. (x \o y) \o e = x \o (y \o e)
    BY <2>1, Grouped
  <2> QED BY <2>2, <2>3
<1> QED BY <1>3, <1>6, <1>8, <1>9, <1>10, <1>11 DEF Joins

(* What FlattenSeq makes of the images of g's elements. *)
Image(F, g) == [i \in DOMAIN g |-> F[g[i]]]
Spread(F, g) == FlattenSeq(Image(F, g))

Maps(P, T) == [P -> T]

LEMMA ImageTyped ==
  ASSUME NEW P, NEW T, NEW F \in Maps(P, T), NEW g \in Seq(P)
  PROVE  /\ Image(F, g) \in Seq(T) /\ Len(Image(F, g)) = Len(g)
         /\ \A i \in 1..Len(g) : Image(F, g)[i] = F[g[i]]
<1>1. Len(g) \in Nat /\ DOMAIN g = 1..Len(g)
  BY LenProperties
<1>2. \A i \in 1..Len(g) : F[g[i]] \in T
  BY ElementOfSeq DEF Maps
<1>3. PICK n \in Nat : n = Len(g)
  BY <1>1
<1>4. [i \in 1..n |-> F[g[i]]] \in Seq(T) /\ Len([i \in 1..n |-> F[g[i]]]) = n
  BY <1>2, <1>3
<1>5. Image(F, g) = [i \in 1..n |-> F[g[i]]]
  BY <1>1, <1>3 DEF Image
<1> QED BY <1>3, <1>4, <1>5

LEMMA ImageJoined ==
  ASSUME NEW P, NEW T, NEW F \in Maps(P, T), NEW a \in Seq(P), NEW b \in Seq(P)
  PROVE  Image(F, a \o b) = Image(F, a) \o Image(F, b)
<1>1. PICK c \in Seq(P) : c = a \o b
  <2>1. a \o b \in Seq(P)
    BY ConcatProperties
  <2> QED BY <2>1
<1>2. /\ Len(c) = Len(a) + Len(b)
      /\ \A i \in 1..(Len(a) + Len(b)) : c[i] = IF i <= Len(a) THEN a[i] ELSE b[i - Len(a)]
  BY <1>1, ConcatProperties
<1>3. Len(a) \in Nat /\ Len(b) \in Nat
  BY LenProperties
<1>4. PICK u \in Seq(T) : u = Image(F, a) /\ Len(u) = Len(a) /\ \A i \in 1..Len(a) : u[i] = F[a[i]]
  BY ImageTyped
<1>5. PICK v \in Seq(T) : v = Image(F, b) /\ Len(v) = Len(b) /\ \A i \in 1..Len(b) : v[i] = F[b[i]]
  BY ImageTyped
<1>6. PICK w \in Seq(T) : w = Image(F, c) /\ Len(w) = Len(c) /\ \A i \in 1..Len(c) : w[i] = F[c[i]]
  BY ImageTyped
<1>7. /\ u \o v \in Seq(T) /\ Len(u \o v) = Len(u) + Len(v)
      /\ \A i \in 1..(Len(u) + Len(v)) :
           (u \o v)[i] = IF i <= Len(u) THEN u[i] ELSE v[i - Len(u)]
  BY ConcatProperties
<1>8. ASSUME NEW i \in 1..Len(w) PROVE w[i] = (u \o v)[i]
  <2>1. i \in 1..(Len(a) + Len(b)) /\ w[i] = F[c[i]]
    BY <1>2, <1>6
  <2>2. CASE i <= Len(a)
    <3>1. i \in 1..Len(a) /\ c[i] = a[i] /\ (u \o v)[i] = u[i]
      BY <1>2, <1>3, <1>4, <1>5, <1>7, <2>1, <2>2
    <3> QED BY <1>4, <2>1, <3>1
  <2>3. CASE ~(i <= Len(a))
    <3>1. i - Len(a) \in 1..Len(b)
      BY <1>3, <2>1, <2>3
    <3>2. c[i] = b[i - Len(a)] /\ (u \o v)[i] = v[i - Len(a)]
      BY <1>2, <1>3, <1>4, <1>5, <1>7, <2>1, <2>3
    <3> QED BY <1>5, <2>1, <3>1, <3>2
  <2> QED BY <2>2, <2>3
<1>9. w = u \o v
  <2>1. Len(w) = Len(u \o v)
    BY <1>2, <1>4, <1>5, <1>6, <1>7
  <2> QED BY <1>7, <1>8, <2>1, SeqEqual
<1> QED BY <1>1, <1>4, <1>5, <1>6, <1>9

LEMMA SpreadTyped ==
  ASSUME NEW P, NEW S, NEW F \in Maps(P, Seq(S)), NEW g \in Seq(P)
  PROVE  Spread(F, g) \in Seq(S)
<1> DEFINE h == Image(F, g)
<1>1. h \in Seq(Seq(S))
  BY ImageTyped
<1> HIDE DEF h
<1>2. FlattenSeq(h) \in Seq(S)
  BY <1>1, FlattenTyped
<1> QED BY <1>2 DEF Spread, h

LEMMA SpreadJoined ==
  ASSUME NEW P, NEW S, NEW F \in Maps(P, Seq(S)), NEW a \in Seq(P), NEW b \in Seq(P)
  PROVE  Spread(F, a \o b) = Spread(F, a) \o Spread(F, b)
<1> DEFINE u == Image(F, a)
           v == Image(F, b)
<1>1. u \in Seq(Seq(S)) /\ v \in Seq(Seq(S))
  BY ImageTyped
<1>2. Image(F, a \o b) = u \o v
  <2>1. PICK T : T = Seq(S)
    OBVIOUS
  <2>2. F \in Maps(P, T)
    BY <2>1
  <2> QED BY <2>2, ImageJoined
<1> HIDE DEF u, v
<1>3. FlattenSeq(u \o v) = FlattenSeq(u) \o FlattenSeq(v)
  BY <1>1, FlattenConcat
<1> QED BY <1>2, <1>3 DEF Spread, u, v

LEMMA SpreadEmpty == \A F : Spread(F, <<>>) = <<>>
<1>1. \A F : [i \in DOMAIN <<>> |-> F[<<>>[i]]] = <<>>
  OBVIOUS
<1> QED BY <1>1, FlattenEmpty DEF Spread, Image

LEMMA SpreadFew ==
  ASSUME NEW P, NEW S, NEW F \in Maps(P, Seq(S)), NEW x \in P
  PROVE  Spread(F, <<x>>) = F[x]
<1>1. [i \in DOMAIN <<x>> |-> F[<<x>>[i]]] = <<F[x]>>
  OBVIOUS
<1>2. PICK e \in Seq(S) : e = F[x]
  BY DEF Maps
<1>3. FlattenSeq(Append(<<>>, e)) = FlattenSeq(<<>>) \o e
  <2>1. <<>> \in Seq(Seq(S))
    BY EmptySeq
  <2> QED BY <2>1, FlattenAppend
<1>4. Append(<<>>, e) = <<e>> /\ <<>> \o e = e
  BY <1>2, ConcatEmptySeq
<1> QED BY <1>1, <1>2, <1>3, <1>4, FlattenEmpty DEF Spread, Image

-----------------------------------------------------------------------------
(* From the host: what arrives. *)

Tags == {HCI_CMD, HCI_ACL} \X Nat

(* The bytes of a packet, what is to arrive of it, what arrives of a        *)
(* submission.                                                              *)
Wire == [p \in Packets |-> Bytes(p)]
Payload == [p \in Packets |->
  IF p.type \in {HCI_CMD, HCI_ACL} THEN To(p.type, Tail(Bytes(p))) ELSE <<>>]
Tagged == [x \in Submission |-> To(x.ep, x.data)]

LEMMA BytesTyped ==
  ASSUME NEW p \in Packets
  PROVE  Bytes(p) \in Seq(Nat)
<1>1. Bytes(p) \in Seq(0..(Base - 1)) /\ 0..(Base - 1) \subseteq Nat
  BY PacketAssumption, InNumbers
<1> QED BY <1>1, SeqMonotonic

LEMMA ToTyped ==
  ASSUME NEW ep \in {HCI_CMD, HCI_ACL}, NEW d \in Seq(Nat)
  PROVE  /\ To(ep, d) \in Seq(Tags) /\ Len(To(ep, d)) = Len(d)
         /\ \A i \in 1..Len(d) : To(ep, d)[i] = <<ep, d[i]>>
<1>1. PICK n \in Nat : n = Len(d) /\ DOMAIN d = 1..n
  BY LenProperties
<1>2. \A i \in 1..n : d[i] \in Nat
  BY <1>1, ElementOfSeq
<1>3. \A i \in 1..n : <<ep, d[i]>> \in Tags
  BY <1>2 DEF Tags
<1>4. To(ep, d) = [i \in 1..n |-> <<ep, d[i]>>]
  BY <1>1 DEF To
<1>5. [i \in 1..n |-> <<ep, d[i]>>] \in Seq(Tags) /\ Len([i \in 1..n |-> <<ep, d[i]>>]) = n
  BY <1>3
<1> QED BY <1>1, <1>4, <1>5

(* Sequences of bytes, one behind the other. *)
LEMMA NatJoined ==
  ASSUME NEW u \in Seq(Nat), NEW v \in Seq(Nat)
  PROVE  /\ u \o v \in Seq(Nat) /\ Len(u \o v) = Len(u) + Len(v)
         /\ \A i \in 1..(Len(u) + Len(v)) :
              (u \o v)[i] = IF i <= Len(u) THEN u[i] ELSE v[i - Len(u)]
BY ConcatProperties

LEMMA NatGrouped ==
  ASSUME NEW u \in Seq(Nat), NEW v \in Seq(Nat), NEW e \in Seq(Nat)
  PROVE  (u \o v) \o e = u \o (v \o e)
BY ConcatAssociative

LEMMA TagsJoined ==
  ASSUME NEW u \in Seq(Tags), NEW v \in Seq(Tags)
  PROVE  /\ u \o v \in Seq(Tags) /\ Len(u \o v) = Len(u) + Len(v)
         /\ \A i \in 1..(Len(u) + Len(v)) :
              (u \o v)[i] = IF i <= Len(u) THEN u[i] ELSE v[i - Len(u)]
BY ConcatProperties

LEMMA ToJoined ==
  ASSUME NEW ep \in {HCI_CMD, HCI_ACL}, NEW u \in Seq(Nat), NEW v \in Seq(Nat)
  PROVE  To(ep, u \o v) = To(ep, u) \o To(ep, v)
<1>1. PICK c \in Seq(Nat) :
        /\ c = u \o v /\ Len(c) = Len(u) + Len(v)
        /\ \A i \in 1..(Len(u) + Len(v)) : c[i] = IF i <= Len(u) THEN u[i] ELSE v[i - Len(u)]
  BY NatJoined
<1>2. Len(u) \in Nat /\ Len(v) \in Nat
  BY LenProperties
<1>3. PICK x \in Seq(Tags) :
        x = To(ep, u) /\ Len(x) = Len(u) /\ \A i \in 1..Len(u) : x[i] = <<ep, u[i]>>
  BY ToTyped
<1>4. PICK y \in Seq(Tags) :
        y = To(ep, v) /\ Len(y) = Len(v) /\ \A i \in 1..Len(v) : y[i] = <<ep, v[i]>>
  BY ToTyped
<1>5. PICK z \in Seq(Tags) :
        z = To(ep, c) /\ Len(z) = Len(c) /\ \A i \in 1..Len(c) : z[i] = <<ep, c[i]>>
  BY ToTyped
<1>6. /\ x \o y \in Seq(Tags) /\ Len(x \o y) = Len(x) + Len(y)
      /\ \A i \in 1..(Len(x) + Len(y)) : (x \o y)[i] = IF i <= Len(x) THEN x[i] ELSE y[i - Len(x)]
  BY TagsJoined
<1>7. ASSUME NEW i \in 1..Len(z) PROVE z[i] = (x \o y)[i]
  <2>1. i \in 1..(Len(u) + Len(v)) /\ z[i] = <<ep, c[i]>>
    BY <1>1, <1>5
  <2>2. CASE i <= Len(u)
    <3>1. i \in 1..Len(u) /\ c[i] = u[i] /\ (x \o y)[i] = x[i]
      BY <1>1, <1>2, <1>3, <1>4, <1>6, <2>1, <2>2
    <3> QED BY <1>3, <2>1, <3>1
  <2>3. CASE ~(i <= Len(u))
    <3>1. i - Len(u) \in 1..Len(v)
      BY <1>2, <2>1, <2>3
    <3>2. c[i] = v[i - Len(u)] /\ (x \o y)[i] = y[i - Len(u)]
      BY <1>1, <1>2, <1>3, <1>4, <1>6, <2>1, <2>3
    <3> QED BY <1>4, <2>1, <3>1, <3>2
  <2> QED BY <2>2, <2>3
<1>8. z = x \o y
  <2>1. Len(z) = Len(x \o y)
    BY <1>1, <1>3, <1>4, <1>5, <1>6
  <2> QED BY <1>6, <1>7, <2>1, SeqEqual
<1> QED BY <1>1, <1>3, <1>4, <1>5, <1>8

LEMMA MapTypes ==
  /\ Wire \in Maps(Packets, Seq(Nat))
  /\ Payload \in Maps(Packets, Seq(Tags))
  /\ Tagged \in Maps(Submission, Seq(Tags))
<1>1. Wire \in Maps(Packets, Seq(Nat))
  BY BytesTyped DEF Wire, Maps
<1>2. Payload \in Maps(Packets, Seq(Tags))
  <2>1. ASSUME NEW p \in Packets, p.type \in {HCI_CMD, HCI_ACL}
        PROVE  To(p.type, Tail(Bytes(p))) \in Seq(Tags)
    <3>1. PICK b \in Seq(Nat) : b = Bytes(p)
      BY BytesTyped
    <3>2. b # <<>>
      <4>1. PICK d \in Seq(Nat) : d = p.data
        <5>1. p.data \in Seq(0..(Base - 1)) /\ 0..(Base - 1) \subseteq Nat
          BY PacketAssumption, InNumbers
        <5>2. p.data \in Seq(Nat)
          BY <5>1, SeqMonotonic
        <5> QED BY <5>2
      <4> QED BY <3>1 DEF Bytes
    <3>3. Tail(b) \in Seq(Nat)
      BY <3>2, HeadTailProperties
    <3> QED BY <2>1, <3>1, <3>3, ToTyped
  <2>2. <<>> \in Seq(Tags)
    BY EmptySeq
  <2> QED BY <2>1, <2>2 DEF Payload, Maps
<1>3. Tagged \in Maps(Submission, Seq(Tags))
  <2>1. ASSUME NEW x \in Submission PROVE To(x.ep, x.data) \in Seq(Tags)
    <3>1. x.ep \in {HCI_CMD, HCI_ACL} /\ x.data \in Seq(Nat)
      BY DEF Submission
    <3> QED BY <3>1, ToTyped
  <2> QED BY <2>1 DEF Tagged, Maps
<1> QED BY <1>1, <1>2, <1>3

LEMMA DataTyped ==
  ASSUME NEW p \in Packets
  PROVE  p.type \in Types /\ p.data \in Seq(Nat)
<1>1. p.data \in Seq(0..(Base - 1)) /\ 0..(Base - 1) \subseteq Nat
  BY PacketAssumption, InNumbers
<1>2. p.data \in Seq(Nat)
  BY <1>1, SeqMonotonic
<1> QED BY <1>2, PacketAssumption

LEMMA Divided ==
  ASSUME NEW n \in Nat
  PROVE  n % Base \in Nat /\ n \div Base \in Nat /\ (n % Base) + Base * (n \div Base) = n
<1>1. PICK b \in Nat \ {0} : b = Base
  BY InNumbers
<1>2. n % b \in Nat /\ n \div b \in Nat /\ (n % b) + b * (n \div b) = n
  OBVIOUS
<1> QED BY <1>1, <1>2

(* A packet begins with its type and the length of its data. *)
LEMMA BytesAre ==
  ASSUME NEW p \in Packets
  PROVE  /\ Len(Bytes(p)) = HeaderLen(p.type) + Len(p.data)
         /\ Bytes(p)[1] = p.type
         /\ p.type = HCI_ACL => /\ Bytes(p)[4] = Len(p.data) % Base
                                /\ Bytes(p)[5] = Len(p.data) \div Base
         /\ p.type # HCI_ACL => Bytes(p)[HeaderLen(p.type)] = Len(p.data)
<1>1. PICK d \in Seq(Nat) : d = p.data
  BY DataTyped
<1>2. PICK n \in Nat : n = Len(d)
  BY LenProperties
<1>3. p.type \in Types
  BY DataTyped
<1>4. PICK t \in Nat : t = p.type
  BY <1>3, TypeBytes
<1>5. PICK ids \in Seq(Nat) : ids = Ids(p.type) /\ Len(ids) = IF p.type = HCI_EVT THEN 1 ELSE 2
  <2>1. <<0>> \in Seq(Nat) /\ Len(<<0>>) = 1 /\ <<0, 1>> \in Seq(Nat) /\ Len(<<0, 1>>) = 2
    OBVIOUS
  <2> QED BY <2>1 DEF Ids
<1>6. PICK l \in Seq(Nat) :
        /\ l = IF p.type = HCI_ACL THEN <<n % Base, n \div Base>> ELSE <<n>>
        /\ Len(l) = IF p.type = HCI_ACL THEN 2 ELSE 1
        /\ p.type = HCI_ACL => l[1] = n % Base /\ l[2] = n \div Base
        /\ p.type # HCI_ACL => l[1] = n
  <2>1. PICK lo \in Nat, hi \in Nat : lo = n % Base /\ hi = n \div Base
    BY Divided
  <2>2. /\ <<lo, hi>> \in Seq(Nat) /\ Len(<<lo, hi>>) = 2
        /\ <<lo, hi>>[1] = lo /\ <<lo, hi>>[2] = hi
        /\ <<n>> \in Seq(Nat) /\ Len(<<n>>) = 1 /\ <<n>>[1] = n
    OBVIOUS
  <2> QED BY <2>1, <2>2
<1>7. PICK a \in Seq(Nat) : a = <<t>> \o ids /\ Len(a) = 1 + Len(ids) /\ a[1] = t
  <2>1. PICK e \in Seq(Nat) : e = <<t>> /\ Len(e) = 1 /\ e[1] = t
    <3>1. <<t>> \in Seq(Nat)
      OBVIOUS
    <3> QED BY <3>1
  <2>2. Len(ids) \in Nat
    BY LenProperties
  <2>3. /\ e \o ids \in Seq(Nat) /\ Len(e \o ids) = Len(e) + Len(ids)
        /\ \A i \in 1..(Len(e) + Len(ids)) :
             (e \o ids)[i] = IF i <= Len(e) THEN e[i] ELSE ids[i - Len(e)]
    BY NatJoined
  <2>4. (e \o ids)[1] = t
    BY <2>1, <2>2, <2>3
  <2> QED BY <2>1, <2>3, <2>4
<1>8. PICK h \in Seq(Nat) :
        /\ h = a \o l /\ Len(h) = Len(a) + Len(l) /\ h[1] = t
        /\ \A i \in 1..Len(l) : h[Len(a) + i] = l[i]
  <2>1. Len(a) \in Nat /\ Len(a) >= 1 /\ Len(l) \in Nat
    BY <1>5, <1>6, <1>7
  <2>2. /\ a \o l \in Seq(Nat) /\ Len(a \o l) = Len(a) + Len(l)
        /\ \A i \in 1..(Len(a) + Len(l)) :
             (a \o l)[i] = IF i <= Len(a) THEN a[i] ELSE l[i - Len(a)]
    BY NatJoined
  <2>3. (a \o l)[1] = t
    BY <1>7, <2>1, <2>2
  <2>4. ASSUME NEW i \in 1..Len(l) PROVE (a \o l)[Len(a) + i] = l[i]
    <3>1. Len(a) + i \in 1..(Len(a) + Len(l)) /\ ~(Len(a) + i <= Len(a)) /\ Len(a) + i - Len(a) = i
      BY <2>1
    <3> QED BY <2>2, <3>1
  <2> QED BY <2>2, <2>3, <2>4
<1>9. Bytes(p) = h \o d
  BY <1>1, <1>2, <1>4, <1>5, <1>6, <1>7, <1>8 DEF Bytes
<1>10. Len(Bytes(p)) = Len(h) + n /\ \A i \in 1..Len(h) : Bytes(p)[i] = h[i]
  <2>1. /\ Len(h \o d) = Len(h) + Len(d)
        /\ \A i \in 1..(Len(h) + Len(d)) : (h \o d)[i] = IF i <= Len(h) THEN h[i] ELSE d[i - Len(h)]
    BY NatJoined
  <2>2. Len(h) \in Nat
    BY LenProperties
  <2> QED BY <1>2, <1>9, <2>1, <2>2
<1>11. Len(a) = (IF p.type = HCI_EVT THEN 2 ELSE 3) /\ Len(h) = HeaderLen(p.type)
  <2>1. Len(a) = IF p.type = HCI_EVT THEN 2 ELSE 3
    BY <1>5, <1>7
  <2> QED BY <1>3, <1>6, <1>8, <2>1 DEF HeaderLen, Types, HCI_EVT, HCI_ACL, HCI_CMD, HCI_SCO
<1>12. Len(Bytes(p)) = HeaderLen(p.type) + Len(p.data) /\ Bytes(p)[1] = p.type
  <2>1. Len(h) \in Nat /\ Len(h) >= 1
    <3>1. HeaderLen(p.type) \in 3..5
      BY <1>3, InNumbers
    <3> QED BY <1>11, <3>1
  <2>2. Bytes(p)[1] = t
    BY <1>8, <1>10, <2>1
  <2> QED BY <1>1, <1>2, <1>4, <1>10, <1>11, <2>2
<1>13. CASE p.type = HCI_ACL
  <2>1. Len(a) = 3 /\ Len(h) = 5
    BY <1>11, <1>13 DEF HeaderLen, HCI_EVT, HCI_ACL, HCI_CMD, HCI_SCO
  <2>2. h[4] = n % Base /\ h[5] = n \div Base
    <3>1. h[3 + 1] = l[1] /\ h[3 + 2] = l[2]
      BY <1>6, <1>8, <1>13, <2>1
    <3> QED BY <1>6, <1>13, <3>1
  <2> QED BY <1>1, <1>2, <1>10, <1>12, <1>13, <2>1, <2>2
<1>14. CASE p.type # HCI_ACL
  <2>1. PICK k \in Nat : k = Len(a) /\ Len(h) = k + 1
    BY <1>6, <1>8, <1>11, <1>14
  <2>2. h[k + 1] = n
    BY <1>6, <1>8, <1>14, <2>1
  <2>3. k + 1 \in 1..Len(h) /\ HeaderLen(p.type) = k + 1
    BY <1>11, <2>1
  <2>4. Bytes(p)[k + 1] = n
    BY <1>10, <2>2, <2>3
  <2> QED BY <1>1, <1>2, <1>12, <1>14, <2>3, <2>4
<1> QED BY <1>13, <1>14

(* What the window tells of the packet that its bytes begin. *)
LEMMA FrontPacket ==
  ASSUME NEW p \in Packets, NEW w \in Seq(Nat), w # <<>>, NEW rest \in Seq(Nat),
         NEW more \in Seq(Nat), w \o rest = Bytes(p) \o more
  PROVE  /\ w[1] = p.type
         /\ HeaderThere(w) <=> Len(w) >= HeaderLen(p.type)
         /\ HeaderThere(w) => PktLength(w) = Len(Bytes(p))
         /\ \A i \in 1..Len(w) : i <= Len(Bytes(p)) => w[i] = Bytes(p)[i]
<1>1. PICK b \in Seq(Nat) : b = Bytes(p)
  BY BytesTyped
<1>2. PICK n \in Nat : n = Len(p.data)
  BY DataTyped, LenProperties
<1>3. PICK h \in 3..5 : h = HeaderLen(p.type) /\ (p.type = HCI_ACL => h = 5)
  BY DataTyped, InNumbers
<1>4. /\ Len(b) = h + n /\ b[1] = p.type
      /\ p.type = HCI_ACL => b[4] = n % Base /\ b[5] = n \div Base
      /\ p.type # HCI_ACL => b[h] = n
  BY <1>1, <1>2, <1>3, BytesAre
<1>5. Len(w) \in Nat \ {0} /\ Len(rest) \in Nat /\ Len(more) \in Nat
  BY EmptySeq, LenProperties
<1>6. ASSUME NEW i \in 1..Len(w), i <= Len(b) PROVE w[i] = b[i]
  <2>1. /\ Len(w \o rest) = Len(w) + Len(rest)
        /\ \A j \in 1..(Len(w) + Len(rest)) :
             (w \o rest)[j] = IF j <= Len(w) THEN w[j] ELSE rest[j - Len(w)]
    BY NatJoined
  <2>2. /\ Len(b \o more) = Len(b) + Len(more)
        /\ \A j \in 1..(Len(b) + Len(more)) :
             (b \o more)[j] = IF j <= Len(b) THEN b[j] ELSE more[j - Len(b)]
    BY NatJoined
  <2>3. (w \o rest)[i] = w[i]
    BY <1>5, <2>1
  <2>4. (b \o more)[i] = b[i]
    BY <1>4, <1>5, <1>6, <2>2
  <2> QED BY <1>1, <2>3, <2>4
<1>7. w[1] = p.type
  <2>1. PICK k \in 3..5 : Len(b) = k + n
    BY <1>3, <1>4
  <2>2. 1 \in 1..Len(w) /\ 1 <= Len(b)
    BY <1>2, <1>5, <2>1
  <2>3. w[1] = b[1]
    BY <1>6, <2>2
  <2> QED BY <1>4, <2>3
<1>8. HeaderThere(w) <=> Len(w) >= h
  BY <1>3, <1>7 DEF HeaderThere
<1>9. ASSUME HeaderThere(w) PROVE PktLength(w) = Len(b)
  <2>1. CASE p.type = HCI_ACL
    <3>1. Len(w) >= 5 /\ h = 5
      BY <1>3, <1>8, <1>9, <2>1
    <3>2. w[4] = n % Base /\ w[5] = n \div Base
      <4>1. Len(b) = 5 + n
        BY <1>4, <3>1
      <4>2. 4 \in 1..Len(w) /\ 4 <= Len(b)
        BY <1>2, <1>5, <3>1, <4>1
      <4>3. 5 \in 1..Len(w) /\ 5 <= Len(b)
        BY <1>2, <1>5, <3>1, <4>1
      <4>4. w[4] = b[4] /\ w[5] = b[5]
        BY <1>6, <4>2, <4>3
      <4> QED BY <1>4, <2>1, <4>4
    <3>3. PktLength(w) = h + ((n % Base) + Base * (n \div Base))
      BY <1>3, <1>7, <2>1, <3>2 DEF PktLength
    <3> QED BY <1>4, <3>3, Divided
  <2>2. CASE p.type # HCI_ACL
    <3>1. w[h] = n
      <4>1. h \in 1..Len(w) /\ h <= Len(b)
        <5>1. Len(b) = h + n /\ h >= 3
          BY <1>3, <1>4
        <5>2. h <= Len(w)
          BY <1>8, <1>9
        <5> QED BY <1>2, <1>5, <5>1, <5>2
      <4>2. w[h] = b[h] /\ b[h] = n
        BY <1>4, <1>6, <2>2, <4>1
      <4> QED BY <4>2
    <3>2. PktLength(w) = h + n
      BY <1>3, <1>7, <2>2, <3>1 DEF PktLength
    <3> QED BY <1>4, <3>2
  <2> QED BY <2>1, <2>2
<1> QED BY <1>1, <1>3, <1>6, <1>7, <1>8, <1>9

-----------------------------------------------------------------------------
(* Where the k-th piece of endpoint size z of L bytes ends. *)
Ends(k, z, L) == IF k * z < L THEN k * z ELSE L

LEMMA PieceEnds ==
  ASSUME NEW L \in Nat, NEW z \in Nat \ {0}
  PROVE  /\ (L + z - 1) \div z \in Nat
         /\ Ends(0, z, L) = 0 /\ Ends((L + z - 1) \div z, z, L) = L
         /\ \A i \in 1..((L + z - 1) \div z) :
              /\ Ends(i - 1, z, L) = (i - 1) * z /\ Ends(i - 1, z, L) \in 0..L
              /\ Ends(i, z, L) \in Ends(i - 1, z, L)..L
<1>1. PICK K \in Nat : K = (L + z - 1) \div z
  OBVIOUS
<1>2. K * z > L - 1 /\ K * z \in Nat
  BY <1>1
<1>3. Ends(K, z, L) = L
  BY <1>2 DEF Ends
<1>4. Ends(0, z, L) = 0
  BY DEF Ends
<1>5. ASSUME NEW i \in 1..K
      PROVE  /\ Ends(i - 1, z, L) = (i - 1) * z /\ Ends(i - 1, z, L) \in 0..L
             /\ Ends(i, z, L) \in Ends(i - 1, z, L)..L
  <2>1. PICK x \in Nat : x = (i - 1) * z
    BY <1>1
  <2>2. x + 1 \in 1..L /\ i * z = x + z
    BY <1>1, <2>1, PieceBounds
  <2> QED BY <2>1, <2>2 DEF Ends
<1> QED BY <1>1, <1>3, <1>4, <1>5

LEMMA SubmitsAre ==
  ASSUME NEW ep \in {HCI_CMD, HCI_ACL}, NEW d \in Seq(Nat)
  PROVE  /\ Len(Submits(ep, d)) = (Len(d) + Size(ep) - 1) \div Size(ep)
         /\ \A i \in 1..Len(Submits(ep, d)) :
              Submits(ep, d)[i] = [ep |-> ep, data |-> SubSeq(d, (i - 1) * Size(ep) + 1,
                                                              Ends(i, Size(ep), Len(d)))]
<1>1. PICK z \in Nat \ {0} : z = Size(ep)
  BY InNumbers
<1>2. PICK L \in Nat : L = Len(d)
  BY LenProperties
<1>3. PICK K \in Nat : K = (L + z - 1) \div z
  BY PieceEnds
<1> DEFINE piece(i) == [ep |-> ep, data |-> SubSeq(d, (i - 1) * z + 1, Ends(i, z, L))]
<1>4. Submits(ep, d) = [i \in 1..K |-> piece(i)]
  BY <1>1, <1>2, <1>3 DEF Submits, Ends
<1> HIDE DEF piece
<1>5. Len([i \in 1..K |-> piece(i)]) = K
  OBVIOUS
<1>6. \A i \in 1..K : Submits(ep, d)[i] = piece(i)
  BY <1>4
<1> QED BY <1>1, <1>2, <1>3, <1>4, <1>5, <1>6 DEF piece

(* What is submitted of a packet is the packet without its type. *)
LEMMA SubmitsJoined ==
  ASSUME NEW ep \in {HCI_CMD, HCI_ACL}, NEW d \in Seq(Nat)
  PROVE  Spread(Tagged, Submits(ep, d)) = To(ep, d)
<1>1. PICK z \in Nat \ {0} : z = Size(ep)
  BY InNumbers
<1>2. PICK L \in Nat : L = Len(d)
  BY LenProperties
<1>3. PICK K \in Nat : K = (L + z - 1) \div z
  BY PieceEnds
<1>4. PICK s \in Seq(Submission) : s = Submits(ep, d)
  BY SubmitsType
<1>5. /\ Len(s) = K
      /\ \A i \in 1..K : s[i] = [ep |-> ep, data |-> SubSeq(d, (i - 1) * z + 1, Ends(i, z, L))]
  BY <1>1, <1>2, <1>3, <1>4, SubmitsAre
<1>6. /\ Ends(0, z, L) = 0 /\ Ends(K, z, L) = L
      /\ \A i \in 1..K : /\ Ends(i - 1, z, L) = (i - 1) * z /\ Ends(i - 1, z, L) \in 0..L
                         /\ Ends(i, z, L) \in Ends(i - 1, z, L)..L
  BY <1>3, PieceEnds
<1> DEFINE So(k) == Spread(Tagged, SubSeq(s, 1, k)) = To(ep, SubSeq(d, 1, Ends(k, z, L)))
           Wrong == {k \in 0..K : ~So(k)}
<1>7. So(0)
  <2>1. SubSeq(s, 1, 0) = <<>> /\ SubSeq(d, 1, 0) = <<>>
    BY SubSeqEmpty
  <2>2. Spread(Tagged, <<>>) = <<>>
    BY SpreadEmpty
  <2>3. To(ep, <<>>) = <<>>
    BY DEF To
  <2> QED BY <1>6, <2>1, <2>2, <2>3
<1>8. ASSUME NEW m \in 1..K, So(m - 1) PROVE So(m)
  <2>1. PICK u \in Seq(Submission) : u = SubSeq(s, 1, m - 1)
    <3>1. PICK n \in Nat : n = m - 1 /\ n <= Len(s)
      BY <1>5
    <3>2. \A i \in 1..n : s[i] \in Submission
      BY <3>1, ElementOfSeq
    <3>3. SubSeq(s, 1, n) \in Seq(Submission)
      BY <3>2, SubSeqProperties
    <3> QED BY <3>1, <3>3
  <2>2. PICK e \in Submission : e = s[m]
    BY <1>5, ElementOfSeq
  <2>3. SubSeq(s, 1, m) = u \o <<e>>
    <3>1. 1 \in 1..Len(s) /\ m \in 1..Len(s)
      BY <1>5
    <3> QED BY <2>1, <2>2, <3>1, SubSeqRecursiveSecond
  <2>4. Spread(Tagged, u \o <<e>>) = Spread(Tagged, u) \o Tagged[e]
    <3>1. PICK v \in Seq(Submission) : v = <<e>>
      <4>1. <<e>> \in Seq(Submission)
        OBVIOUS
      <4> QED BY <4>1
    <3>2. Spread(Tagged, u \o v) = Spread(Tagged, u) \o Spread(Tagged, v)
      BY MapTypes, SpreadJoined
    <3>3. Spread(Tagged, <<e>>) = Tagged[e]
      BY MapTypes, SpreadFew
    <3> QED BY <3>1, <3>2, <3>3
  <2>5. PICK x \in 0..L : x = Ends(m - 1, z, L) /\ x = (m - 1) * z
    BY <1>6
  <2>6. PICK y \in x..L : y = Ends(m, z, L)
    BY <1>6, <2>5
  <2>7. Tagged[e] = To(ep, SubSeq(d, x + 1, y))
    <3>1. e = [ep |-> ep, data |-> SubSeq(d, x + 1, y)]
      BY <1>5, <2>2, <2>5, <2>6
    <3>2. Tagged[e] = To(e.ep, e.data)
      BY DEF Tagged
    <3> QED BY <3>1, <3>2
  <2>8. /\ x \in Nat /\ x <= Len(d) /\ y \in Nat /\ y <= Len(d)
        /\ 1 \in Nat \ {0} /\ x + 1 \in Nat \ {0}
    BY <1>2
  <2>9. PICK a \in Seq(Nat), b \in Seq(Nat) : a = SubSeq(d, 1, x) /\ b = SubSeq(d, x + 1, y)
    BY <2>8, Part
  <2>10. a \o b = SubSeq(d, 1, y)
    <3>1. 1 \in 1..(Len(d) + 1) /\ x \in (1 - 1)..Len(d) /\ y \in x..Len(d)
      BY <1>2
    <3>2. SubSeq(d, 1, x) \o SubSeq(d, x + 1, y) = SubSeq(d, 1, y)
      BY <3>1, ConcatAdjacentSubSeq
    <3> QED BY <2>9, <3>2
  <2>11. Spread(Tagged, u) = To(ep, a)
    BY <1>8, <2>1, <2>5, <2>9
  <2>12. To(ep, a \o b) = To(ep, a) \o To(ep, b)
    BY ToJoined
  <2> QED BY <2>3, <2>4, <2>6, <2>7, <2>9, <2>10, <2>11, <2>12
<1>9. So(K)
  <2>1. SUFFICES ASSUME Wrong # {} PROVE FALSE
    OBVIOUS
  <2>2. PICK m \in Wrong : \A k \in Wrong : m <= k
    <3>1. Wrong \in SUBSET Nat
      OBVIOUS
    <3> HIDE DEF Wrong
    <3> QED BY <2>1, <3>1, Minimum
  <2> HIDE DEF So
  <2>3. m \in 1..K /\ m - 1 \notin Wrong
    BY <1>7, <2>2
  <2>4. So(m - 1) /\ ~So(m)
    BY <2>2, <2>3
  <2> QED BY <1>8, <2>3, <2>4
<1>10. SubSeq(s, 1, K) = s /\ SubSeq(d, 1, L) = d
  BY <1>2, <1>5, SubSeqFull
<1> QED BY <1>4, <1>6, <1>9, <1>10

-----------------------------------------------------------------------------
(* PacketsArrive is not inductive: what has arrived says nothing of what is *)
(* still under way.  The packets given are those that have arrived, a, and  *)
(* those, b, whose bytes lie in the buffer, in the chunk and in the pipe.   *)
Under == (window \o chunk) \o pipe
Split(a, b) ==
  /\ a \in Seq(Packets) /\ b \in Seq(Packets) /\ given = a \o b
  /\ Spread(Tagged, sent) = Spread(Payload, a)
  /\ Under = Spread(Wire, b)
Behind == ~strayed => \E a, b : Split(a, b)

LEMMA PacketsJoined ==
  ASSUME NEW a \in Seq(Packets), NEW b \in Seq(Packets)
  PROVE  /\ a \o b \in Seq(Packets)
         /\ Spread(Wire, a \o b) = Spread(Wire, a) \o Spread(Wire, b)
         /\ Spread(Payload, a \o b) = Spread(Payload, a) \o Spread(Payload, b)
         /\ Spread(Wire, a) \in Seq(Nat) /\ Spread(Payload, a) \in Seq(Tags)
<1>1. a \o b \in Seq(Packets)
  BY ConcatProperties
<1>2. Spread(Wire, a \o b) = Spread(Wire, a) \o Spread(Wire, b)
  BY MapTypes, SpreadJoined
<1>3. Spread(Payload, a \o b) = Spread(Payload, a) \o Spread(Payload, b)
  BY MapTypes, SpreadJoined
<1>4. Spread(Wire, a) \in Seq(Nat)
  BY MapTypes, SpreadTyped
<1>5. Spread(Payload, a) \in Seq(Tags)
  BY MapTypes, SpreadTyped
<1> QED BY <1>1, <1>2, <1>3, <1>4, <1>5

LEMMA OnePacket ==
  ASSUME NEW p \in Packets
  PROVE  /\ <<p>> \in Seq(Packets)
         /\ Spread(Wire, <<p>>) = Bytes(p) /\ Spread(Payload, <<p>>) = Payload[p]
<1>1. Spread(Wire, <<p>>) = Wire[p]
  BY MapTypes, SpreadFew
<1>2. Spread(Payload, <<p>>) = Payload[p]
  BY MapTypes, SpreadFew
<1>3. <<p>> \in Seq(Packets)
  OBVIOUS
<1>4. Wire[p] = Bytes(p)
  BY DEF Wire
<1> QED BY <1>1, <1>2, <1>3, <1>4

LEMMA PacketsGrouped ==
  ASSUME NEW a \in Seq(Packets), NEW b \in Seq(Packets), NEW c \in Seq(Packets)
  PROVE  (a \o b) \o c = a \o (b \o c)
BY ConcatAssociative

LEMMA HostBehind == InInv /\ Behind /\ Host => Behind'
<1> SUFFICES ASSUME InInv, Behind, Host PROVE Behind'
  OBVIOUS
<1>0. strayed' = strayed
  BY DEF Host
<1> SUFFICES ASSUME ~strayed PROVE Behind'
  BY <1>0 DEF Behind
<1>1. PICK a, b : Split(a, b)
  BY DEF Behind
<1>2. PICK p \in Packets : given' = Append(given, p) /\ pipe' = pipe \o Bytes(p)
  BY DEF Host
<1>3. UNCHANGED <<chunk, window, sent>>
  BY DEF Host
<1>4. a \in Seq(Packets) /\ b \in Seq(Packets) /\ given = a \o b
  BY <1>1 DEF Split
<1> DEFINE c == b \o <<p>>
<1>5. c \in Seq(Packets) /\ Spread(Wire, c) = Spread(Wire, b) \o Bytes(p)
  BY <1>4, OnePacket, PacketsJoined
<1>6. given' = a \o c
  <2>1. given \in Seq(Packets)
    BY <1>4, PacketsJoined
  <2>2. Append(given, p) = given \o <<p>>
    BY <2>1, AppendIsConcat
  <2> QED BY <1>2, <1>4, <2>2, OnePacket, PacketsGrouped
<1>7. Under' = Under \o Bytes(p)
  <2>1. window \in Seq(Nat) /\ chunk \in Seq(Nat) /\ pipe \in Seq(Nat)
    BY DEF InInv, TypeOK
  <2>2. window \o chunk \in Seq(Nat)
    BY <2>1, NatJoined
  <2>3. ((window \o chunk) \o pipe) \o Bytes(p) = (window \o chunk) \o (pipe \o Bytes(p))
    BY <2>1, <2>2, BytesTyped, NatGrouped
  <2> QED BY <1>2, <1>3, <2>3 DEF Under
<1> HIDE DEF c
<1>8. Split(a, c)'
  BY <1>1, <1>3, <1>4, <1>5, <1>6, <1>7 DEF Split
<1> QED BY <1>8 DEF Behind

(* A sequence of bytes cut in two. *)
LEMMA Cut ==
  ASSUME NEW s \in Seq(Nat), NEW n \in Nat, n <= Len(s)
  PROVE  /\ SubSeq(s, 1, n) \in Seq(Nat) /\ SubSeq(s, n + 1, Len(s)) \in Seq(Nat)
         /\ SubSeq(s, 1, n) \o SubSeq(s, n + 1, Len(s)) = s
<1>1. PICK L \in Nat : L = Len(s)
  BY LenProperties
<1>2. SubSeq(s, 1, n) \in Seq(Nat)
  BY <1>1, Part
<1>3. SubSeq(s, n + 1, L) \in Seq(Nat)
  <2>1. n + 1 \in Nat \ {0} /\ L <= Len(s)
    BY <1>1
  <2> QED BY <2>1, Part
<1>4. SubSeq(s, 1, n) \o SubSeq(s, n + 1, L) = SubSeq(s, 1, L)
  <2>1. 1 \in 1..(Len(s) + 1) /\ n \in (1 - 1)..Len(s) /\ L \in n..Len(s)
    BY <1>1
  <2> QED BY <2>1, ConcatAdjacentSubSeq
<1>5. SubSeq(s, 1, L) = s
  BY <1>1, SubSeqFull
<1> QED BY <1>1, <1>2, <1>3, <1>4, <1>5

LEMMA ReadBehind == InInv /\ Behind /\ Read => Behind'
<1> SUFFICES ASSUME InInv, Behind, Read PROVE Behind'
  OBVIOUS
<1>1. PICK n \in 1..(IF Len(pipe) < RxSize THEN Len(pipe) ELSE RxSize) :
        chunk' = SubSeq(pipe, 1, n) /\ pipe' = SubSeq(pipe, n + 1, Len(pipe))
  BY DEF Read
<1>2. /\ window \in Seq(Nat) /\ pipe \in Seq(Nat) /\ Len(pipe) \in Nat /\ chunk = <<>>
      /\ UNCHANGED <<given, strayed, window, sent>>
  BY LenProperties DEF InInv, TypeOK, Read
<1>3. n \in Nat /\ n <= Len(pipe)
  BY <1>2, InNumbers
<1>4. chunk' \in Seq(Nat) /\ pipe' \in Seq(Nat) /\ chunk' \o pipe' = pipe
  BY <1>1, <1>2, <1>3, Cut
<1>5. (window \o chunk') \o pipe' = window \o (chunk' \o pipe')
  <2>1. PICK w \in Seq(Nat), u \in Seq(Nat), v \in Seq(Nat) :
          w = window /\ u = chunk' /\ v = pipe'
    BY <1>2, <1>4
  <2>2. (w \o u) \o v = w \o (u \o v)
    BY NatGrouped
  <2> QED BY <2>1, <2>2
<1>6. window \o <<>> = window
  BY <1>2, ConcatEmptySeq
<1>7. Under' = Under
  BY <1>2, <1>4, <1>5, <1>6 DEF Under
<1> QED BY <1>2, <1>7 DEF Behind, Split

LEMMA CopyBehind == InInv /\ Behind /\ Copy => Behind'
<1> SUFFICES ASSUME InInv, Behind, Copy PROVE Behind'
  OBVIOUS
<1> DEFINE room == BufLen - Len(window)
           n == IF room < Len(chunk) THEN room ELSE Len(chunk)
<1>1. /\ window \in Seq(Nat) /\ Len(window) \in Nat
      /\ chunk \in Seq(Nat) /\ Len(chunk) \in Nat
      /\ at = "copy" /\ Beginning(window)
  BY LenProperties DEF InInv, TypeOK, Collecting, Copy
<1>2. room > 4 /\ room \in Nat
  BY <1>1, BeginningFits, InNumbers
<1>3. /\ window' = window \o SubSeq(chunk, 1, n)
      /\ chunk' = SubSeq(chunk, n + 1, Len(chunk))
      /\ UNCHANGED <<given, strayed, pipe, sent>>
  BY <1>2 DEF Copy
<1>4. n \in Nat /\ n <= Len(chunk)
  BY <1>1, <1>2
<1> HIDE DEF n
<1>5. PICK u \in Seq(Nat), v \in Seq(Nat) :
        /\ u = SubSeq(chunk, 1, n) /\ v = SubSeq(chunk, n + 1, Len(chunk)) /\ u \o v = chunk
  <2>1. /\ SubSeq(chunk, 1, n) \in Seq(Nat) /\ SubSeq(chunk, n + 1, Len(chunk)) \in Seq(Nat)
        /\ SubSeq(chunk, 1, n) \o SubSeq(chunk, n + 1, Len(chunk)) = chunk
    BY <1>1, <1>4, Cut
  <2> QED BY <2>1
<1>6. (window \o u) \o v = window \o (u \o v)
  <2>1. PICK w \in Seq(Nat) : w = window
    BY <1>1
  <2>2. (w \o u) \o v = w \o (u \o v)
    BY NatGrouped
  <2> QED BY <2>1, <2>2
<1>7. Under' = Under
  BY <1>3, <1>5, <1>6 DEF Under
<1> QED BY <1>3, <1>7 DEF Behind, Split

LEMMA FirstAndRest ==
  ASSUME NEW b \in Seq(Packets), b # <<>>
  PROVE  \E p \in Packets, c \in Seq(Packets) : b = <<p>> \o c
<1>1. PICK L \in Nat \ {0} : L = Len(b)
  BY EmptySeq
<1>2. Head(b) \in Packets /\ Tail(b) \in Seq(Packets)
  BY HeadTailProperties
<1>3. Head(b) = b[1] /\ Tail(b) = SubSeq(b, 2, L) /\ SubSeq(b, 1, L) = b
  BY <1>1, TailIsSubSeq, SubSeqFull
<1>4. SubSeq(b, 1, L) = <<b[1]>> \o SubSeq(b, 1 + 1, L)
  <2>1. 1 \in 1..Len(b) /\ L \in 1..Len(b)
    BY <1>1
  <2> QED BY <2>1, SubSeqRecursiveFirst
<1>5. b = <<Head(b)>> \o Tail(b)
  BY <1>3, <1>4
<1> QED BY <1>2, <1>5

(* Parts of sequences of bytes that agree up to there. *)
LEMMA SameParts ==
  ASSUME NEW s \in Seq(Nat), NEW t \in Seq(Nat), NEW n \in Nat, n <= Len(s), n <= Len(t),
         \A i \in 1..n : s[i] = t[i]
  PROVE  SubSeq(s, 2, n) = SubSeq(t, 2, n)
<1>1. Len(s) \in Nat /\ Len(t) \in Nat
  BY LenProperties
<1>2. \A i \in 2..n : s[i] = t[i] /\ s[i] \in Nat /\ t[i] \in Nat
  BY <1>1, ElementOfSeq
<1>3. /\ SubSeq(s, 2, n) \in Seq(Nat) /\ Len(SubSeq(s, 2, n)) = IF 2 <= n THEN n - 2 + 1 ELSE 0
      /\ \A i \in 1..(n - 2 + 1) : SubSeq(s, 2, n)[i] = s[2 + i - 1]
  BY <1>2, SubSeqProperties
<1>4. /\ SubSeq(t, 2, n) \in Seq(Nat) /\ Len(SubSeq(t, 2, n)) = IF 2 <= n THEN n - 2 + 1 ELSE 0
      /\ \A i \in 1..(n - 2 + 1) : SubSeq(t, 2, n)[i] = t[2 + i - 1]
  BY <1>2, SubSeqProperties
<1>5. PICK u \in Seq(Nat) : u = SubSeq(s, 2, n)
  BY <1>3
<1>6. PICK v \in Seq(Nat) : v = SubSeq(t, 2, n)
  BY <1>4
<1>7. \A i \in 1..Len(u) : u[i] = v[i]
  BY <1>2, <1>3, <1>4, <1>5, <1>6
<1>8. u = v
  BY <1>3, <1>4, <1>5, <1>6, <1>7, SeqEqual
<1> QED BY <1>5, <1>6, <1>8

(* The packet at the front of those whose bytes are under way. *)
LEMMA PacketInFront ==
  ASSUME NEW b \in Seq(Packets), NEW w \in Seq(Nat), w # <<>>, NEW r \in Seq(Nat),
         w \o r = Spread(Wire, b)
  PROVE  \E p \in Packets, c \in Seq(Packets) :
           b = <<p>> \o c /\ w \o r = Bytes(p) \o Spread(Wire, c)
<1>1. b # <<>>
  <2>1. SUFFICES ASSUME b = <<>> PROVE FALSE
    OBVIOUS
  <2>2. w \o r = <<>>
    BY <2>1, SpreadEmpty
  <2>3. w = <<>>
    BY <2>2, ConcatEqualIffEmpty
  <2> QED BY <2>3
<1>2. PICK p \in Packets, c \in Seq(Packets) : b = <<p>> \o c
  BY <1>1, FirstAndRest
<1>3. Spread(Wire, b) = Bytes(p) \o Spread(Wire, c)
  <2>1. PICK e \in Seq(Packets) : e = <<p>> /\ Spread(Wire, e) = Bytes(p)
    BY OnePacket
  <2>2. Spread(Wire, e \o c) = Spread(Wire, e) \o Spread(Wire, c)
    BY PacketsJoined
  <2> QED BY <1>2, <2>1, <2>2
<1> QED BY <1>2, <1>3

LEMMA NatCancel ==
  ASSUME NEW u \in Seq(Nat), NEW v \in Seq(Nat), NEW e \in Seq(Nat), u \o v = u \o e
  PROVE  v = e
<1>1. PICK k \in Nat, l \in Nat, m \in Nat : k = Len(u) /\ l = Len(v) /\ m = Len(e)
  BY LenProperties
<1>2. Len(u \o v) = k + l /\ Len(u \o e) = k + m
  BY <1>1, NatJoined
<1>3. l = m
  BY <1>2
<1>4. ASSUME NEW i \in 1..l PROVE v[i] = e[i]
  <2>1. k + i \in 1..(k + l) /\ ~(k + i <= k) /\ k + i - k = i
    OBVIOUS
  <2>2. (u \o v)[k + i] = v[i]
    BY <1>1, <2>1, NatJoined
  <2>3. (u \o e)[k + i] = e[i]
    BY <1>1, <1>3, <2>1, NatJoined
  <2> QED BY <2>2, <2>3
<1> QED BY <1>1, <1>3, <1>4, SeqEqual

LEMMA PacketLength ==
  ASSUME NEW p \in Packets
  PROVE  /\ Len(Bytes(p)) \in Nat /\ Len(Bytes(p)) >= 3 /\ Len(Bytes(p)) <= BufLen - 4
         /\ Len(Bytes(p)) >= HeaderLen(p.type) /\ Bytes(p) # <<>>
<1>1. PICK n \in Nat : n = Len(p.data)
  BY DataTyped, LenProperties
<1>2. PICK h \in 3..5 : h = HeaderLen(p.type)
  BY DataTyped, InNumbers
<1>3. Len(Bytes(p)) = h + n
  BY <1>1, <1>2, BytesAre
<1>4. Bytes(p) # <<>>
  BY <1>3, EmptySeq
<1> QED BY <1>2, <1>3, <1>4, PacketAssumption

(* A sequence that begins with all of another one. *)
LEMMA WholePart ==
  ASSUME NEW w \in Seq(Nat), NEW r \in Seq(Nat), NEW q \in Seq(Nat), NEW more \in Seq(Nat),
         w \o r = q \o more, Len(q) <= Len(w)
  PROVE  /\ \A i \in 1..Len(q) : w[i] = q[i]
         /\ SubSeq(w, Len(q) + 1, Len(w)) \o r = more
<1>1. PICK L \in Nat, n \in Nat : L = Len(w) /\ n = Len(q) /\ n <= L
  BY LenProperties
<1>2. \A i \in 1..n : w[i] = q[i]
  <2>1. Len(r) \in Nat /\ Len(more) \in Nat
    BY LenProperties
  <2>2. ASSUME NEW i \in 1..n PROVE w[i] = q[i]
    <3>1. (w \o r)[i] = w[i]
      <4>1. i \in 1..(Len(w) + Len(r)) /\ i <= Len(w)
        BY <1>1, <2>1
      <4> QED BY <4>1, NatJoined
    <3>2. (q \o more)[i] = q[i]
      <4>1. i \in 1..(Len(q) + Len(more)) /\ i <= Len(q)
        BY <1>1, <2>1
      <4> QED BY <4>1, NatJoined
    <3> QED BY <3>1, <3>2
  <2> QED BY <2>2
<1>3. PICK u \in Seq(Nat), v \in Seq(Nat) :
        u = SubSeq(w, 1, n) /\ v = SubSeq(w, n + 1, L) /\ u \o v = w
  <2>1. /\ SubSeq(w, 1, n) \in Seq(Nat) /\ SubSeq(w, n + 1, Len(w)) \in Seq(Nat)
        /\ SubSeq(w, 1, n) \o SubSeq(w, n + 1, Len(w)) = w
    BY <1>1, Cut
  <2> QED BY <1>1, <2>1
<1>4. u = q
  <2>1. Len(u) = n
    BY <1>1, <1>3, Part
  <2>2. Len(u) \in Nat /\ Len(v) \in Nat
    BY LenProperties
  <2>3. \A j \in 1..(Len(u) + Len(v)) : (u \o v)[j] = IF j <= Len(u) THEN u[j] ELSE v[j - Len(u)]
    BY NatJoined
  <2>4. \A i \in 1..n : u[i] = w[i]
    BY <1>3, <2>1, <2>2, <2>3
  <2> QED BY <1>1, <1>2, <2>1, <2>4, SeqEqual
<1>5. v \o r = more
  <2>1. PICK x \in Seq(Nat) : x = v \o r
    BY NatJoined
  <2>2. u \o x = (u \o v) \o r
    <3>1. (u \o v) \o r = u \o (v \o r)
      BY ONLY NatGrouped
    <3> QED BY <2>1, <3>1
  <2>3. u \o x = u \o more
    BY <1>3, <1>4, <2>2
  <2> QED BY <2>1, <2>3, NatCancel
<1> QED BY <1>1, <1>2, <1>3, <1>5

(* The payload of a packet that is taken arrives. *)
LEMMA PayloadArrives ==
  ASSUME NEW p \in Packets, NEW t \in Seq(Submission), NEW d, d = Tail(Bytes(p)), NEW t1,
         t1 = IF p.type \in {HCI_CMD, HCI_ACL} THEN t \o Submits(p.type, d) ELSE t
  PROVE  Spread(Tagged, t1) = Spread(Tagged, t) \o Payload[p]
<1>1. CASE p.type \in {HCI_CMD, HCI_ACL}
  <2>1. d \in Seq(Nat)
    BY BytesTyped, PacketLength, HeadTailProperties
  <2>2. PICK s \in Seq(Submission) : s = Submits(p.type, d)
    BY <1>1, <2>1, SubmitsType
  <2>3. Spread(Tagged, t \o s) = Spread(Tagged, t) \o Spread(Tagged, s)
    BY MapTypes, SpreadJoined
  <2>4. Spread(Tagged, s) = To(p.type, d)
    BY <1>1, <2>1, <2>2, SubmitsJoined
  <2>5. Payload[p] = To(p.type, d)
    BY <1>1 DEF Payload
  <2> QED BY <1>1, <2>2, <2>3, <2>4, <2>5
<1>2. CASE p.type \notin {HCI_CMD, HCI_ACL}
  <2>1. Payload[p] = <<>> /\ t1 = t
    BY <1>2 DEF Payload
  <2>2. PICK x \in Seq(Tags) : x = Spread(Tagged, t)
    BY MapTypes, SpreadTyped
  <2>3. x \o <<>> = x
    BY ConcatEmptySeq
  <2> QED BY <2>1, <2>2, <2>3
<1> QED BY <1>1, <1>2

LEMMA CheckBehind == InInv /\ Behind /\ Check => Behind'
<1> SUFFICES ASSUME InInv, Behind, Check, ~strayed PROVE Behind'
  BY DEF Behind, Check
<1>1. PICK a, b : Split(a, b)
  BY DEF Behind
<1>2. PICK w \in Seq(Nat) : w = window
  BY DEF InInv, TypeOK
<1>3. /\ chunk \in Seq(Nat) /\ pipe \in Seq(Nat)
      /\ w # <<>> /\ Len(w) \in Nat /\ sent \in Seq(Submission)
      /\ UNCHANGED <<given, strayed, pipe, chunk>>
  BY <1>2, TypeParts, LenProperties DEF InInv, Collecting, Check
<1>4. PICK r \in Seq(Nat) : r = chunk \o pipe
  BY <1>3, NatJoined
<1>5. PICK p \in Packets, c \in Seq(Packets) :
        b = <<p>> \o c /\ w \o r = Bytes(p) \o Spread(Wire, c)
  <2>1. (w \o chunk) \o pipe = w \o r
    BY <1>3, <1>4, NatGrouped
  <2>2. b \in Seq(Packets) /\ w \o r = Spread(Wire, b)
    BY <1>1, <1>2, <2>1 DEF Split, Under
  <2> QED BY <1>3, <2>2, PacketInFront
<1>6. PICK more \in Seq(Nat) : more = Spread(Wire, c)
  BY PacketsJoined
<1>7. PICK n \in Nat : n = Len(Bytes(p)) /\ n >= 3 /\ n <= BufLen - 4
  BY PacketLength
<1>8. w \o r = Bytes(p) \o more
  BY <1>5, <1>6
<1>9. /\ w[1] = p.type /\ p.type \in Types
      /\ HeaderThere(w) => PktLength(w) = n
  BY <1>3, <1>7, <1>8, FrontPacket, DataTyped
<1>10. \/ Wait
       \/ HeaderThere(w) /\ n <= Len(w) /\ TakePacket(w)
  <2>1. CASE ~HeaderThere(w)
    BY <1>2, <1>3, <1>9, <2>1 DEF Check
  <2>2. CASE HeaderThere(w)
    <3>1. PktLength(w) = n /\ n <= BufLen - 4 /\ ~(n > BufLen - 4)
      BY <1>7, <1>9, <2>2, InNumbers
    <3>2. w[1] \in Types
      BY <1>9
    <3>3. IF Len(w) < n THEN Wait ELSE TakePacket(w)
      BY <1>2, <2>2, <3>1, <3>2 DEF Check
    <3> QED BY <1>3, <1>7, <2>2, <3>3
  <2> QED BY <2>1, <2>2
<1>11. CASE Wait
  BY <1>3, <1>11 DEF Wait, Behind, Split, Under
<1>12. CASE HeaderThere(w) /\ n <= Len(w) /\ TakePacket(w)
  <2>1. PICK v \in Seq(Nat) : v = SubSeq(w, n + 1, Len(w))
    BY <1>3, <1>12, Cut
  <2>2. SubSeq(w, 2, n) = Tail(Bytes(p)) /\ v \o r = more
    <3>1. PICK q \in Seq(Nat) : q = Bytes(p) /\ Len(q) = n /\ q # <<>>
      BY <1>7, BytesTyped, PacketLength
    <3>2. w \o r = q \o more /\ Len(q) <= Len(w)
      BY <1>8, <1>12, <3>1
    <3>3. (\A i \in 1..Len(q) : w[i] = q[i]) /\ SubSeq(w, Len(q) + 1, Len(w)) \o r = more
      BY <3>2, WholePart
    <3>4. SubSeq(w, 2, n) = SubSeq(q, 2, n)
      <4>1. n <= Len(w) /\ n <= Len(q) /\ \A i \in 1..n : w[i] = q[i]
        BY <1>3, <1>7, <1>12, <3>1, <3>3
      <4> QED BY <4>1, SameParts
    <3>5. SubSeq(q, 2, Len(q)) = Tail(q)
      BY <3>1, TailIsSubSeq
    <3> QED BY <2>1, <3>1, <3>3, <3>4, <3>5
  <2>3. /\ window' = v
        /\ sent' = IF p.type \in {HCI_CMD, HCI_ACL}
                   THEN sent \o Submits(p.type, Tail(Bytes(p))) ELSE sent
    BY <1>9, <1>12, <2>1, <2>2 DEF TakePacket
  <2>4. Under' = Spread(Wire, c)
    <3>1. (v \o chunk) \o pipe = v \o (chunk \o pipe)
      BY <1>3, NatGrouped
    <3> QED BY <1>3, <1>4, <1>6, <2>2, <2>3, <3>1 DEF Under
  <2>5. Spread(Tagged, sent') = Spread(Tagged, sent) \o Payload[p]
    <3>0. PICK t \in Seq(Submission) : t = sent
      BY <1>3
    <3>1. PICK t1 : t1 = sent'
      OBVIOUS
    <3>2. t1 = IF p.type \in {HCI_CMD, HCI_ACL} THEN t \o Submits(p.type, Tail(Bytes(p))) ELSE t
      BY <2>3, <3>0, <3>1
    <3>3. PICK d : d = Tail(Bytes(p))
      OBVIOUS
    <3>4. t1 = IF p.type \in {HCI_CMD, HCI_ACL} THEN t \o Submits(p.type, d) ELSE t
      BY <3>2, <3>3
    <3>5. Spread(Tagged, t1) = Spread(Tagged, t) \o Payload[p]
      BY ONLY <3>3, <3>4, PayloadArrives
    <3> QED BY <3>0, <3>1, <3>5
  <2>6. a \in Seq(Packets) /\ given = a \o b /\ Spread(Tagged, sent) = Spread(Payload, a)
    BY <1>1 DEF Split
  <2>7. PICK e \in Seq(Packets) : e = <<p>>
    BY OnePacket
  <2>8. a \o e \in Seq(Packets) /\ (a \o e) \o c = a \o (e \o c)
    BY <2>6, PacketsJoined, PacketsGrouped
  <2>9. Spread(Payload, a \o e) = Spread(Payload, a) \o Payload[p]
    <3>1. Spread(Payload, a \o e) = Spread(Payload, a) \o Spread(Payload, e)
      BY <2>6, PacketsJoined
    <3> QED BY <2>7, <3>1, OnePacket
  <2>10. given' = (a \o e) \o c
    BY <1>3, <1>5, <2>6, <2>7, <2>8
  <2>11. Split(a \o e, c)'
    BY <2>4, <2>5, <2>6, <2>8, <2>9, <2>10 DEF Split
  <2> QED BY <2>11 DEF Behind
<1> QED BY <1>10, <1>11, <1>12

LEMMA BehindStep == InInv /\ Behind /\ [BridgeNext]_bridgeVars => Behind'
<1> SUFFICES ASSUME InInv, Behind, [BridgeNext]_bridgeVars PROVE Behind'
  OBVIOUS
<1>1. CASE Stray
  BY <1>1 DEF Stray, Behind
<1>2. CASE CallReturns
  BY <1>2 DEF CallReturns, Behind, Split, Under
<1>3. CASE hci_usb_device_init
  <2>1. /\ given' = <<>> /\ pipe' = <<>> /\ sent' = <<>> /\ window' = <<>> /\ chunk' = <<>>
    BY <1>3 DEF hci_usb_device_init, Replug, InInv, TypeOK
  <2>2. Split(<<>>, <<>>)'
    <3>1. <<>> \in Seq(Packets) /\ <<>> \o <<>> = <<>>
      BY EmptySeq, ConcatEmptySeq
    <3>2. Under' = <<>>
      BY <2>1, <3>1 DEF Under
    <3> QED BY <2>1, <3>1, <3>2, SpreadEmpty DEF Split
  <2> QED BY <2>2 DEF Behind
<1>4. CASE FromAdapter \/ UNCHANGED bridgeVars
  <2>1. UNCHANGED vars
    BY <1>4 DEF FromAdapter, bridgeVars
  <2> QED BY <2>1 DEF vars, Behind, Split, Under
<1> QED BY <1>1, <1>2, <1>3, <1>4, HostBehind, ReadBehind, CopyBehind, CheckBehind
        DEF BridgeNext, FromHost

LEMMA BehindInit == BridgeInit => Behind
<1> SUFFICES ASSUME BridgeInit PROVE Behind
  OBVIOUS
<1>1. given = <<>> /\ pipe = <<>> /\ sent = <<>> /\ window = <<>> /\ chunk = <<>>
  BY DEF BridgeInit, Init
<1>2. Split(<<>>, <<>>)
  <2>1. <<>> \in Seq(Packets) /\ <<>> \o <<>> = <<>>
    BY EmptySeq, ConcatEmptySeq
  <2> QED BY <1>1, <2>1, SpreadEmpty DEF Split, Under
<1> QED BY <1>2 DEF Behind

(* A packet that is complete is not left in the buffer when a call returns. *)
LEMMA NothingLeft ==
  ASSUME InInv, at = "idle", pipe = <<>>, NEW a, NEW b, Split(a, b)
  PROVE  b = <<>>
<1>1. PICK w \in Seq(Nat) : w = window
  BY DEF InInv, TypeOK
<1>2. chunk = <<>> /\ Beginning(w)
  BY <1>1 DEF InInv, TypeOK, Collecting
<1>3. chunk \o pipe = <<>> /\ w \o <<>> = w
  BY <1>2, ConcatEmptySeq
<1>4. b \in Seq(Packets) /\ Spread(Wire, b) = w
  <2>1. Under = w
    BY <1>1, <1>2, <1>3 DEF Under
  <2> QED BY <2>1 DEF Split
<1>5. CASE w = <<>>
  <2>1. SUFFICES ASSUME b # <<>> PROVE FALSE
    OBVIOUS
  <2>2. PICK p \in Packets, c \in Seq(Packets) : b = <<p>> \o c
    BY <1>4, <2>1, FirstAndRest
  <2>3. Spread(Wire, b) = Bytes(p) \o Spread(Wire, c)
    <3>1. PICK e \in Seq(Packets) : e = <<p>> /\ Spread(Wire, e) = Bytes(p)
      BY OnePacket
    <3>2. Spread(Wire, e \o c) = Spread(Wire, e) \o Spread(Wire, c)
      BY PacketsJoined
    <3> QED BY <2>2, <3>1, <3>2
  <2>4. PICK q \in Seq(Nat), more \in Seq(Nat) : q = Bytes(p) /\ more = Spread(Wire, c)
    BY BytesTyped, PacketsJoined
  <2>5. q \o more = <<>>
    BY <1>4, <1>5, <2>3, <2>4
  <2>6. q = <<>>
    BY <2>5, ConcatEqualIffEmpty
  <2> QED BY <2>4, <2>6, PacketLength
<1>6. CASE w # <<>>
  <2>1. PICK r \in Seq(Nat) : r = <<>>
    BY EmptySeq
  <2>2. PICK p \in Packets, c \in Seq(Packets) :
          b = <<p>> \o c /\ w \o r = Bytes(p) \o Spread(Wire, c)
    <3>1. w \o r = Spread(Wire, b)
      BY <1>3, <1>4, <2>1
    <3> QED BY <1>4, <1>6, <3>1, PacketInFront
  <2>3. PICK more \in Seq(Nat) : more = Spread(Wire, c)
    BY PacketsJoined
  <2>4. w \o r = Bytes(p) \o more /\ w \o r = w
    BY <1>3, <2>1, <2>2, <2>3
  <2>5. PICK n \in Nat : n = Len(Bytes(p)) /\ n >= HeaderLen(p.type)
    BY PacketLength
  <2>6. Len(w) >= n
    <3>1. Len(Bytes(p) \o more) = n + Len(more) /\ Len(more) \in Nat
      BY <2>5, BytesTyped, NatJoined, LenProperties
    <3> QED BY <2>4, <3>1
  <2>7. /\ HeaderThere(w) <=> Len(w) >= HeaderLen(p.type)
        /\ HeaderThere(w) => PktLength(w) = n
    BY <1>6, <2>4, <2>5, FrontPacket
  <2>8. HeaderThere(w) /\ PktLength(w) = n
    <3>1. HeaderLen(p.type) \in 3..5 /\ Len(w) \in Nat
      BY DataTyped, InNumbers, LenProperties
    <3> QED BY <2>5, <2>6, <2>7, <3>1
  <2>9. Len(w) < n
    BY <1>2, <1>6, <2>8 DEF Beginning
  <2> QED BY <2>6, <2>9, LenProperties
<1> QED BY <1>5, <1>6

LEMMA TagsCut ==
  ASSUME NEW u \in Seq(Tags), NEW v \in Seq(Tags)
  PROVE  IsPrefix(u, u \o v)
<1>1. PICK m \in Nat, n \in Nat : m = Len(u) /\ n = Len(v)
  BY LenProperties
<1>2. PICK c \in Seq(Tags) : c = u \o v /\ Len(c) = m + n /\ \A i \in 1..m : c[i] = u[i]
  <2>1. /\ u \o v \in Seq(Tags) /\ Len(u \o v) = Len(u) + Len(v)
        /\ \A i \in 1..(Len(u) + Len(v)) :
             (u \o v)[i] = IF i <= Len(u) THEN u[i] ELSE v[i - Len(u)]
    BY TagsJoined
  <2>2. \A i \in 1..m : (u \o v)[i] = u[i]
    BY <1>1, <2>1
  <2> QED BY <1>1, <2>1, <2>2
<1>3. \A i \in 1..m : c[i] \in Tags /\ u[i] \in Tags
  BY <1>1, <1>2, ElementOfSeq
<1>4. PICK x \in Seq(Tags) : x = SubSeq(c, 1, m) /\ Len(x) = m /\ \A i \in 1..m : x[i] = c[i]
  <2>1. /\ SubSeq(c, 1, m) \in Seq(Tags) /\ Len(SubSeq(c, 1, m)) = IF 1 <= m THEN m - 1 + 1 ELSE 0
        /\ \A i \in 1..(m - 1 + 1) : SubSeq(c, 1, m)[i] = c[1 + i - 1]
    BY <1>3, SubSeqProperties
  <2>2. m - 1 + 1 = m /\ \A i \in 1..m : 1 + i - 1 = i
    OBVIOUS
  <2>3. Len(SubSeq(c, 1, m)) = m /\ \A i \in 1..m : SubSeq(c, 1, m)[i] = c[i]
    BY <2>1, <2>2
  <2> QED BY <2>1, <2>3
<1>5. x = u
  BY <1>1, <1>2, <1>4, SeqEqual
<1>6. SubSeq(u, 1, m) = u
  BY <1>1, SubSeqFull
<1> QED BY <1>1, <1>2, <1>4, <1>5, <1>6 DEF IsPrefix

(* hci_usb_device_input() of hci_usb.c finds the host's packets in whatever *)
(* chunks their bytes are read: what it submits to the adapter are those    *)
(* packets, in order and unchanged, and nothing of them is missing when     *)
(* everything has been read; what an adapter that was unplugged has not     *)
(* been given is not mixed in.                                              *)
THEOREM PacketsDelivered == BridgeSpec => []PacketsArrive
<1>1. InInv /\ Behind => PacketsArrive
  <2> SUFFICES ASSUME InInv, Behind, ~strayed
               PROVE  /\ IsPrefix(Arrived, Expected)
                      /\ (at = "idle" /\ pipe = <<>>) => Arrived = Expected
    BY DEF PacketsArrive
  <2>1. PICK a, b : Split(a, b)
    BY DEF Behind
  <2>2. /\ a \in Seq(Packets) /\ b \in Seq(Packets) /\ given = a \o b /\ given \in Seq(Packets)
        /\ Spread(Tagged, sent) = Spread(Payload, a)
    BY <2>1, PacketsJoined DEF Split
  <2>3. Arrived = Spread(Tagged, sent)
    <3>1. sent \in Seq(Submission)
      BY TypeParts DEF InInv
    <3>2. \A i \in DOMAIN sent : Tagged[sent[i]] = To(sent[i].ep, sent[i].data)
      BY <3>1, ElementOfSeq, LenProperties DEF Tagged
    <3> QED BY <3>2 DEF Arrived, Spread, Image
  <2>4. Expected = Spread(Payload, given)
    <3>1. \A i \in DOMAIN given : Payload[given[i]] =
            IF given[i].type \in {HCI_CMD, HCI_ACL} THEN To(given[i].type, Tail(Bytes(given[i])))
            ELSE <<>>
      BY <2>2, ElementOfSeq, LenProperties DEF Payload
    <3> QED BY <3>1 DEF Expected, Spread, Image
  <2>5. Expected = Arrived \o Spread(Payload, b) /\ Arrived \in Seq(Tags)
    <3>1. Spread(Payload, a \o b) = Spread(Payload, a) \o Spread(Payload, b)
      BY <2>2, PacketsJoined
    <3>2. Spread(Payload, a) \in Seq(Tags)
      BY <2>2, PacketsJoined
    <3> QED BY <2>2, <2>3, <2>4, <3>1, <3>2
  <2>6. IsPrefix(Arrived, Expected)
    BY <2>2, <2>5, PacketsJoined, TagsCut
  <2>7. ASSUME at = "idle", pipe = <<>> PROVE Arrived = Expected
    <3>1. b = <<>>
      BY <2>1, <2>7, NothingLeft
    <3> QED BY <2>5, <3>1, SpreadEmpty, ConcatEmptySeq
  <2> QED BY <2>6, <2>7
<1>2. BridgeInit => InInv /\ Behind
  BY InInit, BehindInit
<1>3. InInv /\ Behind /\ [BridgeNext]_bridgeVars => (InInv /\ Behind)'
  BY InStep, BehindStep
<1> QED BY <1>1, <1>2, <1>3, PTL DEF BridgeSpec
=============================================================================
