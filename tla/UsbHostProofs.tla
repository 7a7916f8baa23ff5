---------------------------- MODULE UsbHostProofs ----------------------------
(***************************************************************************)
(* What UsbHost guarantees for every set of devices, every choice of calls *)
(* that may fail and however often devices come and go: references and     *)
(* handles balance, nothing is freed in flight, a driver that is online    *)
(* listens, and none is left with a device that is gone.                   *)
(***************************************************************************)
EXTENDS UsbHost, SequenceTheorems, FiniteSetTheorems, TLAPS

-----------------------------------------------------------------------------
(* Counting: entries of a list, and drivers. *)

LEMMA EntriesType ==
  ASSUME NEW T, NEW s \in Seq(T), NEW d
  PROVE  Entries(s, d) \in Nat /\ IsFiniteSet({i \in DOMAIN s : s[i][1] = d})
<1>1. DOMAIN s = 1..Len(s) /\ Len(s) \in Nat
  BY LenProperties
<1>2. IsFiniteSet(1..Len(s))
  BY <1>1, FS_Interval
<1>3. IsFiniteSet({i \in DOMAIN s : s[i][1] = d})
  BY <1>1, <1>2, FS_Subset
<1> QED BY <1>3, FS_CardinalityType DEF Entries

LEMMA EntriesEmpty == \A d : Entries(<<>>, d) = 0
<1> SUFFICES ASSUME NEW d PROVE Entries(<<>>, d) = 0
  OBVIOUS
<1>1. {i \in DOMAIN <<>> : <<>>[i][1] = d} = {}
  OBVIOUS
<1> QED BY <1>1, FS_EmptySet DEF Entries

LEMMA EntriesConcat ==
  ASSUME NEW T, NEW s \in Seq(T), NEW t \in Seq(T), NEW d
  PROVE  Entries(s \o t, d) = Entries(s, d) + Entries(t, d)
<1> DEFINE n == Len(s)
           A == {i \in DOMAIN s : s[i][1] = d}
           B == {i \in DOMAIN t : t[i][1] = d}
           C == {i \in DOMAIN (s \o t) : (s \o t)[i][1] = d}
           D == {i \in C : i > n}
<1>1. /\ n \in Nat /\ Len(t) \in Nat /\ DOMAIN s = 1..n /\ DOMAIN t = 1..Len(t)
      /\ s \o t \in Seq(T) /\ Len(s \o t) = n + Len(t)
      /\ DOMAIN (s \o t) = 1..(n + Len(t))
      /\ \A i \in 1..(n + Len(t)) : (s \o t)[i] = IF i <= n THEN s[i] ELSE t[i - n]
  BY LenProperties, ConcatProperties
<1>2. IsFiniteSet(A) /\ IsFiniteSet(B) /\ IsFiniteSet(C)
  BY <1>1, EntriesType
<1>3. C = A \cup D /\ A \cap D = {}
  BY <1>1
<1>4. IsFiniteSet(D)
  BY <1>2, FS_Subset
<1>5. Cardinality(D) = Cardinality(B)
  <2> DEFINE f == [i \in B |-> i + n]
  <2>1. f \in [B -> D]
    <3>1. ASSUME NEW i \in B PROVE i + n \in D
      <4>1. i \in 1..Len(t) /\ t[i][1] = d
        BY <1>1
      <4>2. i + n \in 1..(n + Len(t)) /\ i + n > n /\ (i + n) - n = i
        BY <1>1, <4>1
      <4>3. (s \o t)[i + n] = t[i]
        BY <1>1, <4>2
      <4> QED BY <1>1, <4>1, <4>2, <4>3
    <3> QED BY <3>1
  <2>2. \A i, j \in B : f[i] = f[j] => i = j
    BY <1>1
  <2>3. \A k \in D : k - n \in B /\ f[k - n] = k
    BY <1>1
  <2>4. f \in Bijection(B, D)
    BY <2>1, <2>2, <2>3 DEF Bijection, Injection, Surjection, IsInjective
  <2> QED BY <1>2, <2>4, FS_Bijection DEF ExistsBijection
<1>6. Cardinality(C) = Cardinality(A) + Cardinality(D)
  <2> HIDE DEF A, C, D
  <2>1. Cardinality(C) = Cardinality(A) + Cardinality(D) - Cardinality({})
    BY <1>2, <1>3, <1>4, FS_Union
  <2> QED BY <1>2, <1>4, <2>1, FS_EmptySet, FS_CardinalityType
<1> QED BY <1>5, <1>6 DEF Entries

LEMMA EntriesOne == \A e, d : Entries(<<e>>, d) = IF e[1] = d THEN 1 ELSE 0
<1> SUFFICES ASSUME NEW e, NEW d PROVE Entries(<<e>>, d) = IF e[1] = d THEN 1 ELSE 0
  OBVIOUS
<1>1. {i \in DOMAIN <<e>> : <<e>>[i][1] = d} = IF e[1] = d THEN {1} ELSE {}
  OBVIOUS
<1> QED BY <1>1, FS_EmptySet, FS_Singleton DEF Entries

LEMMA EntriesTail ==
  ASSUME NEW T, NEW s \in Seq(T), s # <<>>, NEW d
  PROVE  Entries(s, d) = Entries(Tail(s), d) + (IF Head(s)[1] = d THEN 1 ELSE 0)
<1>1. Head(s) \in T /\ Tail(s) \in Seq(T) /\ s = <<Head(s)>> \o Tail(s)
  <2>1. /\ Head(s) \in T /\ Tail(s) \in Seq(T) /\ Len(s) \in Nat \ {0} /\ s[1] = Head(s)
        /\ Len(Tail(s)) = Len(s) - 1 /\ \A i \in 1..Len(Tail(s)) : Tail(s)[i] = s[i + 1]
    BY HeadTailProperties, EmptySeq
  <2>2. <<Head(s)>> \in Seq(T) /\ Len(<<Head(s)>>) = 1 /\ <<Head(s)>>[1] = Head(s)
    BY <2>1
  <2>3. /\ <<Head(s)>> \o Tail(s) \in Seq(T) /\ Len(<<Head(s)>> \o Tail(s)) = Len(s)
        /\ \A i \in 1..Len(s) : (<<Head(s)>> \o Tail(s))[i] =
              IF i <= 1 THEN <<Head(s)>>[i] ELSE Tail(s)[i - 1]
    BY <2>1, <2>2, ConcatProperties
  <2>4. \A i \in 1..Len(s) : (<<Head(s)>> \o Tail(s))[i] = s[i]
    BY <2>1, <2>2, <2>3
  <2> QED BY <2>1, <2>3, <2>4, SeqEqual
<1>2. <<Head(s)>> \in Seq(T)
  BY <1>1
<1>3. Entries(s, d) = Entries(<<Head(s)>>, d) + Entries(Tail(s), d)
  <2>1. PICK a \in Seq(T) : a = <<Head(s)>>
    BY <1>2
  <2>2. PICK b \in Seq(T) : b = Tail(s)
    BY <1>1
  <2>3. Entries(a \o b, d) = Entries(a, d) + Entries(b, d)
    BY EntriesConcat
  <2> QED BY <1>1, <2>1, <2>2, <2>3
<1>4. Entries(Tail(s), d) \in Nat
  BY <1>1, EntriesType
<1> QED BY <1>3, <1>4, EntriesOne

(* There are two drivers. *)
Bit(p) == IF p THEN 1 ELSE 0
LEMMA DriversCounted ==
  ASSUME NEW S \in SUBSET Driver
  PROVE  Cardinality(S) = Bit("hci" \in S) + Bit("gsm" \in S)
<1>1. S \in {{}, {"hci"}, {"gsm"}, {"hci"} \cup {"gsm"}}
  BY DEF Driver
<1>2. /\ Cardinality({}) = 0 /\ Cardinality({"hci"}) = 1 /\ Cardinality({"gsm"}) = 1
      /\ Cardinality({"hci"} \cup {"gsm"}) = 2
  BY FS_EmptySet, FS_Singleton, FS_AddElement
<1> QED BY <1>1, <1>2 DEF Bit

-----------------------------------------------------------------------------
(* The invariant. *)

(* What a driver holds: a device that it knows and that has been there; the *)
(* one it is online with is opened, and one it is not online with is what a *)
(* failed init left. *)
Holding ==
  \A v \in Driver :
    /\ online[v] => dev[v] \in Device /\ devh[v]
    /\ ~online[v] => dev[v] = NoDevice \/ dev[v] \in failed
    /\ dev[v] \in Device => conn[dev[v]] # "new"

(* Only a device that has been there is announced. *)
Announced(s) == \A i \in DOMAIN s : conn[s[i][1]] # "new"

(* A deinit is of a driver that is online. *)
Deinit(v) == task.op \in {"free", "freeing"} /\ task.v = v
DeinitsOnline == \A v \in Driver : Deinit(v) => online[v]

(* As long as none of its inits has failed, a driver's transfers in flight  *)
(* are its own inward ones, on the device it holds; each is going to be     *)
(* submitted again when it completes, unless its deinit has cancelled it,   *)
(* and then it ends within the round under way.  A deinit leaves none       *)
(* behind it. *)
Canceled(s) == task.op = "freeing" /\ s = At
Own(v, s, d) ==
  /\ d = dev[v] /\ online[v] /\ s[2] \in Inward /\ xfer[s].alloc
  /\ IF Canceled(s) THEN <<s, d>> \in round ELSE xfer[s].active
  /\ Deinit(v) => \A i \in DOMAIN Xfers(v) : Xfers(v)[i] = s[2] => task.i <= i
FlightsOwn == \A v \in Driver : Healthy(v) =>
  \A f \in flights : f[1][1] = v => Own(v, f[1], f[2])
FreeingOne == task.op = "freeing" => More /\ ~xfer[At].active
FreedUnhealthy == \A f \in freed : ~Healthy(f[1][1])
Transfers == FlightsOwn /\ FreeingOne /\ FreedUnhealthy /\ ListensWhileOnline

(* A driver that is online with a device that is gone will be told, or is   *)
(* letting go of it. *)
Told(d) == <<d, FALSE>> \in ToSet(notices) \cup ToSet(list)
NoGhost == \A v \in Driver : online[v] /\ conn[dev[v]] = "gone" =>
  \/ Told(dev[v]) \/ Deinit(v) \/ task.op = "off"
  \/ task.op \in {"free", "freeing"} /\ task.why = NoDevice

Drivers == Holding /\ Announced(notices) /\ Announced(list) /\ DeinitsOnline
Sound == TypeOK /\ Drivers /\ OnlyFailedInitsLeak /\ Transfers /\ NoGhost

-----------------------------------------------------------------------------
(* Drivers and their slots; what the program is doing. *)

LEMMA XfersAre ==
  /\ Driver = {"hci", "gsm"}
  /\ \A v \in Driver :
       /\ Len(Xfers(v)) \in 2..4 /\ DOMAIN Xfers(v) = 1..Len(Xfers(v))
       /\ \A i \in 1..Len(Xfers(v)) : <<v, Xfers(v)[i]>> \in Slot
       /\ \A i, j \in 1..Len(Xfers(v)) : Xfers(v)[i] = Xfers(v)[j] => i = j
<1>1. ASSUME NEW v \in Driver
      PROVE  /\ Len(Xfers(v)) \in 2..4 /\ DOMAIN Xfers(v) = 1..Len(Xfers(v))
             /\ \A i, j \in 1..Len(Xfers(v)) : Xfers(v)[i] = Xfers(v)[j] => i = j
  <2>1. \A i \in 1..2 : i \in {1, 2}
    OBVIOUS
  <2>2. \A i \in 1..4 : i \in {1, 2, 3, 4}
    OBVIOUS
  <2>3. CASE v = "hci"
    <3>1. Xfers(v) = <<"tx_cmd", "tx_acl", "rx_evt", "rx_acl">>
      BY <2>3 DEF Xfers
    <3> QED BY <2>2, <3>1
  <2>4. CASE v = "gsm"
    <3>1. Xfers(v) = <<"rx", "tx">>
      BY <2>4 DEF Xfers
    <3> QED BY <2>1, <3>1
  <2> QED BY <2>3, <2>4 DEF Driver
<1>2. ASSUME NEW v \in Driver, NEW i \in 1..Len(Xfers(v))
      PROVE  <<v, Xfers(v)[i]>> \in Slot
  BY <1>1, <1>2 DEF Slot
<1> QED BY <1>1, <1>2 DEF Driver

LEMMA SlotsAre ==
  ASSUME NEW s \in Slot
  PROVE  s[1] \in Driver /\ \E i \in 1..Len(Xfers(s[1])) : s = <<s[1], Xfers(s[1])[i]>>
BY XfersAre DEF Slot

Busy == [op : {"free", "freeing"}, v : Driver, i : 1..5, why : Device \cup {NoDevice}]
LEMMA TaskIs ==
  ASSUME TypeOK
  PROVE  /\ task \in Busy \/ task \in {Idle, [op |-> "drain"], [op |-> "asked"], [op |-> "off"]}
         /\ task.op \in {"free", "freeing"} => task \in Busy
         /\ task = Idle => task.op = "idle"
BY DEF TypeOK, Task, Busy, Idle

LEMMA AtIs ==
  ASSUME TypeOK, task.op \in {"free", "freeing"}, More
  PROVE  /\ task \in Busy /\ task.i \in 1..Len(Xfers(task.v)) /\ At \in Slot
         /\ At[1] = task.v /\ At[2] = Xfers(task.v)[task.i]
<1>1. task \in Busy
  BY TaskIs
<1>2. task.i \in 1..Len(Xfers(task.v)) /\ task.v \in Driver
  BY <1>1, XfersAre DEF More, Busy
<1> QED BY <1>1, <1>2, XfersAre DEF At

LEMMA KnownBy ==
  ASSUME NEW d \in Device
  PROVE  LET v == CHOOSE v \in Driver : d \in Listed(v) IN v \in Driver /\ d \in Listed(v)
<1>1. \E v \in Driver : d \in Listed(v)
  <2>1. d \in Listed("hci") \/ d \in Listed("gsm")
    BY DEF Device, Listed
  <2> QED BY <2>1 DEF Driver
<1> QED BY <1>1

LEMMA ListedOnce ==
  ASSUME NEW d, NEW v \in Driver, NEW w \in Driver, d \in Listed(v), d \in Listed(w)
  PROVE  v = w /\ d \in Device /\ d # NoDevice
BY DeviceAssumption DEF Listed, Driver, Device

-----------------------------------------------------------------------------
(* What rounds and inits change. *)

Notice == Device \X BOOLEAN
XferState == [alloc : BOOLEAN, active : BOOLEAN]

LEMMA RoundStarts ==
  ASSUME TypeOK, NEW must \in SUBSET flights, StartRound(must)
  PROVE  /\ round' \in SUBSET flights /\ must \subseteq round' /\ Dead \subseteq round'
         /\ list' = list \o notices /\ list' \in Seq(Notice) /\ notices' = <<>>
         /\ refs' \in [Device -> Nat]
         /\ \A d \in Device : refs'[d] = refs[d] + Entries(notices, d)
<1>1. round' \in SUBSET flights /\ must \subseteq round' /\ Dead \subseteq round'
  BY DEF StartRound, Dead
<1>2. list' = list \o notices /\ list' \in Seq(Notice) /\ notices' = <<>>
  BY ConcatProperties DEF StartRound, TypeOK, Notice
<1>3. \A d \in Device : Entries(notices, d) \in Nat
  BY EntriesType DEF TypeOK
<1>4. refs' = [d \in Device |-> refs[d] + Entries(notices, d)]
  BY DEF StartRound
<1>5. \A d \in Device : refs[d] \in Nat
  BY DEF TypeOK
<1>6. refs' \in [Device -> Nat]
  BY <1>3, <1>4, <1>5
<1> QED BY <1>1, <1>2, <1>4, <1>6

LEMMA XfersAfterIs ==
  ASSUME TypeOK, NEW v \in Driver, NEW n \in Nat, NEW last \in BOOLEAN
  PROVE  /\ XfersAfter(v, n, last) \in [Slot -> XferState]
         /\ \A s \in Slot : s[1] # v => XfersAfter(v, n, last)[s] = xfer[s]
         /\ \A s \in Slot : s[1] = v /\ s[2] \in Inward /\ n = Len(Xfers(v)) =>
              XfersAfter(v, n, last)[s] = [alloc |-> TRUE, active |-> TRUE]
<1> DEFINE x(s) == LET i == CHOOSE i \in DOMAIN Xfers(v) : Xfers(v)[i] = s[2] IN
                   IF i <= n THEN [alloc |-> TRUE, active |-> s[2] \in Inward]
                   ELSE IF i = n + 1 THEN [alloc |-> last, active |-> FALSE]
                   ELSE xfer[s]
<1>1. \A s \in Slot : xfer[s] \in XferState
  BY DEF TypeOK, XferState
<1>2. \A s \in Slot : x(s) \in XferState
  BY <1>1 DEF XferState
<1>3. ASSUME NEW s \in Slot, s[1] = v, s[2] \in Inward, n = Len(Xfers(v))
      PROVE  x(s) = [alloc |-> TRUE, active |-> TRUE]
  <2> DEFINE i == CHOOSE i \in DOMAIN Xfers(v) : Xfers(v)[i] = s[2]
  <2>1. PICK k \in 1..Len(Xfers(v)) : s = <<v, Xfers(v)[k]>>
    BY <1>3, SlotsAre
  <2>2. \E j \in DOMAIN Xfers(v) : Xfers(v)[j] = s[2]
    BY <2>1, XfersAre
  <2>3. i \in DOMAIN Xfers(v)
    BY <2>2
  <2>4. i <= n
    <3> HIDE DEF i
    <3> QED BY <1>3, <2>3, XfersAre
  <2>5. (s[2] \in Inward) = TRUE
    BY <1>3
  <2> QED BY <2>4, <2>5
<1> HIDE DEF x
<1>4. XfersAfter(v, n, last) = [s \in Slot |-> IF s[1] # v THEN xfer[s] ELSE x(s)]
  BY DEF XfersAfter, x
<1> QED BY <1>1, <1>2, <1>3, <1>4

LEMMA FlightsAfterAre ==
  ASSUME TypeOK, NEW v \in Driver, NEW d \in Device, NEW n \in 0..Len(Xfers(v))
  PROVE  /\ flights \subseteq FlightsAfter(v, d, n)
         /\ FlightsAfter(v, d, n) \subseteq Slot \X Device
         /\ \A f \in FlightsAfter(v, d, n) :
              f \in flights \/ (f[1][1] = v /\ f[1][2] \in Inward /\ f[2] = d)
         /\ n = Len(Xfers(v)) =>
              \A s \in Slot : s[1] = v /\ s[2] \in Inward => <<s, d>> \in FlightsAfter(v, d, n)
<1>1. Len(Xfers(v)) \in 2..4 /\ \A i \in 1..n : i \in 1..Len(Xfers(v)) /\ <<v, Xfers(v)[i]>> \in Slot
  BY XfersAre
<1>2. FlightsAfter(v, d, n) \subseteq Slot \X Device
  BY <1>1 DEF FlightsAfter, TypeOK
<1>3. ASSUME NEW s \in Slot, s[1] = v, s[2] \in Inward, n = Len(Xfers(v))
      PROVE  <<s, d>> \in FlightsAfter(v, d, n)
  <2>1. PICK k \in 1..n : s = <<v, Xfers(v)[k]>>
    BY <1>3, SlotsAre
  <2> QED BY <1>3, <2>1 DEF FlightsAfter
<1> QED BY <1>2, <1>3 DEF FlightsAfter

(* An init fails and keeps what it took, succeeds, or gives all back. *)
InitFails(v, d) ==
  /\ refs' = refs /\ online' = online /\ failed' = failed \cup {d}
  /\ dev' = [dev EXCEPT ![v] = d]
  /\ \E o \in BOOLEAN : /\ devh' = [devh EXCEPT ![v] = o]
                        /\ opens' = IF o THEN [opens EXCEPT ![d] = @ + 1] ELSE opens
InitSucceeds(v, d) ==
  /\ refs' = refs /\ failed' = failed /\ online' = [online EXCEPT ![v] = TRUE]
  /\ dev' = [dev EXCEPT ![v] = d] /\ devh' = [devh EXCEPT ![v] = TRUE]
  /\ opens' = [opens EXCEPT ![d] = @ + 1] /\ conn[d] = "here"
  /\ \A s \in Slot : s[1] = v /\ s[2] \in Inward => xfer'[s] = [alloc |-> TRUE, active |-> TRUE]
  /\ \A f \in flights' : f \in flights \/ (f[1][1] = v /\ f[1][2] \in Inward /\ f[2] = d)
  /\ \A s \in Slot : s[1] = v /\ s[2] \in Inward => <<s, d>> \in flights'
InitUndone(v, d) ==
  /\ Done(d) /\ UNCHANGED <<opens, online, xfer, flights, failed>>
  /\ dev' = [dev EXCEPT ![v] = NoDevice] /\ devh' = [devh EXCEPT ![v] = FALSE]

LEMMA InitIs ==
  ASSUME TypeOK, NEW v \in Driver, NEW d \in Device, DeviceInit(v, d)
  PROVE  /\ InitFails(v, d) \/ InitSucceeds(v, d) \/ InitUndone(v, d)
         /\ xfer' \in [Slot -> XferState]
         /\ \A s \in Slot : s[1] # v => xfer'[s] = xfer[s]
         /\ flights \subseteq flights' /\ flights' \subseteq Slot \X Device
         /\ \A f \in flights' : f \in flights \/ f[1][1] = v
<1>1. xfer \in [Slot -> XferState] /\ flights \subseteq Slot \X Device
  BY DEF TypeOK, XferState
<1>2. Len(Xfers(v)) \in 2..4
  BY XfersAre
<1>3. CASE FailsEarly(v, d) /\ refs' = refs
  <2>1. InitFails(v, d)
    BY <1>3 DEF FailsEarly, Took, Failing, InitFails
  <2> QED BY <1>1, <1>3, <2>1 DEF FailsEarly
<1>4. CASE FailsLate(v, d) /\ refs' = refs
  <2>1. InitFails(v, d)
    BY <1>4 DEF FailsLate, Took, Failing, InitFails
  <2>2. PICK n \in 0..(Len(Xfers(v)) - 1) :
          /\ xfer' = XfersAfter(v, n, FALSE) \/ xfer' = XfersAfter(v, n, TRUE)
          /\ flights' = FlightsAfter(v, d, n)
    BY <1>4 DEF FailsLate
  <2>3. n \in Nat /\ n \in 0..Len(Xfers(v))
    BY <1>2
  <2>4. xfer' \in [Slot -> XferState] /\ \A s \in Slot : s[1] # v => xfer'[s] = xfer[s]
    <3>1. PICK last \in BOOLEAN : xfer' = XfersAfter(v, n, last)
      BY <2>2
    <3> QED BY <2>3, <3>1, XfersAfterIs
  <2> QED BY <2>1, <2>2, <2>3, <2>4, FlightsAfterAre
<1>5. CASE Succeeds(v, d) /\ refs' = refs
  <2> DEFINE n == Len(Xfers(v))
  <2>1. n \in Nat /\ n \in 0..Len(Xfers(v))
    BY <1>2
  <2>2. xfer' = XfersAfter(v, n, FALSE) /\ flights' = FlightsAfter(v, d, n)
    BY <1>5 DEF Succeeds
  <2>3. xfer' \in [Slot -> XferState] /\ \A s \in Slot : s[1] # v => xfer'[s] = xfer[s]
    BY <2>1, <2>2, XfersAfterIs
  <2>4. \A s \in Slot : s[1] = v /\ s[2] \in Inward => xfer'[s] = [alloc |-> TRUE, active |-> TRUE]
    BY <2>1, <2>2, XfersAfterIs
  <2>5. /\ flights \subseteq flights' /\ flights' \subseteq Slot \X Device
        /\ \A f \in flights' : f \in flights \/ (f[1][1] = v /\ f[1][2] \in Inward /\ f[2] = d)
        /\ \A s \in Slot : s[1] = v /\ s[2] \in Inward => <<s, d>> \in flights'
    BY <2>1, <2>2, FlightsAfterAre
  <2>6. InitSucceeds(v, d)
    BY <1>5, <2>4, <2>5 DEF Succeeds, Took, InitSucceeds
  <2> QED BY <2>3, <2>5, <2>6
<1>6. CASE NoEndpoints(v, d) /\ Done(d)
  <2>1. InitUndone(v, d)
    BY <1>6 DEF NoEndpoints, InitUndone
  <2> QED BY <1>1, <2>1 DEF InitUndone
<1> QED BY <1>3, <1>4, <1>5, <1>6 DEF DeviceInit

-----------------------------------------------------------------------------
(* References and handles. *)

Owed(d) == task.op \in {"free", "freeing"} /\ task.why = d
LEMMA RefsAre ==
  \A d : /\ Refs(d) = Entries(list, d) + (Bit(dev["hci"] = d) + Bit(dev["gsm"] = d)) + Bit(Owed(d))
         /\ Opens(d) = Bit(dev["hci"] = d /\ devh["hci"]) + Bit(dev["gsm"] = d /\ devh["gsm"])
<1> SUFFICES ASSUME NEW d
             PROVE  /\ Refs(d) = Entries(list, d) + (Bit(dev["hci"] = d) + Bit(dev["gsm"] = d))
                                 + Bit(Owed(d))
                    /\ Opens(d) = Bit(dev["hci"] = d /\ devh["hci"])
                                  + Bit(dev["gsm"] = d /\ devh["gsm"])
  OBVIOUS
<1> DEFINE S == {v \in Driver : dev[v] = d}
           O == {v \in Driver : dev[v] = d /\ devh[v]}
<1>1. Cardinality(S) = Bit("hci" \in S) + Bit("gsm" \in S)
  BY DriversCounted
<1>2. Cardinality(O) = Bit("hci" \in O) + Bit("gsm" \in O)
  BY DriversCounted
<1>3. /\ "hci" \in S <=> dev["hci"] = d
      /\ "gsm" \in S <=> dev["gsm"] = d
      /\ "hci" \in O <=> dev["hci"] = d /\ devh["hci"]
      /\ "gsm" \in O <=> dev["gsm"] = d /\ devh["gsm"]
  BY DEF Driver
<1>4. Refs(d) = Entries(list, d) + Cardinality(S) + Bit(Owed(d))
  BY DEF Refs, Owed, Bit
<1>5. Opens(d) = Cardinality(O)
  BY DEF Opens
<1> HIDE DEF S, O
<1> QED BY <1>1, <1>2, <1>3, <1>4, <1>5 DEF Bit

LEMMA RefsWillBe ==
  \A d : /\ Refs(d)' = Entries(list', d) + (Bit(dev'["hci"] = d) + Bit(dev'["gsm"] = d))
                       + Bit(Owed(d)')
         /\ Opens(d)' = Bit(dev'["hci"] = d /\ devh'["hci"]) + Bit(dev'["gsm"] = d /\ devh'["gsm"])
<1> SUFFICES ASSUME NEW d
             PROVE  /\ Refs(d)' = Entries(list', d) + (Bit(dev'["hci"] = d) + Bit(dev'["gsm"] = d))
                                  + Bit(Owed(d)')
                    /\ Opens(d)' = Bit(dev'["hci"] = d /\ devh'["hci"])
                                   + Bit(dev'["gsm"] = d /\ devh'["gsm"])
  OBVIOUS
<1> DEFINE S == {v \in Driver : dev'[v] = d}
           O == {v \in Driver : dev'[v] = d /\ devh'[v]}
<1>1. Cardinality(S) = Bit("hci" \in S) + Bit("gsm" \in S)
  BY DriversCounted
<1>2. Cardinality(O) = Bit("hci" \in O) + Bit("gsm" \in O)
  BY DriversCounted
<1>3. /\ "hci" \in S <=> dev'["hci"] = d
      /\ "gsm" \in S <=> dev'["gsm"] = d
      /\ "hci" \in O <=> dev'["hci"] = d /\ devh'["hci"]
      /\ "gsm" \in O <=> dev'["gsm"] = d /\ devh'["gsm"]
  BY DEF Driver
<1>4. Refs(d)' = Entries(list', d) + Cardinality(S) + Bit(Owed(d)')
  BY DEF Refs, Owed, Bit, Entries
<1>5. Opens(d)' = Cardinality(O)
  BY DEF Opens
<1> HIDE DEF S, O
<1> QED BY <1>1, <1>2, <1>3, <1>4, <1>5 DEF Bit

(* What a list entry holds is at hand when the entry is worked off. *)
LEMMA HeadHeld ==
  ASSUME TypeOK, OnlyFailedInitsLeak, list # <<>>
  PROVE  /\ Head1 \in Notice /\ Tail(list) \in Seq(Notice)
         /\ refs[Head1[1]] \in Nat /\ refs[Head1[1]] > 0
<1>1. list \in Seq(Notice)
  BY DEF TypeOK, Notice
<1>2. Head1 \in Notice /\ Tail(list) \in Seq(Notice)
  BY <1>1, HeadTailProperties DEF Head1
<1>3. PICK d \in Device : d = Head1[1]
  BY <1>2 DEF Notice
<1>4. Entries(list, d) = Entries(Tail(list), d) + 1 /\ Entries(Tail(list), d) \in Nat
  BY <1>1, <1>2, <1>3, EntriesTail, EntriesType DEF Head1
<1>5. refs[d] \in Nat /\ refs[d] >= Refs(d)
  BY DEF TypeOK, OnlyFailedInitsLeak
<1>6. Refs(d) = Entries(list, d) + (Bit(dev["hci"] = d) + Bit(dev["gsm"] = d)) + Bit(Owed(d))
  BY RefsAre
<1> QED BY <1>2, <1>3, <1>4, <1>5, <1>6 DEF Bit

(* So is what a driver holds when it lets go. *)
LEMMA DeviceHeld ==
  ASSUME TypeOK, Drivers, OnlyFailedInitsLeak, task.op \in {"free", "freeing"}
  PROVE  /\ task \in Busy /\ dev[task.v] \in Device /\ online[task.v]
         /\ opens[dev[task.v]] > 0
         /\ \A d \in Device : refs[d] - (IF d = dev[task.v] THEN 1 ELSE 0)
                                      - (IF d = task.why THEN 1 ELSE 0) \in Nat
<1>1. task \in Busy /\ task.v \in Driver
  BY TaskIs DEF Busy
<1>2. online[task.v] /\ dev[task.v] \in Device /\ devh[task.v]
  BY <1>1 DEF Drivers, DeinitsOnline, Holding, Deinit
<1>3. ASSUME NEW d \in Device
      PROVE  /\ opens[d] \in Nat /\ opens[d] >= Opens(d)
             /\ refs[d] \in Nat /\ refs[d] >= Refs(d) /\ Entries(list, d) \in Nat
             /\ Refs(d) = Entries(list, d) + (Bit(dev["hci"] = d) + Bit(dev["gsm"] = d))
                          + Bit(Owed(d))
             /\ Opens(d) = Bit(dev["hci"] = d /\ devh["hci"]) + Bit(dev["gsm"] = d /\ devh["gsm"])
  BY RefsAre, EntriesType DEF TypeOK, OnlyFailedInitsLeak
<1>4. opens[dev[task.v]] > 0
  BY <1>1, <1>2, <1>3 DEF Bit, Driver
<1>5. ASSUME NEW d \in Device
      PROVE  refs[d] - (IF d = dev[task.v] THEN 1 ELSE 0) - (IF d = task.why THEN 1 ELSE 0) \in Nat
  BY <1>1, <1>3 DEF Bit, Driver, Owed
<1> QED BY <1>1, <1>2, <1>4, <1>5

-----------------------------------------------------------------------------
(* Types. *)

LEMMA PlugTypes == TypeOK /\ (\E d \in Device : Plug(d) \/ Unplug(d)) => TypeOK'
<1> SUFFICES ASSUME TypeOK, NEW d \in Device, Plug(d) \/ Unplug(d) PROVE TypeOK'
  OBVIOUS
<1>1. notices' \in Seq(Notice)
  <2>1. PICK e \in Notice : notices' = Append(notices, e)
    BY DEF Plug, Unplug, Notice
  <2>2. notices \in Seq(Notice)
    BY DEF TypeOK, Notice
  <2> QED BY <2>1, <2>2, AppendProperties
<1>2. conn' \in [Device -> {"new", "here", "gone"}]
  BY DEF TypeOK, Plug, Unplug
<1> QED BY <1>1, <1>2 DEF TypeOK, Plug, Unplug, drivers, Notice

LEMMA CompleteTypes == TypeOK /\ (\E f \in flights : Complete(f)) => TypeOK'
<1> SUFFICES ASSUME TypeOK, NEW f \in flights, Complete(f) PROVE TypeOK'
  OBVIOUS
<1>1. f[1] \in Slot
  BY DEF TypeOK
<1>2. xfer' \in [Slot -> XferState]
  <2>1. PICK a \in BOOLEAN : xfer' = [xfer EXCEPT ![f[1]].active = a]
    BY DEF Complete
  <2>2. xfer \in [Slot -> XferState]
    BY DEF TypeOK, XferState
  <2>3. [xfer[f[1]] EXCEPT !.active = a] \in XferState
    BY <1>1, <2>2 DEF XferState
  <2> QED BY <1>1, <2>1, <2>2, <2>3
<1>3. flights' \subseteq flights /\ freed' \subseteq flights' /\ round' \subseteq flights'
  BY DEF TypeOK, Complete
<1>4. refused' \subseteq Slot \X Device
  BY DEF TypeOK, Complete
<1> QED BY <1>2, <1>3, <1>4 DEF TypeOK, Complete, XferState

LEMMA RoundTypes ==
  TypeOK /\ (FdActivity \/ (\E v \in Driver : Submit(v)) \/ Ask \/ Cancel) => TypeOK'
<1> SUFFICES ASSUME TypeOK, FdActivity \/ (\E v \in Driver : Submit(v)) \/ Ask \/ Cancel
             PROVE  TypeOK'
  OBVIOUS
<1>1. PICK must \in SUBSET flights : StartRound(must)
  BY DEF FdActivity, Submit, Ask, Cancel
<1>2. /\ round' \in SUBSET flights /\ list' \in Seq(Notice) /\ notices' = <<>>
      /\ refs' \in [Device -> Nat]
  BY <1>1, RoundStarts
<1>3. notices' \in Seq(Notice)
  BY <1>2, EmptySeq
<1>4. task' \in Task
  <2>1. CASE Cancel
    BY <2>1, TaskIs DEF Cancel, Freeing, Busy, Task
  <2>2. CASE ~Cancel
    BY <2>2 DEF FdActivity, Submit, Ask, TypeOK, Task
  <2> QED BY <2>1, <2>2
<1>5. xfer' \in [Slot -> XferState]
  <2>1. CASE Cancel
    <3>1. At \in Slot /\ xfer' = [xfer EXCEPT ![At].active = FALSE]
      BY <2>1, AtIs DEF Cancel, Freeing
    <3>2. xfer \in [Slot -> XferState] /\ [xfer[At] EXCEPT !.active = FALSE] \in XferState
      BY <3>1 DEF TypeOK, XferState
    <3> QED BY <3>1, <3>2
  <2>2. CASE ~Cancel
    BY <2>2 DEF FdActivity, Submit, Ask, TypeOK, XferState, drivers
  <2> QED BY <2>1, <2>2
<1>6. /\ UNCHANGED <<conn, opens, flights, freed, dev, devh, online, failed, refused>>
  BY DEF FdActivity, Submit, Ask, Cancel, drivers
<1> QED BY <1>2, <1>3, <1>4, <1>5, <1>6 DEF TypeOK, Notice, XferState

LEMMA ArrivedTypes == TypeOK /\ OnlyFailedInitsLeak /\ Arrived => TypeOK'
<1> SUFFICES ASSUME TypeOK, OnlyFailedInitsLeak, Arrived PROVE TypeOK'
  OBVIOUS
<1> DEFINE d == Head1[1]
           v == CHOOSE v \in Driver : d \in Listed(v)
<1>1. /\ d \in Device /\ Tail(list) \in Seq(Notice)
      /\ refs[d] \in Nat /\ refs[d] > 0
  BY HeadHeld DEF Arrived, Notice
<1>2. v \in Driver /\ d \in Listed(v)
  BY <1>1, KnownBy
<1>3. /\ list' = Tail(list) /\ UNCHANGED <<conn, notices, freed, round, refused>>
      /\ task' \in Task
      /\ \/ Done(d) /\ UNCHANGED <<opens, drivers, flights>>
         \/ DeviceInit(v, d)
  BY DEF Arrived, Task
<1> HIDE DEF d, v
<1>4. Done(d) => refs' \in [Device -> Nat]
  BY <1>1 DEF Done, TypeOK
<1>5. CASE Done(d) /\ UNCHANGED <<opens, drivers, flights>>
  BY <1>1, <1>3, <1>4, <1>5 DEF TypeOK, drivers, Notice
<1>6. CASE DeviceInit(v, d)
  <2>1. /\ InitFails(v, d) \/ InitSucceeds(v, d) \/ InitUndone(v, d)
        /\ xfer' \in [Slot -> XferState]
        /\ flights \subseteq flights' /\ flights' \subseteq Slot \X Device
    BY <1>1, <1>2, <1>6, InitIs
  <2>2. refs' \in [Device -> Nat]
    BY <1>4, <2>1 DEF InitFails, InitSucceeds, InitUndone, TypeOK
  <2>3. opens' \in [Device -> Nat]
    BY <1>1, <2>1 DEF InitFails, InitSucceeds, InitUndone, TypeOK
  <2>4. /\ dev' \in [Driver -> Device \cup {NoDevice}]
        /\ \A w \in Driver : dev'[w] \in Listed(w) \cup {NoDevice}
    BY <1>1, <1>2, <2>1 DEF InitFails, InitSucceeds, InitUndone, TypeOK
  <2>5. devh' \in [Driver -> BOOLEAN]
    BY <2>1 DEF InitFails, InitSucceeds, InitUndone, TypeOK
  <2>6. online' \in [Driver -> BOOLEAN] /\ failed' \subseteq Device
    BY <1>1, <2>1 DEF InitFails, InitSucceeds, InitUndone, TypeOK
  <2>7. freed' \subseteq flights' /\ round' \subseteq flights'
    BY <1>3, <2>1 DEF TypeOK
  <2> QED BY <1>1, <1>3, <2>1, <2>2, <2>3, <2>4, <2>5, <2>6, <2>7 DEF TypeOK, Notice, XferState
<1> QED BY <1>3, <1>5, <1>6

LEMMA LeftTypes == TypeOK /\ OnlyFailedInitsLeak /\ Left => TypeOK'
<1> SUFFICES ASSUME TypeOK, OnlyFailedInitsLeak, Left PROVE TypeOK'
  OBVIOUS
<1> DEFINE d == Head1[1]
           v == CHOOSE v \in Driver : d \in Listed(v)
<1>1. /\ d \in Device /\ Tail(list) \in Seq(Notice)
      /\ refs[d] \in Nat /\ refs[d] > 0
  BY HeadHeld DEF Left, Notice
<1>2. v \in Driver
  BY <1>1, KnownBy
<1>3. /\ list' = Tail(list) /\ UNCHANGED <<conn, notices, opens, flights, freed, round, drivers>>
      /\ \/ task' = [op |-> "free", v |-> v, i |-> 1, why |-> d] /\ refs' = refs
         \/ Done(d) /\ task' = task
  BY DEF Left
<1> HIDE DEF d, v
<1>4. refs' \in [Device -> Nat]
  <2>1. CASE refs' = refs
    BY <2>1 DEF TypeOK
  <2>2. CASE Done(d)
    BY <1>1, <2>2 DEF Done, TypeOK
  <2> QED BY <1>3, <2>1, <2>2
<1>5. task' \in Task
  BY <1>1, <1>2, <1>3 DEF TypeOK, Task
<1> QED BY <1>1, <1>3, <1>4, <1>5 DEF TypeOK, drivers, Notice

LEMMA FreeTypes == TypeOK /\ FreeXfer => TypeOK'
<1> SUFFICES ASSUME TypeOK, FreeXfer PROVE TypeOK'
  OBVIOUS
<1>1. /\ task \in Busy /\ task.i \in 1..Len(Xfers(task.v)) /\ At \in Slot
  BY AtIs DEF FreeXfer, Freeing
<1>2. task' \in Task
  <2>1. task.v \in Driver /\ task.i + 1 \in 1..5
    BY <1>1, XfersAre DEF Busy
  <2> QED BY <1>1, <2>1 DEF FreeXfer, Busy, Task
<1>3. xfer' \in [Slot -> XferState]
  BY <1>1 DEF FreeXfer, TypeOK, XferState
<1>4. freed' \subseteq flights
  BY DEF FreeXfer, TypeOK
<1> QED BY <1>2, <1>3, <1>4 DEF FreeXfer, TypeOK, XferState

LEMMA GoneTypes == TypeOK /\ Drivers /\ OnlyFailedInitsLeak /\ DeviceGone => TypeOK'
<1> SUFFICES ASSUME TypeOK, Drivers, OnlyFailedInitsLeak, DeviceGone PROVE TypeOK'
  OBVIOUS
<1>1. /\ task \in Busy /\ dev[task.v] \in Device /\ opens[dev[task.v]] > 0
      /\ \A d \in Device : refs[d] - (IF d = dev[task.v] THEN 1 ELSE 0)
                                   - (IF d = task.why THEN 1 ELSE 0) \in Nat
  BY DeviceHeld DEF DeviceGone, Freeing
<1>2. refs' \in [Device -> Nat]
  BY <1>1 DEF DeviceGone, GiveBack
<1>3. opens' \in [Device -> Nat]
  BY <1>1 DEF DeviceGone, TypeOK
<1>4. task' \in Task
  <2>1. task \in [op : {"free", "freeing"}, v : Driver, i : 1..5, why : Device \cup {NoDevice}]
    BY <1>1 DEF Busy
  <2>2. [task EXCEPT !.v = "gsm", !.i = 1] \in
          [op : {"free", "freeing"}, v : Driver, i : 1..5, why : Device \cup {NoDevice}]
    <3>1. "gsm" \in Driver /\ 1 \in 1..5
      BY DEF Driver
    <3> HIDE DEF Driver
    <3> QED BY <2>1, <3>1
  <2>3. task' \in {[op |-> "drain"], [op |-> "off"], [task EXCEPT !.v = "gsm", !.i = 1]}
    BY DEF DeviceGone
  <2> QED BY <2>2, <2>3 DEF Task
<1>5. /\ dev' \in [Driver -> Device \cup {NoDevice}]
      /\ \A w \in Driver : dev'[w] \in Listed(w) \cup {NoDevice}
  BY <1>1 DEF DeviceGone, TypeOK
<1> QED BY <1>2, <1>3, <1>4, <1>5 DEF DeviceGone, TypeOK

LEMMA RestTypes == TypeOK /\ (Drained \/ Shutdown \/ Off \/ UNCHANGED vars) => TypeOK'
<1> SUFFICES ASSUME TypeOK, Drained \/ Shutdown \/ Off \/ UNCHANGED vars PROVE TypeOK'
  OBVIOUS
<1>1. task' \in Task
  BY DEF Drained, Shutdown, Off, vars, TypeOK, Task, Driver
<1>2. UNCHANGED <<conn, list, libusb, drivers>>
  BY DEF Drained, Shutdown, Off, vars
<1> QED BY <1>1, <1>2 DEF TypeOK, libusb, drivers

LEMMA TypeStep == TypeOK /\ Drivers /\ OnlyFailedInitsLeak /\ [Next]_vars => TypeOK'
BY PlugTypes, CompleteTypes, RoundTypes, ArrivedTypes, LeftTypes, FreeTypes, GoneTypes, RestTypes
   DEF Next, Loop, Proceed

-----------------------------------------------------------------------------
(* What the drivers hold, and what is announced. *)

LEMMA ConnStep ==
  ASSUME TypeOK, [Next]_vars
  PROVE  \/ conn' = conn
         \/ \E d \in Device :
              /\ conn' = [conn EXCEPT ![d] = IF conn[d] = "new" THEN "here" ELSE "gone"]
              /\ notices' = Append(notices, <<d, conn[d] = "new">>)
              /\ UNCHANGED <<list, refs, opens, flights, freed, round, drivers, task>>
<1>1. CASE \E d \in Device : Plug(d) \/ Unplug(d)
  <2>1. PICK d \in Device : Plug(d) \/ Unplug(d)
    BY <1>1
  <2>2. CASE Plug(d)
    <3>1. conn[d] = "new"
      BY <2>2 DEF Plug
    <3>2. (conn[d] = "new") = TRUE
      BY <3>1
    <3> QED BY <2>2, <3>1, <3>2 DEF Plug
  <2>3. CASE Unplug(d)
    <3>1. conn[d] = "here"
      BY <2>3 DEF Unplug
    <3>2. (conn[d] = "new") = FALSE
      BY <3>1
    <3> QED BY <2>3, <3>1, <3>2 DEF Unplug
  <2> QED BY <2>1, <2>2, <2>3
<1>2. CASE ~ \E d \in Device : Plug(d) \/ Unplug(d)
  BY <1>2 DEF Next, Loop, Proceed, FdActivity, Complete, Ask, Arrived, Left, Drained, Cancel, FreeXfer, DeviceGone,
     Shutdown, Off, Submit, vars
<1> QED BY <1>1, <1>2

LEMMA ConnStays ==
  ASSUME TypeOK, [Next]_vars, NEW d \in Device
  PROVE  /\ conn[d] # "new" => conn'[d] # "new"
         /\ conn[d] = "gone" => conn'[d] = "gone"
BY ConnStep DEF TypeOK

(* Announcements come from plugs and go from the notices to the list. *)
LEMMA AnnouncedStep ==
  ASSUME TypeOK, Drivers, OnlyFailedInitsLeak, [Next]_vars
  PROVE  Announced(notices)' /\ Announced(list)'
<1>1. notices \in Seq(Notice) /\ list \in Seq(Notice)
  BY DEF TypeOK, Notice
<1>2. ASSUME NEW s \in Seq(Notice), Announced(s)
      PROVE  \A i \in DOMAIN s : conn'[s[i][1]] # "new"
  <2>1. \A i \in DOMAIN s : s[i][1] \in Device
    BY LenProperties, ElementOfSeq DEF Notice
  <2> QED BY <1>2, <2>1, ConnStays DEF Announced
<1>3. CASE UNCHANGED <<notices, list>>
  BY <1>1, <1>2, <1>3 DEF Drivers, Announced
<1>4. CASE \E d \in Device : Plug(d) \/ Unplug(d)
  <2>1. PICK d \in Device : Plug(d) \/ Unplug(d)
    BY <1>4
  <2>2. PICK b \in BOOLEAN : notices' = Append(notices, <<d, b>>) /\ list' = list /\ conn'[d] # "new"
    BY <2>1 DEF Plug, Unplug, TypeOK
  <2> DEFINE e == <<d, b>>
             n == Len(notices)
  <2>3. e \in Notice /\ e[1] = d
    BY DEF Notice
  <2> HIDE DEF e
  <2>4. /\ n \in Nat /\ notices' \in Seq(Notice) /\ Len(notices') = n + 1
        /\ DOMAIN notices = 1..n /\ DOMAIN notices' = 1..(n + 1)
        /\ \A i \in 1..n : notices'[i] = notices[i]
        /\ notices'[n + 1] = e
    BY <1>1, <2>2, <2>3, AppendProperties, LenProperties DEF e
  <2>5. \A i \in DOMAIN notices' : i \in DOMAIN notices \/ i = n + 1
    BY <2>4
  <2>6. ASSUME NEW i \in DOMAIN notices' PROVE conn'[notices'[i][1]] # "new"
    <3>1. CASE i \in DOMAIN notices
      <4>1. notices'[i] = notices[i]
        BY <2>4, <3>1
      <4> QED BY <1>1, <1>2, <3>1, <4>1 DEF Drivers
    <3>2. CASE i = n + 1
      <4>1. notices'[i] = e
        BY <2>4, <3>2
      <4> QED BY <2>2, <2>3, <4>1
    <3> QED BY <2>5, <3>1, <3>2
  <2>7. Announced(notices)'
    BY <2>6 DEF Announced
  <2> QED BY <1>1, <1>2, <2>2, <2>7 DEF Drivers, Announced
<1>5. CASE notices' = <<>> /\ list' = list \o notices
  <2> DEFINE n == Len(list)
  <2>1. /\ n \in Nat /\ Len(notices) \in Nat /\ DOMAIN list = 1..n /\ DOMAIN notices = 1..Len(notices)
        /\ DOMAIN list' = 1..(n + Len(notices))
        /\ \A i \in 1..(n + Len(notices)) : list'[i] = IF i <= n THEN list[i] ELSE notices[i - n]
    BY <1>1, <1>5, ConcatProperties, LenProperties
  <2>2. ASSUME NEW i \in DOMAIN list' PROVE conn'[list'[i][1]] # "new"
    <3>1. CASE i <= n
      <4>1. i \in DOMAIN list /\ list'[i] = list[i]
        BY <2>1, <3>1
      <4> QED BY <1>1, <1>2, <4>1 DEF Drivers
    <3>2. CASE i > n
      <4>1. i - n \in DOMAIN notices /\ list'[i] = notices[i - n]
        BY <2>1, <3>2
      <4> QED BY <1>1, <1>2, <4>1 DEF Drivers
    <3>3. i <= n \/ i > n
      BY <2>1
    <3> QED BY <3>1, <3>2, <3>3
  <2>3. \A i \in DOMAIN notices' : FALSE
    BY <1>5
  <2> QED BY <2>2, <2>3 DEF Announced
<1>6. CASE notices' = notices /\ list # <<>> /\ list' = Tail(list)
  <2>1. /\ list' \in Seq(Notice) /\ Len(list) \in Nat \ {0} /\ DOMAIN list = 1..Len(list)
        /\ DOMAIN list' = 1..(Len(list) - 1)
        /\ \A i \in 1..(Len(list) - 1) : list'[i] = list[i + 1]
    BY <1>1, <1>6, HeadTailProperties, LenProperties, EmptySeq
  <2>2. \A i \in DOMAIN list' : i + 1 \in DOMAIN list /\ list'[i] = list[i + 1]
    BY <2>1
  <2> QED BY <1>1, <1>2, <1>6, <2>2 DEF Drivers, Announced
<1>7. \/ UNCHANGED <<notices, list>>
      \/ \E d \in Device : Plug(d) \/ Unplug(d)
      \/ notices' = <<>> /\ list' = list \o notices
      \/ notices' = notices /\ list # <<>> /\ list' = Tail(list)
  BY DEF Next, Loop, Proceed, FdActivity, Complete, Ask, Arrived, Left, Drained, Cancel, FreeXfer, DeviceGone,
     Shutdown, Off, Submit, StartRound, vars, libusb
<1> QED BY <1>3, <1>4, <1>5, <1>6, <1>7

LEMMA HoldingStep ==
  ASSUME TypeOK, Drivers, OnlyFailedInitsLeak, [Next]_vars
  PROVE  Holding' /\ DeinitsOnline'
<1>1. CASE UNCHANGED <<dev, devh, online, failed>> /\ DeinitsOnline'
  <2>1. \A v \in Driver : dev[v] \in Device /\ conn[dev[v]] # "new" => conn'[dev[v]] # "new"
    BY ConnStays
  <2> QED BY <1>1, <2>1 DEF Drivers, Holding
<1>2. CASE Arrived
  <2> DEFINE d == Head1[1]
             v == CHOOSE v \in Driver : d \in Listed(v)
  <2>1. d \in Device /\ list \in Seq(Notice) /\ list # <<>>
    BY <1>2, HeadHeld DEF Arrived, Notice, TypeOK
  <2>2. v \in Driver /\ d \in Listed(v)
    BY <2>1, KnownBy
  <2>3. conn[d] # "new"
    <3>1. 1 \in DOMAIN list /\ d = list[1][1]
      BY <2>1, EmptySeq, LenProperties DEF Head1
    <3> QED BY <3>1 DEF Drivers, Announced
  <2>4. /\ UNCHANGED drivers \/ (~online[v] /\ DeviceInit(v, d))
        /\ conn' = conn /\ task' = [op |-> "drain"]
    BY <1>2 DEF Arrived
  <2> HIDE DEF d, v
  <2>5. DeinitsOnline'
    BY <2>4 DEF DeinitsOnline, Deinit
  <2>6. CASE UNCHANGED drivers
    BY <1>1, <2>5, <2>6 DEF drivers
  <2>7. CASE ~online[v] /\ DeviceInit(v, d)
    <3>1. InitFails(v, d) \/ InitSucceeds(v, d) \/ InitUndone(v, d)
      BY <2>1, <2>2, <2>7, InitIs
    <3>2. ASSUME NEW w \in Driver, w # v
          PROVE  /\ dev'[w] = dev[w] /\ devh'[w] = devh[w] /\ online'[w] = online[w]
                 /\ failed \subseteq failed'
      BY <3>1, <3>2, <2>2 DEF InitFails, InitSucceeds, InitUndone, TypeOK
    <3>3. CASE InitFails(v, d)
      <4>1. dev'[v] = d /\ ~online'[v] /\ d \in failed'
        BY <2>2, <2>7, <3>3 DEF InitFails, TypeOK
      <4> QED BY <2>1, <2>3, <2>4, <2>5, <3>2, <4>1 DEF Drivers, Holding
    <3>4. CASE InitSucceeds(v, d)
      <4>1. dev'[v] = d /\ online'[v] /\ devh'[v]
        BY <2>2, <3>4 DEF InitSucceeds, TypeOK
      <4> QED BY <2>1, <2>3, <2>4, <2>5, <3>2, <4>1 DEF Drivers, Holding
    <3>5. CASE InitUndone(v, d)
      <4>1. dev'[v] = NoDevice /\ ~online'[v]
        BY <2>2, <2>7, <3>5 DEF InitUndone, TypeOK
      <4> QED BY <2>4, <2>5, <3>2, <4>1, DeviceAssumption DEF Drivers, Holding
    <3> QED BY <3>1, <3>3, <3>4, <3>5
  <2> QED BY <2>4, <2>6, <2>7
<1>3. CASE DeviceGone
  <2>1. /\ task \in Busy /\ task.v \in Driver
    BY <1>3, TaskIs DEF DeviceGone, Freeing, Busy
  <2>2. /\ dev'[task.v] = NoDevice /\ ~online'[task.v] /\ conn' = conn /\ failed' = failed
        /\ \A w \in Driver : w # task.v =>
             dev'[w] = dev[w] /\ devh'[w] = devh[w] /\ online'[w] = online[w]
    BY <1>3, <2>1 DEF DeviceGone, TypeOK
  <2>3. Holding'
    BY <2>2, DeviceAssumption DEF Drivers, Holding
  <2>4. CASE task.why = NoDevice /\ task.v = "hci" /\ online["gsm"]
    <3>1. task' = [task EXCEPT !.v = "gsm", !.i = 1]
      BY <1>3, <2>4 DEF DeviceGone
    <3>2. task'.v = "gsm" /\ online'["gsm"]
      BY <2>1, <2>2, <2>4, <3>1 DEF Busy, Driver
    <3> QED BY <2>3, <3>2 DEF DeinitsOnline, Deinit
  <2>5. CASE ~(task.why = NoDevice /\ task.v = "hci" /\ online["gsm"])
    <3>1. task' \in {[op |-> "drain"], [op |-> "off"]}
      BY <1>3, <2>5 DEF DeviceGone
    <3> QED BY <2>3, <3>1 DEF DeinitsOnline, Deinit
  <2> QED BY <2>4, <2>5
<1>4. CASE Left
  <2> DEFINE d == Head1[1]
             v == CHOOSE v \in Driver : d \in Listed(v)
  <2>1. d \in Device
    BY <1>4, HeadHeld DEF Left, Notice
  <2>2. /\ \/ online[v] /\ task' = [op |-> "free", v |-> v, i |-> 1, why |-> d]
           \/ task' = task /\ task.op = "drain"
        /\ UNCHANGED drivers
    BY <1>4 DEF Left, Draining
  <2> HIDE DEF d, v
  <2>3. DeinitsOnline'
    BY <2>2 DEF DeinitsOnline, Deinit, drivers
  <2> QED BY <1>1, <2>2, <2>3 DEF drivers
<1>5. CASE Cancel \/ FreeXfer
  <2>1. /\ task \in Busy /\ task.op \in {"free", "freeing"}
        /\ task'.v = task.v /\ UNCHANGED <<dev, devh, online, failed>>
    BY <1>5, TaskIs DEF Cancel, FreeXfer, Freeing, Busy
  <2> QED BY <1>1, <2>1 DEF DeinitsOnline, Deinit, Drivers
<1>6. CASE Shutdown
  <2>1. UNCHANGED drivers
    BY <1>6 DEF Shutdown
  <2>2. DeinitsOnline'
    BY <1>6, <2>1 DEF Shutdown, DeinitsOnline, Deinit, drivers, Driver
  <2> QED BY <1>1, <2>1, <2>2 DEF drivers
<1>7. CASE /\ UNCHANGED <<dev, devh, online, failed>>
           /\ task' = task \/ task' \in {Idle, [op |-> "drain"], [op |-> "asked"]}
  BY <1>1, <1>7 DEF DeinitsOnline, Deinit, Drivers, Idle
<1>8. \/ Arrived \/ DeviceGone \/ Left \/ Cancel \/ FreeXfer \/ Shutdown
      \/ /\ UNCHANGED <<dev, devh, online, failed>>
         /\ task' = task \/ task' \in {Idle, [op |-> "drain"], [op |-> "asked"]}
  BY DEF Next, Loop, Proceed, FdActivity, Complete, Ask, Drained, Plug, Unplug, Off, Submit, vars, drivers
<1> QED BY <1>2, <1>3, <1>4, <1>5, <1>6, <1>7, <1>8

LEMMA DriversStep ==
  TypeOK /\ Drivers /\ OnlyFailedInitsLeak /\ [Next]_vars => Drivers'
BY AnnouncedStep, HoldingStep DEF Drivers

(* The references and handles held are those that something gives back. *)

LEMMA BalanceIs ==
  ASSUME TypeOK, OnlyFailedInitsLeak, NEW d \in Device
  PROVE  /\ refs[d] \in Nat /\ opens[d] \in Nat /\ Entries(list, d) \in Nat
         /\ Entries(list, d) + (Bit(dev["hci"] = d) + Bit(dev["gsm"] = d)) + Bit(Owed(d)) <= refs[d]
         /\ Bit(dev["hci"] = d /\ devh["hci"]) + Bit(dev["gsm"] = d /\ devh["gsm"]) <= opens[d]
         /\ d \notin failed =>
              /\ refs[d] = Entries(list, d) + (Bit(dev["hci"] = d) + Bit(dev["gsm"] = d)) + Bit(Owed(d))
              /\ opens[d] = Bit(dev["hci"] = d /\ devh["hci"]) + Bit(dev["gsm"] = d /\ devh["gsm"])
<1>1. /\ refs[d] \in Nat /\ opens[d] \in Nat /\ Entries(list, d) \in Nat
  BY EntriesType DEF TypeOK
<1>2. /\ refs[d] >= Refs(d) /\ opens[d] >= Opens(d)
      /\ d \notin failed => refs[d] = Refs(d) /\ opens[d] = Opens(d)
  BY DEF OnlyFailedInitsLeak
<1> QED BY <1>1, <1>2, RefsAre DEF Bit

LEMMA BalanceWillBe ==
  ASSUME \A d \in Device :
    /\ Entries(list', d) + (Bit(dev'["hci"] = d) + Bit(dev'["gsm"] = d)) + Bit(Owed(d)') <= refs'[d]
    /\ Bit(dev'["hci"] = d /\ devh'["hci"]) + Bit(dev'["gsm"] = d /\ devh'["gsm"]) <= opens'[d]
    /\ d \notin failed' =>
         /\ refs'[d] = Entries(list', d) + (Bit(dev'["hci"] = d) + Bit(dev'["gsm"] = d))
                       + Bit(Owed(d)')
         /\ opens'[d] = Bit(dev'["hci"] = d /\ devh'["hci"]) + Bit(dev'["gsm"] = d /\ devh'["gsm"])
  PROVE  OnlyFailedInitsLeak'
<1>1. ASSUME NEW d \in Device
      PROVE  /\ (refs[d] >= Refs(d))' /\ (opens[d] >= Opens(d))'
             /\ d \notin failed' => (refs[d] = Refs(d))' /\ (opens[d] = Opens(d))'
  BY RefsWillBe
<1> QED BY <1>1 DEF OnlyFailedInitsLeak

LEMMA EntriesTailHere ==
  ASSUME TypeOK, list # <<>>, NEW d \in Device
  PROVE  /\ Entries(list, d) = Entries(Tail(list), d) + Bit(Head1[1] = d)
         /\ Entries(Tail(list), d) \in Nat
<1>1. list \in Seq(Notice)
  BY DEF TypeOK, Notice
<1>2. Tail(list) \in Seq(Notice)
  BY <1>1, HeadTailProperties
<1> QED BY <1>1, <1>2, EntriesTail, EntriesType DEF Head1, Bit

LEMMA ArrivedBalance == TypeOK /\ Drivers /\ OnlyFailedInitsLeak /\ Arrived => OnlyFailedInitsLeak'
<1> SUFFICES ASSUME TypeOK, Drivers, OnlyFailedInitsLeak, Arrived PROVE OnlyFailedInitsLeak'
  OBVIOUS
<1> DEFINE c == Head1[1]
           v == CHOOSE v \in Driver : c \in Listed(v)
<1>1. c \in Device /\ refs[c] > 0 /\ list # <<>>
  BY HeadHeld DEF Arrived, Notice
<1>2. v \in Driver /\ c \in Listed(v)
  BY <1>1, KnownBy
<1>3. /\ list' = Tail(list) /\ task.op \in {"drain", "asked"} /\ task' = [op |-> "drain"]
      /\ \/ Done(c) /\ UNCHANGED <<opens, drivers>>
         \/ ~online[v] /\ DeviceInit(v, c)
  BY DEF Arrived, Draining
<1>4. \A d \in Device : /\ Entries(list, d) = Entries(list', d) + Bit(c = d)
                        /\ Entries(list', d) \in Nat
  BY <1>1, <1>3, EntriesTailHere
<1>5. \A d : Owed(d)' <=> Owed(d)
  BY <1>3 DEF Owed
<1>6. /\ DOMAIN refs = Device /\ DOMAIN opens = Device
      /\ DOMAIN dev = Driver /\ DOMAIN devh = Driver /\ devh \in [Driver -> BOOLEAN]
  BY DEF TypeOK
<1> HIDE DEF c, v
<1>7. CASE Done(c) /\ UNCHANGED <<opens, drivers>>
  <2>1. ASSUME NEW d \in Device
        PROVE  /\ refs'[d] = refs[d] - Bit(c = d) /\ opens' = opens
               /\ dev' = dev /\ devh' = devh /\ failed' = failed
    BY <1>1, <1>6, <1>7, BalanceIs DEF Done, drivers, Bit
  <2> QED BY <1>4, <1>5, <2>1, BalanceIs, BalanceWillBe DEF Bit
<1>8. CASE ~online[v] /\ DeviceInit(v, c)
  <2>1. InitFails(v, c) \/ InitSucceeds(v, c) \/ InitUndone(v, c)
    BY <1>1, <1>2, <1>8, InitIs
  <2>2. /\ dev[v] = NoDevice \/ dev[v] \in failed
        /\ c # NoDevice /\ \A w \in Driver : dev[w] = c => w = v
    <3>1. \A w \in Driver : dev[w] \in Listed(w) \cup {NoDevice}
      BY DEF TypeOK
    <3> QED BY <1>1, <1>2, <1>8, <3>1, ListedOnce, DeviceAssumption DEF Drivers, Holding
  <2>3. CASE InitFails(v, c)
    <3>1. PICK o \in BOOLEAN :
            /\ devh' = [devh EXCEPT ![v] = o]
            /\ opens' = IF o THEN [opens EXCEPT ![c] = @ + 1] ELSE opens
      BY <2>3 DEF InitFails
    <3>2. /\ dev' = [dev EXCEPT ![v] = c] /\ refs' = refs /\ failed' = failed \cup {c}
      BY <2>3 DEF InitFails
    <3>3. ASSUME NEW d \in Device
          PROVE  opens'[d] = opens[d] + Bit(o /\ c = d)
      BY <1>6, <3>1, BalanceIs DEF Bit
    <3>4. ASSUME NEW d \in Device
          PROVE  /\ Bit(dev'["hci"] = d) + Bit(dev'["gsm"] = d)
                      <= Bit(dev["hci"] = d) + Bit(dev["gsm"] = d) + Bit(c = d)
                 /\ Bit(dev'["hci"] = d /\ devh'["hci"]) + Bit(dev'["gsm"] = d /\ devh'["gsm"])
                      <= Bit(dev["hci"] = d /\ devh["hci"]) + Bit(dev["gsm"] = d /\ devh["gsm"])
                         + Bit(o /\ c = d)
                 /\ d \notin failed' => c # d /\ dev[v] # d
                      /\ Bit(dev'["hci"] = d) = Bit(dev["hci"] = d)
                      /\ Bit(dev'["gsm"] = d) = Bit(dev["gsm"] = d)
                      /\ Bit(dev'["hci"] = d /\ devh'["hci"]) = Bit(dev["hci"] = d /\ devh["hci"])
                      /\ Bit(dev'["gsm"] = d /\ devh'["gsm"]) = Bit(dev["gsm"] = d /\ devh["gsm"])
      BY <1>2, <1>6, <2>2, <3>1, <3>2, DeviceAssumption DEF Bit, Driver
    <3> QED BY <1>4, <1>5, <3>2, <3>3, <3>4, BalanceIs, BalanceWillBe DEF Bit
  <2>4. CASE InitSucceeds(v, c)
    <3>1. /\ dev' = [dev EXCEPT ![v] = c] /\ devh' = [devh EXCEPT ![v] = TRUE]
          /\ refs' = refs /\ failed' = failed /\ opens' = [opens EXCEPT ![c] = @ + 1]
      BY <2>4 DEF InitSucceeds
    <3>2. ASSUME NEW d \in Device
          PROVE  opens'[d] = opens[d] + Bit(c = d)
      BY <1>6, <3>1, BalanceIs DEF Bit
    <3>3. ASSUME NEW d \in Device
          PROVE  /\ Bit(dev'["hci"] = d) + Bit(dev'["gsm"] = d)
                      <= Bit(dev["hci"] = d) + Bit(dev["gsm"] = d) + Bit(c = d)
                 /\ Bit(dev'["hci"] = d /\ devh'["hci"]) + Bit(dev'["gsm"] = d /\ devh'["gsm"])
                      <= Bit(dev["hci"] = d /\ devh["hci"]) + Bit(dev["gsm"] = d /\ devh["gsm"])
                         + Bit(c = d)
                 /\ d \notin failed =>
                      /\ Bit(dev'["hci"] = d) + Bit(dev'["gsm"] = d)
                           = Bit(dev["hci"] = d) + Bit(dev["gsm"] = d) + Bit(c = d)
                      /\ Bit(dev'["hci"] = d /\ devh'["hci"]) + Bit(dev'["gsm"] = d /\ devh'["gsm"])
                           = Bit(dev["hci"] = d /\ devh["hci"]) + Bit(dev["gsm"] = d /\ devh["gsm"])
                             + Bit(c = d)
      BY <1>2, <1>6, <2>2, <3>1, DeviceAssumption DEF Bit, Driver
    <3> QED BY <1>4, <1>5, <3>1, <3>2, <3>3, BalanceIs, BalanceWillBe DEF Bit
  <2>5. CASE InitUndone(v, c)
    <3>1. /\ dev' = [dev EXCEPT ![v] = NoDevice] /\ devh' = [devh EXCEPT ![v] = FALSE]
          /\ Done(c) /\ failed' = failed /\ opens' = opens
      BY <2>5 DEF InitUndone
    <3>2. ASSUME NEW d \in Device
          PROVE  refs'[d] = refs[d] - Bit(c = d)
      BY <1>6, <3>1, BalanceIs DEF Bit, Done
    <3>3. ASSUME NEW d \in Device
          PROVE  /\ Bit(dev'["hci"] = d) <= Bit(dev["hci"] = d)
                 /\ Bit(dev'["gsm"] = d) <= Bit(dev["gsm"] = d)
                 /\ Bit(dev'["hci"] = d /\ devh'["hci"]) <= Bit(dev["hci"] = d /\ devh["hci"])
                 /\ Bit(dev'["gsm"] = d /\ devh'["gsm"]) <= Bit(dev["gsm"] = d /\ devh["gsm"])
                 /\ d \notin failed =>
                      /\ Bit(dev'["hci"] = d) = Bit(dev["hci"] = d)
                      /\ Bit(dev'["gsm"] = d) = Bit(dev["gsm"] = d)
                      /\ Bit(dev'["hci"] = d /\ devh'["hci"]) = Bit(dev["hci"] = d /\ devh["hci"])
                      /\ Bit(dev'["gsm"] = d /\ devh'["gsm"]) = Bit(dev["gsm"] = d /\ devh["gsm"])
      BY <1>2, <1>6, <2>2, <3>1, DeviceAssumption DEF Bit, Driver
    <3> QED BY <1>4, <1>5, <3>1, <3>2, <3>3, BalanceIs, BalanceWillBe DEF Bit
  <2> QED BY <2>1, <2>3, <2>4, <2>5
<1> QED BY <1>3, <1>7, <1>8

LEMMA LeftBalance == TypeOK /\ OnlyFailedInitsLeak /\ Left => OnlyFailedInitsLeak'
<1> SUFFICES ASSUME TypeOK, OnlyFailedInitsLeak, Left PROVE OnlyFailedInitsLeak'
  OBVIOUS
<1> DEFINE c == Head1[1]
           v == CHOOSE v \in Driver : c \in Listed(v)
<1>1. c \in Device /\ list # <<>>
  BY HeadHeld DEF Left, Notice
<1>2. /\ list' = Tail(list) /\ UNCHANGED <<opens, drivers>> /\ task.op = "drain"
      /\ \/ task' = [op |-> "free", v |-> v, i |-> 1, why |-> c] /\ refs' = refs
         \/ Done(c) /\ task' = task
  BY DEF Left, Draining
<1>3. \A d \in Device : /\ Entries(list, d) = Entries(list', d) + Bit(c = d)
                        /\ Entries(list', d) \in Nat
  BY <1>1, <1>2, EntriesTailHere
<1>4. DOMAIN refs = Device
  BY DEF TypeOK
<1> HIDE DEF c, v
<1>5. ASSUME NEW d \in Device
      PROVE  /\ ~Owed(d)
             /\ \/ refs'[d] = refs[d] /\ Bit(Owed(d)') = Bit(c = d)
                \/ refs'[d] = refs[d] - Bit(c = d) /\ Bit(Owed(d)') = 0
             /\ opens' = opens /\ dev' = dev /\ devh' = devh /\ failed' = failed
  BY <1>1, <1>2, <1>4, BalanceIs DEF Owed, Done, drivers, Bit
<1> QED BY <1>3, <1>5, BalanceIs, BalanceWillBe DEF Bit

LEMMA GoneBalance == TypeOK /\ Drivers /\ OnlyFailedInitsLeak /\ DeviceGone => OnlyFailedInitsLeak'
<1> SUFFICES ASSUME TypeOK, Drivers, OnlyFailedInitsLeak, DeviceGone PROVE OnlyFailedInitsLeak'
  OBVIOUS
<1> DEFINE v == task.v
           c == dev[v]
<1>1. task \in Busy /\ v \in Driver /\ c \in Device /\ devh[v] /\ task.op \in {"free", "freeing"}
  <2>1. task \in Busy /\ c \in Device /\ online[v] /\ task.op \in {"free", "freeing"}
    BY DeviceHeld DEF DeviceGone, Freeing
  <2> QED BY <2>1 DEF Busy, Drivers, Holding
<1>2. /\ list' = list /\ failed' = failed
      /\ dev' = [dev EXCEPT ![v] = NoDevice] /\ devh' = [devh EXCEPT ![v] = FALSE]
      /\ opens' = [opens EXCEPT ![c] = @ - 1] /\ GiveBack(c, task.why)
  BY DEF DeviceGone
<1>3. /\ DOMAIN opens = Device /\ DOMAIN dev = Driver /\ DOMAIN devh = Driver
      /\ devh \in [Driver -> BOOLEAN]
      /\ \A w \in Driver : dev[w] = c => w = v
  <2>1. \A w \in Driver : dev[w] \in Listed(w) \cup {NoDevice}
    BY DEF TypeOK
  <2>2. \A w \in Driver : dev[w] = c => w = v
    BY <1>1, <2>1, ListedOnce, DeviceAssumption
  <2> QED BY <2>2 DEF TypeOK
<1>4. \A d \in Device : ~Owed(d)'
  <2>1. \/ task' \in {[op |-> "drain"], [op |-> "off"]}
        \/ task.why = NoDevice /\ task' = [task EXCEPT !.v = "gsm", !.i = 1]
    BY DEF DeviceGone
  <2>2. task' \in {[op |-> "drain"], [op |-> "off"]} \/ task'.why = NoDevice
    BY <1>1, <2>1 DEF Busy
  <2> QED BY <2>2, DeviceAssumption DEF Owed
<1>5. \A d \in Device : Owed(d) <=> task.why = d
  BY <1>1 DEF Owed
<1> HIDE DEF v, c
<1>6. ASSUME NEW d \in Device
      PROVE  /\ refs'[d] = refs[d] - Bit(d = c) - Bit(d = task.why)
             /\ opens'[d] = opens[d] - Bit(d = c)
  BY <1>2, <1>3, BalanceIs DEF GiveBack, Bit
<1>7. ASSUME NEW d \in Device
      PROVE  /\ Bit(dev["hci"] = d) + Bit(dev["gsm"] = d)
                  = Bit(dev'["hci"] = d) + Bit(dev'["gsm"] = d) + Bit(d = c)
             /\ Bit(dev["hci"] = d /\ devh["hci"]) + Bit(dev["gsm"] = d /\ devh["gsm"])
                  = Bit(dev'["hci"] = d /\ devh'["hci"]) + Bit(dev'["gsm"] = d /\ devh'["gsm"])
                    + Bit(d = c)
  <2>1. c = dev[v] /\ NoDevice # d
    BY DeviceAssumption DEF c
  <2> QED BY <1>1, <1>2, <1>3, <2>1 DEF Bit, Driver
<1> QED BY <1>2, <1>4, <1>5, <1>6, <1>7, BalanceIs, BalanceWillBe DEF Bit

LEMMA BalanceStep ==
  TypeOK /\ Drivers /\ OnlyFailedInitsLeak /\ [Next]_vars => OnlyFailedInitsLeak'
<1> SUFFICES ASSUME TypeOK, Drivers, OnlyFailedInitsLeak, [Next]_vars PROVE OnlyFailedInitsLeak'
  OBVIOUS
<1>1. CASE /\ UNCHANGED <<list, dev, devh, refs, opens, failed>>
           /\ \A d \in Device : Owed(d)' <=> Owed(d)
  BY <1>1, BalanceIs, BalanceWillBe DEF Bit
<1>2. CASE FdActivity \/ (\E v \in Driver : Submit(v)) \/ Ask \/ Cancel
  <2>1. PICK must \in SUBSET flights : StartRound(must)
    BY <1>2 DEF FdActivity, Submit, Ask, Cancel
  <2>2. list' = list \o notices /\ \A d \in Device : refs'[d] = refs[d] + Entries(notices, d)
    BY <2>1, RoundStarts
  <2>3. ASSUME NEW d \in Device
        PROVE  Entries(list', d) = Entries(list, d) + Entries(notices, d) /\ Entries(notices, d) \in Nat
    <3>1. list \in Seq(Notice) /\ notices \in Seq(Notice)
      BY DEF TypeOK, Notice
    <3> QED BY <2>2, <3>1, EntriesConcat, EntriesType
  <2>4. UNCHANGED <<dev, devh, opens, failed>>
    BY <1>2 DEF FdActivity, Submit, Ask, Cancel, drivers
  <2>5. \A d \in Device : Owed(d)' <=> Owed(d)
    <3>1. CASE Cancel
      BY <3>1, TaskIs DEF Cancel, Freeing, Owed, Busy
    <3>2. CASE ~Cancel
      BY <1>2, <3>2 DEF FdActivity, Submit, Ask, Draining, Owed, Idle
    <3> QED BY <3>1, <3>2
  <2>6. ASSUME NEW d \in Device
        PROVE  /\ refs'[d] = refs[d] + Entries(notices, d) /\ opens' = opens /\ failed' = failed
               /\ Entries(list', d) = Entries(list, d) + Entries(notices, d)
               /\ \A v \in Driver : Bit(dev'[v] = d) = Bit(dev[v] = d)
               /\ \A v \in Driver : Bit(dev'[v] = d /\ devh'[v]) = Bit(dev[v] = d /\ devh[v])
               /\ Bit(Owed(d)') = Bit(Owed(d)) /\ Bit(Owed(d)) \in Nat /\ Entries(notices, d) \in Nat
    BY <2>2, <2>3, <2>4, <2>5 DEF Bit
  <2>7. \A v \in Driver, d \in Device : Bit(dev[v] = d) \in Nat
    BY DEF Bit
  <2> QED BY <2>6, <2>7, BalanceIs, BalanceWillBe DEF Driver
<1>3. CASE FreeXfer
  <2>1. task \in Busy /\ task' = [task EXCEPT !.op = "free", !.i = @ + 1]
    BY <1>3, TaskIs DEF FreeXfer, Freeing
  <2>2. \A d \in Device : Owed(d)' <=> Owed(d)
    BY <2>1 DEF Owed, Busy
  <2> QED BY <1>1, <1>3, <2>2 DEF FreeXfer
<1>4. CASE Drained \/ Shutdown
  <2>1. \A d \in Device : ~Owed(d) /\ ~Owed(d)'
    BY <1>4, DeviceAssumption DEF Drained, Shutdown, Draining, Owed, Idle
  <2> QED BY <1>1, <1>4, <2>1 DEF Drained, Shutdown, libusb, drivers
<1>5. CASE UNCHANGED <<list, dev, devh, refs, opens, failed, task>>
  BY <1>1, <1>5 DEF Owed
<1>6. \/ Arrived \/ Left \/ DeviceGone \/ FreeXfer \/ Drained \/ Shutdown
      \/ FdActivity \/ (\E v \in Driver : Submit(v)) \/ Ask \/ Cancel
      \/ UNCHANGED <<list, dev, devh, refs, opens, failed, task>>
  BY DEF Next, Loop, Proceed, Complete, Plug, Unplug, Off, vars, libusb, drivers
<1> QED BY <1>2, <1>3, <1>4, <1>5, <1>6, ArrivedBalance, LeftBalance, GoneBalance

-----------------------------------------------------------------------------
(* Transfers. *)

LEMMA HealthyBefore ==
  ASSUME [Next]_vars, NEW v, Healthy(v)'
  PROVE  Healthy(v)
<1>1. failed \subseteq failed'
  BY DEF Next, Loop, Proceed, FdActivity, Complete, Ask, Arrived, Left, Drained, Cancel, FreeXfer, DeviceGone,
     Shutdown, Off, Submit, Plug, Unplug, vars, drivers, DeviceInit, FailsEarly, FailsLate, Succeeds,
     NoEndpoints, Failing
<1> QED BY <1>1 DEF Healthy

LEMMA FlightIs ==
  ASSUME TypeOK, NEW f \in flights
  PROVE  f = <<f[1], f[2]>> /\ f[1] \in Slot /\ f[1][1] \in Driver /\ f[2] \in Device
<1>1. f \in Slot \X Device
  BY DEF TypeOK
<1>2. f[1] \in Slot
  BY <1>1
<1> QED BY <1>1, <1>2, SlotsAre

(* A step that does not touch a transfer, or the deinit of its driver. *)
LEMMA OwnKept ==
  ASSUME NEW v \in Driver, NEW s, NEW d, Own(v, s, d),
         dev'[v] = dev[v], online'[v] = online[v], xfer'[s] = xfer[s],
         Canceled(s)' <=> Canceled(s), Canceled(s) => <<s, d>> \in round',
         Deinit(v)' => (Deinit(v) /\ task'.i = task.i) \/ task'.i = 1
  PROVE  Own(v, s, d)'
<1>1. \A i \in DOMAIN Xfers(v) : 1 <= i
  BY XfersAre
<1>2. Deinit(v)' => \A i \in DOMAIN Xfers(v) : Xfers(v)[i] = s[2] => task'.i <= i
  BY <1>1 DEF Own
<1> QED BY <1>2 DEF Own

LEMMA PlugTransfers ==
  TypeOK /\ Drivers /\ Transfers /\ (\E d \in Device : Plug(d) \/ Unplug(d)) => Transfers'
<1> SUFFICES ASSUME TypeOK, Drivers, Transfers, NEW d \in Device, Plug(d) \/ Unplug(d)
             PROVE  Transfers'
  OBVIOUS
<1>1. /\ UNCHANGED <<flights, freed, round, dev, devh, online, xfer, failed, refused, task>>
      /\ \/ conn' = [conn EXCEPT ![d] = "here"] /\ conn[d] = "new"
         \/ conn' = [conn EXCEPT ![d] = "gone"]
  BY DEF Plug, Unplug, drivers
<1>2. FlightsOwn' /\ FreeingOne' /\ FreedUnhealthy'
  BY <1>1 DEF Transfers, FlightsOwn, FreeingOne, FreedUnhealthy, Healthy, Own, Canceled, Deinit, At, More
<1>3. ASSUME NEW v \in Driver, online[v], conn'[dev[v]] = "here"
      PROVE  conn[dev[v]] = "here"
  <2>1. dev[v] \in Device /\ conn[dev[v]] # "new"
    BY <1>3 DEF Drivers, Holding
  <2> QED BY <1>1, <1>3, <2>1 DEF TypeOK
<1>4. ListensWhileOnline'
  BY <1>1, <1>3 DEF Transfers, ListensWhileOnline, Healthy
<1> QED BY <1>2, <1>4 DEF Transfers

(* Steps that are no part of a deinit. *)
LEMMA QuietTransfers ==
  ASSUME TypeOK, Transfers, UNCHANGED <<conn, flights, freed, drivers>>,
         \/ task' = task /\ round' = round
         \/ /\ task.op \notin {"free", "freeing"}
            /\ task'.op # "freeing" /\ (task'.op = "free" => task'.i = 1)
  PROVE  Transfers'
<1>1. UNCHANGED <<dev, devh, online, xfer, failed, refused>>
  BY DEF drivers
<1>2. ASSUME NEW v \in Driver, Healthy(v)', NEW f \in flights', f[1][1] = v
      PROVE  Own(v, f[1], f[2])'
  <2>1. Own(v, f[1], f[2])
    BY <1>1, <1>2 DEF Transfers, FlightsOwn, Healthy
  <2>2. CASE task' = task /\ round' = round
    BY <1>1, <2>1, <2>2 DEF Own, Canceled, Deinit, At
  <2>3. CASE /\ task.op \notin {"free", "freeing"}
             /\ task'.op # "freeing" /\ (task'.op = "free" => task'.i = 1)
    <3>1. ~Canceled(f[1]) /\ ~Canceled(f[1])' /\ (Deinit(v)' => task'.i = 1)
      BY <2>3 DEF Canceled, Deinit
    <3> QED BY <1>1, <2>1, <3>1, OwnKept
  <2> QED BY <2>2, <2>3
<1>3. FreeingOne'
  BY <1>1 DEF Transfers, FreeingOne, More, At
<1>4. FreedUnhealthy'
  BY <1>1 DEF Transfers, FreedUnhealthy, Healthy
<1>5. ListensWhileOnline'
  BY <1>1 DEF Transfers, ListensWhileOnline, Healthy
<1> QED BY <1>2, <1>3, <1>4, <1>5 DEF Transfers, FlightsOwn

LEMMA CancelTransfers == TypeOK /\ Transfers /\ Cancel => Transfers'
<1> SUFFICES ASSUME TypeOK, Transfers, Cancel PROVE Transfers'
  OBVIOUS
<1>1. /\ task \in Busy /\ At \in Slot /\ At[1] = task.v /\ task.op = "free" /\ More
  BY AtIs DEF Cancel, Freeing
<1>2. /\ task' = [task EXCEPT !.op = "freeing"] /\ xfer' = [xfer EXCEPT ![At].active = FALSE]
      /\ UNCHANGED <<conn, flights, freed, dev, devh, online, failed, refused>>
  BY DEF Cancel
<1>3. /\ task'.op = "freeing" /\ task'.v = task.v /\ task'.i = task.i
  BY <1>1, <1>2 DEF Busy
<1>4. At' = At /\ More'
  BY <1>1, <1>3 DEF At, More
<1>5. \A f \in flights : f = <<At, dev[task.v]>> => f \in round'
  BY RoundStarts DEF Cancel
<1>6. xfer'[At].active = FALSE /\ xfer'[At].alloc = xfer[At].alloc
      /\ \A s \in Slot : s # At => xfer'[s] = xfer[s]
  BY <1>1, <1>2 DEF TypeOK, XferState
<1>7. ASSUME NEW v \in Driver, Healthy(v)', NEW f \in flights', f[1][1] = v
      PROVE  Own(v, f[1], f[2])'
  <2>1. Own(v, f[1], f[2]) /\ f = <<f[1], f[2]>> /\ f[1] \in Slot
    BY <1>2, <1>7, FlightIs DEF Transfers, FlightsOwn, Healthy
  <2>2. ~Canceled(f[1]) /\ (Canceled(f[1])' <=> f[1] = At) /\ (Deinit(v)' <=> Deinit(v))
    BY <1>1, <1>3, <1>4 DEF Canceled, Deinit
  <2>3. CASE f[1] = At
    <3>1. v = task.v /\ f \in round'
      BY <1>1, <1>2, <1>5, <1>7, <2>1, <2>3 DEF Own
    <3> QED BY <1>2, <1>3, <1>6, <2>1, <2>2, <2>3, <3>1 DEF Own
  <2>4. CASE f[1] # At
    BY <1>2, <1>3, <1>6, <2>1, <2>2, <2>4, OwnKept
  <2> QED BY <2>3, <2>4
<1>8. FreeingOne'
  BY <1>4, <1>6 DEF FreeingOne
<1>9. FreedUnhealthy'
  BY <1>2 DEF Transfers, FreedUnhealthy, Healthy
<1>10. ListensWhileOnline'
  BY <1>1, <1>2, <1>3, <1>6 DEF Transfers, ListensWhileOnline, Healthy
<1> QED BY <1>7, <1>8, <1>9, <1>10 DEF Transfers, FlightsOwn

LEMMA CompleteTransfers ==
  TypeOK /\ Drivers /\ Transfers /\ (\E f \in flights : Complete(f)) => Transfers'
<1> SUFFICES ASSUME TypeOK, Drivers, Transfers, NEW g \in flights, Complete(g) PROVE Transfers'
  OBVIOUS
<1>1. PICK again \in BOOLEAN :
        /\ again => xfer[g[1]].active
        /\ round' = round \ {g} /\ flights' = (IF again THEN flights ELSE flights \ {g})
        /\ xfer' = [xfer EXCEPT ![g[1]].active = again] /\ freed' = freed \cap flights'
        /\ refused' = IF xfer[g[1]].active /\ ~again /\ conn[g[2]] = "here"
                      THEN refused \cup {g} ELSE refused
        /\ UNCHANGED <<conn, task, dev, devh, online, failed>>
  BY DEF Complete
<1>2. g = <<g[1], g[2]>> /\ g[1] \in Slot /\ g[1][1] \in Driver
  BY FlightIs
<1>3. /\ xfer'[g[1]].active = again /\ xfer'[g[1]].alloc = xfer[g[1]].alloc
      /\ \A s \in Slot : s # g[1] => xfer'[s] = xfer[s]
  BY <1>1, <1>2 DEF TypeOK, XferState
<1>4. \A v : Healthy(v)' <=> Healthy(v)
  BY <1>1 DEF Healthy
<1>5. ASSUME NEW v \in Driver, Healthy(v), NEW f \in flights, f[1][1] = v, f # g
      PROVE  f[1] # g[1]
  <2>1. Own(v, f[1], f[2]) /\ f = <<f[1], f[2]>>
    BY <1>5, FlightIs DEF Transfers, FlightsOwn
  <2>2. g[1][1] = v => Own(v, g[1], g[2])
    BY <1>5 DEF Transfers, FlightsOwn
  <2> QED BY <1>2, <1>5, <2>1, <2>2 DEF Own
<1>6. ASSUME NEW v \in Driver, Healthy(v)', NEW f \in flights', f[1][1] = v
      PROVE  Own(v, f[1], f[2])'
  <2>1. f \in flights /\ Healthy(v)
    BY <1>1, <1>4, <1>6
  <2>2. Own(v, f[1], f[2]) /\ f = <<f[1], f[2]>> /\ f[1] \in Slot
    BY <1>6, <2>1, FlightIs DEF Transfers, FlightsOwn
  <2>3. /\ Canceled(f[1])' <=> Canceled(f[1])
        /\ Deinit(v)' <=> Deinit(v)
    BY <1>1 DEF Canceled, Deinit, At
  <2>4. CASE f = g
    <3>1. again
      BY <1>1, <1>6, <2>4
    <3>2. xfer[f[1]].active /\ ~Canceled(f[1])
      BY <1>1, <2>4, <3>1 DEF Canceled, Transfers, FreeingOne
    <3> QED BY <1>1, <1>3, <2>2, <2>3, <2>4, <3>1, <3>2 DEF Own
  <2>5. CASE f # g
    <3>1. f[1] # g[1]
      BY <1>5, <1>6, <2>1, <2>5
    <3>2. Canceled(f[1]) => <<f[1], f[2]>> \in round'
      BY <1>1, <2>2, <2>5 DEF Own
    <3> QED BY <1>1, <1>3, <2>2, <2>3, <3>1, <3>2, OwnKept
  <2> QED BY <2>4, <2>5
<1>7. FreeingOne'
  <2> SUFFICES ASSUME task.op = "freeing" PROVE More' /\ ~xfer'[At'].active
    BY <1>1 DEF FreeingOne
  <2>1. More /\ ~xfer[At].active /\ At' = At /\ More'
    BY <1>1 DEF Transfers, FreeingOne, More, At
  <2>2. At \in Slot
    BY <2>1, AtIs
  <2>3. At = g[1] => ~again
    BY <1>1, <2>1
  <2> QED BY <1>3, <2>1, <2>2, <2>3
<1>8. FreedUnhealthy'
  BY <1>1, <1>4 DEF Transfers, FreedUnhealthy
<1>9. ASSUME NEW v \in Driver, online'[v], Healthy(v)', conn'[dev'[v]] = "here",
             ~(task'.op \in {"free", "freeing"} /\ task'.v = v),
             NEW s \in Slot, s[1] = v, s[2] \in Inward
      PROVE  (xfer'[s].active /\ <<s, dev'[v]>> \in flights') \/ <<s, dev'[v]>> \in refused'
  <2>1. (xfer[s].active /\ <<s, dev[v]>> \in flights) \/ <<s, dev[v]>> \in refused
    BY <1>1, <1>4, <1>9 DEF Transfers, ListensWhileOnline
  <2>2. CASE <<s, dev[v]>> \in refused
    BY <1>1, <2>2
  <2>3. CASE s = g[1] /\ xfer[s].active /\ <<s, dev[v]>> \in flights
    <3>1. g = <<s, dev[v]>>
      BY <1>2, <1>4, <1>9, <2>3 DEF Transfers, FlightsOwn, Own
    <3>2. conn[g[2]] = "here"
      BY <1>1, <1>9, <3>1
    <3>3. CASE again
      BY <1>1, <1>3, <2>3, <3>3
    <3>4. CASE ~again
      BY <1>1, <2>3, <3>1, <3>2, <3>4
    <3> QED BY <3>3, <3>4
  <2>4. CASE s # g[1] /\ xfer[s].active /\ <<s, dev[v]>> \in flights
    <3>1. <<s, dev[v]>> # g
      BY <2>4
    <3> QED BY <1>1, <1>3, <2>4, <3>1
  <2> QED BY <2>1, <2>2, <2>3, <2>4
<1>10. ListensWhileOnline'
  BY <1>9 DEF ListensWhileOnline
<1> QED BY <1>6, <1>7, <1>8, <1>10 DEF Transfers, FlightsOwn

(* The wrapper that is freed has no transfer in flight. *)
LEMMA FreeTransfers == TypeOK /\ Transfers /\ FreeXfer => Transfers'
<1> SUFFICES ASSUME TypeOK, Transfers, FreeXfer PROVE Transfers'
  OBVIOUS
<1> DEFINE u == task.v
<1>1. /\ task \in Busy /\ At \in Slot /\ At[1] = u /\ At[2] = Xfers(u)[task.i] /\ u \in Driver
      /\ task.i \in 1..Len(Xfers(u)) /\ round = {}
  BY AtIs DEF FreeXfer, Freeing, Busy
<1>2. /\ task.op = "freeing" \/ ~xfer[At].alloc \/ ~xfer[At].active \/ At[2] \notin Inward
      /\ xfer' = [xfer EXCEPT ![At].alloc = FALSE] /\ task' = [task EXCEPT !.op = "free", !.i = @ + 1]
      /\ UNCHANGED <<conn, flights, round, dev, devh, online, failed, refused>>
      /\ freed' = freed \cup (IF xfer[At].alloc THEN {f \in flights : f = <<At, dev[u]>>} ELSE {})
  BY DEF FreeXfer
<1>3. /\ task'.op = "free" /\ task'.v = u /\ task'.i = task.i + 1
  BY <1>1, <1>2 DEF Busy
<1>4. \A s \in Slot : /\ s # At => xfer'[s] = xfer[s]
                      /\ xfer'[s].active = xfer[s].active
  BY <1>1, <1>2 DEF TypeOK, XferState
<1>5. ASSUME Healthy(u), NEW f \in flights, f[1] = At
      PROVE  FALSE
  <2>1. Own(u, At, f[2])
    BY <1>1, <1>5 DEF Transfers, FlightsOwn
  <2>2. CASE task.op = "freeing"
    BY <1>1, <2>1, <2>2 DEF Own, Canceled
  <2>3. CASE task.op # "freeing"
    BY <1>2, <2>1, <2>3 DEF Own, Canceled
  <2> QED BY <2>2, <2>3
<1> HIDE DEF u
<1>6. ASSUME NEW v \in Driver, Healthy(v)', NEW f \in flights', f[1][1] = v
      PROVE  Own(v, f[1], f[2])'
  <2>1. f \in flights /\ Healthy(v) /\ f[1] \in Slot
    BY <1>2, <1>6, FlightIs DEF Healthy
  <2>2. Own(v, f[1], f[2])
    BY <1>6, <2>1 DEF Transfers, FlightsOwn
  <2>3. f[1] # At
    BY <1>1, <1>5, <1>6, <2>1
  <2>4. ~Canceled(f[1]) /\ ~Canceled(f[1])'
    BY <1>3, <2>3 DEF Canceled
  <2>5. ASSUME Deinit(v)', NEW i \in DOMAIN Xfers(v), Xfers(v)[i] = f[1][2]
        PROVE  task'.i <= i
    <3>1. v = u /\ task.op \in {"free", "freeing"}
      BY <1>1, <1>3, <2>5 DEF Deinit, Busy
    <3>2. task.i <= i /\ i \in 1..Len(Xfers(v))
      BY <2>2, <2>5, <3>1, XfersAre DEF Own, Deinit, u
    <3>3. i # task.i
      <4>1. PICK j \in 1..Len(Xfers(v)) : f[1] = <<v, Xfers(v)[j]>>
        BY <1>6, <2>1, SlotsAre
      <4>2. At = <<u, Xfers(u)[task.i]>>
        BY DEF At, u
      <4> QED BY <2>3, <2>5, <3>1, <4>1, <4>2
    <3> QED BY <1>1, <1>3, <3>2, <3>3, XfersAre
  <2> QED BY <1>2, <1>4, <2>1, <2>2, <2>3, <2>4, <2>5 DEF Own
<1>7. FreeingOne'
  BY <1>3 DEF FreeingOne
<1>8. FreedUnhealthy'
  <2> SUFFICES ASSUME NEW f \in freed', Healthy(f[1][1])' PROVE FALSE
    BY DEF FreedUnhealthy
  <2>1. Healthy(f[1][1])
    BY <1>2 DEF Healthy
  <2>2. CASE f \in freed
    BY <2>1, <2>2 DEF Transfers, FreedUnhealthy
  <2>3. CASE f \in flights /\ f[1] = At
    BY <1>1, <1>5, <2>1, <2>3
  <2> QED BY <1>2, <2>2, <2>3
<1>9. ASSUME NEW v \in Driver, online'[v], Healthy(v)', conn'[dev'[v]] = "here",
             ~(task'.op \in {"free", "freeing"} /\ task'.v = v),
             NEW s \in Slot, s[1] = v, s[2] \in Inward
      PROVE  (xfer'[s].active /\ <<s, dev'[v]>> \in flights') \/ <<s, dev'[v]>> \in refused'
  <2>1. ~(task.op \in {"free", "freeing"} /\ task.v = v) /\ Healthy(v)
    BY <1>2, <1>3, <1>9 DEF u, Healthy
  <2> QED BY <1>2, <1>4, <1>9, <2>1 DEF Transfers, ListensWhileOnline
<1>10. ListensWhileOnline'
  BY <1>9 DEF ListensWhileOnline
<1> QED BY <1>6, <1>7, <1>8, <1>10 DEF Transfers, FlightsOwn

LEMMA ArrivedTransfers ==
  TypeOK /\ Drivers /\ OnlyFailedInitsLeak /\ Transfers /\ Arrived => Transfers'
<1> SUFFICES ASSUME TypeOK, Drivers, OnlyFailedInitsLeak, Transfers, Arrived PROVE Transfers'
  OBVIOUS
<1>1. Head1[1] \in Device
  BY HeadHeld DEF Arrived, Notice
<1>2. PICK d \in Device, v \in Driver :
        /\ d = Head1[1] /\ v = CHOOSE u \in Driver : d \in Listed(u)
        /\ d \in Listed(v)
  BY <1>1, KnownBy
<1>3. /\ UNCHANGED <<conn, freed, round, refused>> /\ task.op \in {"drain", "asked"}
      /\ task' = [op |-> "drain"]
      /\ \/ UNCHANGED <<flights, drivers>>
         \/ ~online[v] /\ DeviceInit(v, d)
  BY <1>2 DEF Arrived, Draining
<1>4. CASE UNCHANGED <<flights, drivers>>
  BY <1>3, <1>4, QuietTransfers
<1>5. CASE ~online[v] /\ DeviceInit(v, d)
  <2>1. /\ InitFails(v, d) \/ InitSucceeds(v, d) \/ InitUndone(v, d)
        /\ \A s \in Slot : s[1] # v => xfer'[s] = xfer[s]
        /\ flights \subseteq flights' /\ flights' \subseteq Slot \X Device
        /\ \A f \in flights' : f \in flights \/ f[1][1] = v
    BY <1>1, <1>2, <1>5, InitIs
  <2>2. \A w : Healthy(w)' => Healthy(w)
    BY <2>1 DEF InitFails, InitSucceeds, InitUndone, Healthy
  <2>3. \A w \in Driver : w # v => dev'[w] = dev[w] /\ online'[w] = online[w]
    BY <1>2, <2>1 DEF InitFails, InitSucceeds, InitUndone, TypeOK
  <2>4. \A s : ~Canceled(s) /\ ~Canceled(s)'
    BY <1>3 DEF Canceled
  <2>5. \A w : ~Deinit(w)'
    BY <1>3 DEF Deinit
  <2>6. Healthy(v) => \A f \in flights : f[1][1] # v
    BY <1>2, <1>5 DEF Transfers, FlightsOwn, Own
  <2>7. ~(Healthy(v)' /\ InitFails(v, d))
    <3>1. Healthy(v)' => d \notin failed'
      BY <1>2 DEF Healthy
    <3>2. InitFails(v, d) => d \in failed'
      BY DEF InitFails
    <3> QED BY <3>1, <3>2
  <2>8. ASSUME NEW w \in Driver, Healthy(w)', NEW f \in flights', f[1][1] = w
        PROVE  Own(w, f[1], f[2])'
    <3>1. f[1] \in Slot
      BY <2>1
    <3>2. CASE w # v
      <4>1. Own(w, f[1], f[2])
        BY <2>1, <2>2, <2>8, <3>2 DEF Transfers, FlightsOwn
      <4> QED BY <2>1, <2>3, <2>4, <2>5, <2>8, <3>1, <3>2, <4>1, OwnKept
    <3>3. CASE w = v
      <4>0. Healthy(v)' /\ Healthy(v)
        BY <2>2, <2>8, <3>3
      <4>1. InitSucceeds(v, d)
        <5>1. f \notin flights
          BY <2>6, <2>8, <3>3, <4>0
        <5>2. ~InitUndone(v, d)
          BY <5>1 DEF InitUndone
        <5> QED BY <2>1, <2>7, <4>0, <5>2
      <4>2. f[1][2] \in Inward /\ f[2] = d
        BY <2>6, <2>8, <3>3, <4>0, <4>1 DEF InitSucceeds
      <4>3. xfer'[f[1]].alloc /\ xfer'[f[1]].active
        <5>1. xfer'[f[1]] = [alloc |-> TRUE, active |-> TRUE]
          BY <2>8, <3>1, <3>3, <4>1, <4>2 DEF InitSucceeds
        <5> QED BY <5>1
      <4>4. dev'[v] = d /\ online'[v]
        BY <1>2, <4>1 DEF InitSucceeds, TypeOK
      <4> QED BY <2>4, <2>5, <3>3, <4>2, <4>3, <4>4 DEF Own
    <3> QED BY <3>2, <3>3
  <2>9. FreeingOne'
    BY <1>3 DEF FreeingOne
  <2>10. FreedUnhealthy'
    BY <1>3, <2>2 DEF Transfers, FreedUnhealthy
  <2>11. ASSUME NEW w \in Driver, online'[w], Healthy(w)', conn'[dev'[w]] = "here",
                NEW s \in Slot, s[1] = w, s[2] \in Inward
         PROVE  (xfer'[s].active /\ <<s, dev'[w]>> \in flights') \/ <<s, dev'[w]>> \in refused'
    <3>1. CASE w # v
      <4>1. (xfer[s].active /\ <<s, dev[w]>> \in flights) \/ <<s, dev[w]>> \in refused
        BY <1>3, <2>2, <2>3, <2>11, <3>1 DEF Transfers, ListensWhileOnline
      <4> QED BY <1>3, <2>1, <2>3, <2>11, <3>1, <4>1
    <3>2. CASE w = v
      <4>0. Healthy(v)' /\ online'[v]
        BY <2>11, <3>2
      <4>1. InitSucceeds(v, d)
        <5>1. ~InitUndone(v, d)
          BY <1>5, <4>0 DEF InitUndone
        <5> QED BY <2>1, <2>7, <4>0, <5>1
      <4>2. dev'[v] = d
        BY <1>2, <4>1 DEF InitSucceeds, TypeOK
      <4>3. xfer'[s] = [alloc |-> TRUE, active |-> TRUE] /\ <<s, d>> \in flights'
        BY <2>11, <3>2, <4>1 DEF InitSucceeds
      <4> QED BY <3>2, <4>2, <4>3
    <3> QED BY <3>1, <3>2
  <2>12. ListensWhileOnline'
    BY <2>11 DEF ListensWhileOnline
  <2> QED BY <2>8, <2>9, <2>10, <2>12 DEF Transfers, FlightsOwn
<1> QED BY <1>3, <1>4, <1>5

(* When a deinit lets its device go, none of its transfers is in flight. *)
LEMMA GoneTransfers == TypeOK /\ Transfers /\ DeviceGone => Transfers'
<1> SUFFICES ASSUME TypeOK, Transfers, DeviceGone PROVE Transfers'
  OBVIOUS
<1> DEFINE u == task.v
<1>1. task \in Busy /\ u \in Driver /\ task.op = "free" /\ ~More /\ task.i \in 1..5
  <2>1. task \in Busy /\ task.op \in {"free", "freeing"} /\ ~More
    BY TaskIs DEF DeviceGone, Freeing
  <2>2. task.op # "freeing"
    BY <2>1 DEF Transfers, FreeingOne
  <2> QED BY <2>1, <2>2 DEF Busy
<1>2. UNCHANGED <<conn, flights, freed, round, xfer, failed, refused>>
  BY DEF DeviceGone
<1>3. /\ ~online'[u]
      /\ \A w \in Driver : w # u => dev'[w] = dev[w] /\ online'[w] = online[w]
  BY <1>1 DEF DeviceGone, TypeOK
<1>4. \/ task' \in {[op |-> "drain"], [op |-> "off"]}
      \/ task'.op = "free" /\ task'.i = 1
  <2>1. \/ task' \in {[op |-> "drain"], [op |-> "off"]}
        \/ task' = [task EXCEPT !.v = "gsm", !.i = 1]
    BY DEF DeviceGone
  <2> QED BY <1>1, <2>1 DEF Busy
<1>5. \A w : Healthy(w)' <=> Healthy(w)
  BY <1>2 DEF Healthy
<1>6. ASSUME Healthy(u), NEW f \in flights, f[1][1] = u
      PROVE  FALSE
  <2>1. PICK i \in 1..Len(Xfers(u)) : f[1] = <<u, Xfers(u)[i]>>
    BY <1>6, FlightIs, SlotsAre
  <2>2. Own(u, f[1], f[2])
    BY <1>1, <1>6 DEF Transfers, FlightsOwn
  <2>3. i \in DOMAIN Xfers(u) /\ Xfers(u)[i] = f[1][2]
    BY <1>1, <2>1, XfersAre
  <2>4. Deinit(u)
    BY <1>1 DEF Deinit
  <2>5. task.i <= i
    BY <2>2, <2>3, <2>4 DEF Own
  <2> QED BY <1>1, <2>1, <2>5, XfersAre DEF More
<1> HIDE DEF u
<1>7. ASSUME NEW w \in Driver, Healthy(w)', NEW f \in flights', f[1][1] = w
      PROVE  Own(w, f[1], f[2])'
  <2>1. Own(w, f[1], f[2]) /\ w # u
    BY <1>2, <1>5, <1>6, <1>7 DEF Transfers, FlightsOwn
  <2>2. ~Canceled(f[1]) /\ ~Canceled(f[1])' /\ (Deinit(w)' => task'.i = 1)
    BY <1>1, <1>4 DEF Canceled, Deinit
  <2> QED BY <1>2, <1>3, <2>1, <2>2, OwnKept
<1>8. FreeingOne'
  BY <1>4 DEF FreeingOne
<1>9. FreedUnhealthy'
  BY <1>2, <1>5 DEF Transfers, FreedUnhealthy
<1>10. ASSUME NEW w \in Driver, online'[w], Healthy(w)', conn'[dev'[w]] = "here",
              NEW s \in Slot, s[1] = w, s[2] \in Inward
       PROVE  (xfer'[s].active /\ <<s, dev'[w]>> \in flights') \/ <<s, dev'[w]>> \in refused'
  <2>1. w # u /\ dev'[w] = dev[w] /\ online[w] /\ Healthy(w) /\ task.v # w
    BY <1>3, <1>5, <1>10 DEF u
  <2> QED BY <1>2, <1>10, <2>1 DEF Transfers, ListensWhileOnline
<1>11. ListensWhileOnline'
  BY <1>10 DEF ListensWhileOnline
<1> QED BY <1>7, <1>8, <1>9, <1>11 DEF Transfers, FlightsOwn

LEMMA TransfersStep ==
  TypeOK /\ Drivers /\ OnlyFailedInitsLeak /\ Transfers /\ [Next]_vars => Transfers'
<1> SUFFICES ASSUME TypeOK, Drivers, OnlyFailedInitsLeak, Transfers, [Next]_vars PROVE Transfers'
  OBVIOUS
<1>1. CASE FdActivity \/ (\E v \in Driver : Submit(v)) \/ Ask
  <2>1. /\ UNCHANGED <<conn, flights, freed, drivers>>
        /\ task = Idle \/ task.op = "drain"
        /\ task' \in {Idle, [op |-> "drain"], [op |-> "asked"]}
    BY <1>1 DEF FdActivity, Submit, Ask, Draining
  <2>2. /\ task.op \notin {"free", "freeing"}
        /\ task'.op # "freeing" /\ task'.op # "free"
    BY <2>1 DEF Idle
  <2> QED BY <2>1, <2>2, QuietTransfers
<1>2. CASE Left
  <2>1. UNCHANGED <<conn, flights, freed, round, drivers>> /\ task.op = "drain"
    BY <1>2 DEF Left, Draining
  <2>2. task' = task \/ (task'.op = "free" /\ task'.i = 1)
    BY <1>2 DEF Left
  <2> QED BY <2>1, <2>2, QuietTransfers
<1>3. CASE Drained \/ Shutdown
  <2>1. UNCHANGED <<conn, flights, freed, drivers>> /\ task.op \in {"drain", "idle"}
    BY <1>3 DEF Drained, Shutdown, Draining, libusb, Idle
  <2>2. task'.op \in {"idle", "off"} \/ (task'.op = "free" /\ task'.i = 1)
    BY <1>3 DEF Drained, Shutdown, Idle
  <2> QED BY <2>1, <2>2, QuietTransfers
<1>4. CASE UNCHANGED vars
  BY <1>4, QuietTransfers DEF vars, libusb
<1> QED BY <1>1, <1>2, <1>3, <1>4, PlugTransfers, CompleteTransfers, CancelTransfers, FreeTransfers,
        ArrivedTransfers, GoneTransfers DEF Next, Loop, Proceed, Off

-----------------------------------------------------------------------------
(* No ghosts. *)

LEMMA AppendSet ==
  ASSUME NEW T, NEW s \in Seq(T), NEW e \in T
  PROVE  ToSet(Append(s, e)) = ToSet(s) \cup {e}
<1> DEFINE t == Append(s, e)
<1>1. /\ Len(s) \in Nat /\ t \in Seq(T) /\ DOMAIN s = 1..Len(s) /\ DOMAIN t = 1..(Len(s) + 1)
      /\ \A i \in 1..Len(s) : t[i] = s[i]
      /\ t[Len(s) + 1] = e
  BY AppendProperties, LenProperties
<1>2. \A i \in DOMAIN t : i \in DOMAIN s \/ i = Len(s) + 1
  BY <1>1
<1>3. \A i \in DOMAIN s : i \in DOMAIN t /\ t[i] = s[i]
  BY <1>1
<1>4. Len(s) + 1 \in DOMAIN t
  BY <1>1
<1> HIDE DEF t
<1>5. ToSet(t) \subseteq ToSet(s) \cup {e}
  BY <1>1, <1>2, <1>3 DEF ToSet
<1>6. ToSet(s) \cup {e} \subseteq ToSet(t)
  BY <1>1, <1>3, <1>4 DEF ToSet
<1> QED BY <1>5, <1>6 DEF t

LEMMA ConcatSet ==
  ASSUME NEW T, NEW s \in Seq(T), NEW t \in Seq(T)
  PROVE  ToSet(s) \cup ToSet(t) \subseteq ToSet(s \o t)
<1> DEFINE n == Len(s)
<1>1. /\ n \in Nat /\ Len(t) \in Nat /\ DOMAIN s = 1..n /\ DOMAIN t = 1..Len(t)
      /\ DOMAIN (s \o t) = 1..(n + Len(t))
      /\ \A i \in 1..(n + Len(t)) : (s \o t)[i] = IF i <= n THEN s[i] ELSE t[i - n]
  BY LenProperties, ConcatProperties
<1> HIDE DEF n
<1>2. \A i \in DOMAIN s : i \in DOMAIN (s \o t) /\ (s \o t)[i] = s[i]
  BY <1>1
<1>3. ASSUME NEW i \in DOMAIN t PROVE n + i \in DOMAIN (s \o t) /\ (s \o t)[n + i] = t[i]
  <2>1. i \in 1..Len(t) /\ n + i \in 1..(n + Len(t)) /\ ~(n + i <= n) /\ (n + i) - n = i
    BY <1>1
  <2>2. (s \o t)[n + i] = t[(n + i) - n]
    BY <1>1, <2>1
  <2> QED BY <1>1, <2>1, <2>2
<1> QED BY <1>2, <1>3 DEF ToSet

LEMMA TailSet ==
  ASSUME NEW T, NEW s \in Seq(T), s # <<>>
  PROVE  ToSet(s) = {Head(s)} \cup ToSet(Tail(s))
<1>1. /\ Tail(s) \in Seq(T) /\ Len(s) \in Nat \ {0} /\ s[1] = Head(s) /\ DOMAIN s = 1..Len(s)
      /\ DOMAIN Tail(s) = 1..(Len(s) - 1) /\ \A i \in 1..(Len(s) - 1) : Tail(s)[i] = s[i + 1]
  BY HeadTailProperties, EmptySeq, LenProperties
<1>2. \A i \in DOMAIN Tail(s) : i + 1 \in DOMAIN s /\ Tail(s)[i] = s[i + 1]
  BY <1>1
<1>3. ASSUME NEW i \in DOMAIN s PROVE i = 1 \/ (i - 1 \in DOMAIN Tail(s) /\ Tail(s)[i - 1] = s[i])
  <2>1. i \in 1..Len(s)
    BY <1>1
  <2>2. CASE i # 1
    <3>1. i - 1 \in 1..(Len(s) - 1) /\ (i - 1) + 1 = i
      BY <1>1, <2>1, <2>2
    <3> QED BY <1>1, <3>1
  <2> QED BY <2>2
<1>4. 1 \in DOMAIN s
  BY <1>1
<1>5. ToSet(s) \subseteq {Head(s)} \cup ToSet(Tail(s))
  BY <1>1, <1>3 DEF ToSet
<1>6. {Head(s)} \cup ToSet(Tail(s)) \subseteq ToSet(s)
  BY <1>1, <1>2, <1>4 DEF ToSet
<1> QED BY <1>5, <1>6

(* Word of a departure is not lost until it is worked off. *)
LEMMA ToldStep ==
  ASSUME TypeOK, [Next]_vars, NEW d \in Device, Told(d)
  PROVE  Told(d)' \/ (Left /\ Head1[1] = d)
<1> DEFINE e == <<d, FALSE>>
<1>1. notices \in Seq(Notice) /\ list \in Seq(Notice) /\ (e \in ToSet(notices) \/ e \in ToSet(list))
  BY DEF TypeOK, Notice, Told
<1>2. CASE UNCHANGED <<notices, list>>
  BY <1>2 DEF Told
<1>3. CASE \E c \in Device : Plug(c) \/ Unplug(c)
  <2>1. PICK n \in Notice : notices' = Append(notices, n) /\ list' = list
    BY <1>3 DEF Plug, Unplug, Notice
  <2> QED BY <1>1, <2>1, AppendSet DEF Told
<1>4. CASE notices' = <<>> /\ list' = list \o notices
  <2>1. ToSet(list) \cup ToSet(notices) \subseteq ToSet(list')
    BY <1>1, <1>4, ConcatSet
  <2>2. Told(d)' <=> e \in ToSet(notices') \/ e \in ToSet(list')
    BY DEF Told
  <2> QED BY <1>1, <2>1, <2>2
<1>5. CASE (Arrived \/ Left) /\ notices' = notices /\ list # <<>> /\ list' = Tail(list)
  <2>1. ToSet(list) = {Head1} \cup ToSet(Tail(list))
    BY <1>1, <1>5, TailSet DEF Head1
  <2>2. Head1 = e => Left /\ Head1[1] = d
    BY <1>5 DEF Arrived
  <2>3. Told(d)' <=> e \in ToSet(notices') \/ e \in ToSet(list')
    BY DEF Told
  <2> QED BY <1>1, <1>5, <2>1, <2>2, <2>3
<1>6. \/ UNCHANGED <<notices, list>>
      \/ \E c \in Device : Plug(c) \/ Unplug(c)
      \/ notices' = <<>> /\ list' = list \o notices
      \/ (Arrived \/ Left) /\ notices' = notices /\ list # <<>> /\ list' = Tail(list)
  BY DEF Next, Loop, Proceed, FdActivity, Complete, Ask, Arrived, Left, Drained, Cancel, FreeXfer, DeviceGone,
     Shutdown, Off, Submit, StartRound, vars, libusb
<1> QED BY <1>2, <1>3, <1>4, <1>5, <1>6

(* A driver is told, and then lets go, of the device it is online with. *)
LettingGo(v) == \/ Deinit(v) \/ task.op = "off"
                \/ task.op \in {"free", "freeing"} /\ task.why = NoDevice
LEMMA GhostIs == NoGhost <=> \A v \in Driver :
  online[v] /\ conn[dev[v]] = "gone" => Told(dev[v]) \/ LettingGo(v)
BY DEF NoGhost, LettingGo

LEMMA GhostWillBe == NoGhost' <=> \A v \in Driver :
  online'[v] /\ conn'[dev'[v]] = "gone" => Told(dev[v])' \/ LettingGo(v)'
BY DEF NoGhost, LettingGo

(* A step in which nothing leaves, no driver gets a device, and no deinit   *)
(* is given up. *)
LEMMA QuietGhosts ==
  ASSUME TypeOK, Drivers, NoGhost, [Next]_vars, conn' = conn,
         NEW v \in Driver, online'[v], conn'[dev'[v]] = "gone",
         online[v], dev'[v] = dev[v], LettingGo(v) => LettingGo(v)', ~(Left /\ Head1[1] = dev[v])
  PROVE  Told(dev[v])' \/ LettingGo(v)'
<1>1. dev[v] \in Device
  BY DEF Drivers, Holding
<1>2. PICK d \in Device : d = dev[v]
  BY <1>1
<1>3. Told(d) \/ LettingGo(v)
  BY <1>2, GhostIs
<1>4. Told(d) => Told(d)'
  BY <1>2, ToldStep
<1> QED BY <1>2, <1>3, <1>4 DEF Told

LEMMA UnplugGhosts ==
  TypeOK /\ Drivers /\ NoGhost /\ (\E d \in Device : Plug(d) \/ Unplug(d)) => NoGhost'
<1> SUFFICES ASSUME TypeOK, Drivers, NoGhost, NEW d \in Device, Plug(d) \/ Unplug(d) PROVE NoGhost'
  OBVIOUS
<1>1. [Next]_vars /\ UNCHANGED <<drivers, task>>
  BY DEF Next, Plug, Unplug
<1>2. \A v : LettingGo(v)' <=> LettingGo(v)
  BY <1>1 DEF LettingGo, Deinit
<1>3. notices \in Seq(Notice)
  BY DEF TypeOK, Notice
<1>4. ASSUME NEW v \in Driver, online'[v], conn'[dev'[v]] = "gone"
      PROVE  Told(dev[v])' \/ LettingGo(v)'
  <2>1. online[v] /\ dev'[v] = dev[v]
    BY <1>1, <1>4 DEF drivers
  <2>2. PICK c \in Device : c = dev[v]
    BY <2>1 DEF Drivers, Holding
  <2>3. CASE conn[c] = "gone"
    <3>1. Told(c) \/ LettingGo(v)
      BY <2>1, <2>2, <2>3, GhostIs
    <3>2. ~Left
      BY DEF Left, Plug, Unplug, TypeOK
    <3>3. Told(c) => Told(c)'
      BY <1>1, <3>2, ToldStep
    <3> QED BY <1>2, <2>1, <2>2, <3>1, <3>3 DEF Told
  <2>4. CASE conn[c] # "gone"
    <3>1. c = d /\ Unplug(d)
      BY <1>4, <2>1, <2>2, <2>4 DEF Plug, Unplug, TypeOK
    <3>2. notices' = Append(notices, <<c, FALSE>>) /\ <<c, FALSE>> \in Notice
      BY <3>1 DEF Unplug, Notice
    <3>3. <<c, FALSE>> \in ToSet(notices')
      BY <1>3, <3>2, AppendSet
    <3> QED BY <2>1, <2>2, <3>3 DEF Told
  <2> QED BY <2>3, <2>4
<1> QED BY <1>4, GhostWillBe

(* An init that succeeds is of a device that is there. *)
LEMMA ArrivedGhosts ==
  TypeOK /\ Drivers /\ OnlyFailedInitsLeak /\ NoGhost /\ Arrived => NoGhost'
<1> SUFFICES ASSUME TypeOK, Drivers, OnlyFailedInitsLeak, NoGhost, Arrived PROVE NoGhost'
  OBVIOUS
<1>1. Head1[1] \in Device
  BY HeadHeld DEF Arrived, Notice
<1>2. PICK d \in Device, u \in Driver :
        /\ d = Head1[1] /\ u = CHOOSE w \in Driver : d \in Listed(w)
        /\ d \in Listed(u)
  BY <1>1, KnownBy
<1>3. /\ conn' = conn /\ task.op \in {"drain", "asked"} /\ [Next]_vars
      /\ \/ UNCHANGED drivers
         \/ ~online[u] /\ DeviceInit(u, d)
  BY <1>2 DEF Arrived, Draining, Next, Loop, Proceed
<1>4. \A v : LettingGo(v) => LettingGo(v)'
  BY <1>3 DEF LettingGo, Deinit
<1>5. ~Left
  BY DEF Arrived, Left
<1>6. ASSUME NEW v \in Driver, online'[v], conn'[dev'[v]] = "gone"
      PROVE  Told(dev[v])' \/ LettingGo(v)'
  <2>1. CASE online[v] /\ dev'[v] = dev[v]
    BY <1>3, <1>4, <1>5, <1>6, <2>1, QuietGhosts
  <2>2. CASE ~(online[v] /\ dev'[v] = dev[v])
    <3>1. ~online[u] /\ DeviceInit(u, d)
      BY <1>3, <1>6, <2>2 DEF drivers
    <3>2. InitFails(u, d) \/ InitSucceeds(u, d) \/ InitUndone(u, d)
      BY <3>1, InitIs
    <3>3. \A w \in Driver : w # u => dev'[w] = dev[w] /\ online'[w] = online[w]
      BY <1>2, <3>2 DEF InitFails, InitSucceeds, InitUndone, TypeOK
    <3>4. v = u
      BY <1>6, <2>2, <3>3
    <3>5. InitSucceeds(u, d)
      BY <1>6, <3>1, <3>2, <3>4 DEF InitFails, InitUndone
    <3>6. dev'[u] = d /\ conn[d] = "here"
      BY <3>5 DEF InitSucceeds, TypeOK
    <3> QED BY <1>3, <1>6, <3>4, <3>6
  <2> QED BY <2>1, <2>2
<1> QED BY <1>6, GhostWillBe

(* What leaves is let go of by the driver that is online with it. *)
LEMMA LeftGhosts ==
  TypeOK /\ Drivers /\ OnlyFailedInitsLeak /\ NoGhost /\ Left => NoGhost'
<1> SUFFICES ASSUME TypeOK, Drivers, OnlyFailedInitsLeak, NoGhost, Left PROVE NoGhost'
  OBVIOUS
<1>1. Head1[1] \in Device
  BY HeadHeld DEF Left, Notice
<1>2. PICK d \in Device, u \in Driver :
        /\ d = Head1[1] /\ u = CHOOSE w \in Driver : d \in Listed(w)
        /\ d \in Listed(u)
  BY <1>1, KnownBy
<1>3. /\ UNCHANGED <<conn, drivers>> /\ task.op = "drain" /\ [Next]_vars
      /\ IF dev[u] = d /\ online[u]
         THEN task' = [op |-> "free", v |-> u, i |-> 1, why |-> d]
         ELSE task' = task
  BY <1>2 DEF Left, Draining, Next, Loop, Proceed
<1>4. \A v : ~LettingGo(v)
  BY <1>3 DEF LettingGo, Deinit
<1>5. ASSUME NEW v \in Driver, online'[v], conn'[dev'[v]] = "gone"
      PROVE  Told(dev[v])' \/ LettingGo(v)'
  <2>1. online[v] /\ dev'[v] = dev[v]
    BY <1>3, <1>5 DEF drivers
  <2>2. CASE dev[v] # d
    BY <1>2, <1>3, <1>4, <1>5, <2>1, <2>2, QuietGhosts
  <2>3. CASE dev[v] = d
    <3>1. dev[v] \in Listed(v)
      BY <1>2, <2>3, DeviceAssumption DEF TypeOK
    <3>2. v = u
      BY <1>2, <2>3, <3>1, ListedOnce
    <3>3. task' = [op |-> "free", v |-> v, i |-> 1, why |-> d]
      BY <1>3, <2>1, <2>3, <3>2
    <3> QED BY <3>3 DEF LettingGo, Deinit
  <2> QED BY <2>2, <2>3
<1> QED BY <1>5, GhostWillBe

(* The end of a deinit, which is followed by the other driver's at shutdown. *)
LEMMA GoneGhosts ==
  TypeOK /\ Drivers /\ NoGhost /\ DeviceGone => NoGhost'
<1> SUFFICES ASSUME TypeOK, Drivers, NoGhost, DeviceGone PROVE NoGhost'
  OBVIOUS
<1>1. task \in Busy /\ task.v \in Driver /\ task.op \in {"free", "freeing"}
  BY TaskIs DEF DeviceGone, Freeing, Busy
<1>2. /\ conn' = conn /\ [Next]_vars /\ ~online'[task.v] /\ ~Left
      /\ \A w \in Driver : w # task.v => dev'[w] = dev[w] /\ online'[w] = online[w]
  <2>1. conn' = conn /\ [Next]_vars
    BY DEF DeviceGone, Next, Loop, Proceed
  <2>2. ~Left
    BY <1>1 DEF Left, Draining
  <2> QED BY <1>1, <2>1, <2>2 DEF DeviceGone, TypeOK
<1>3. ASSUME NEW v \in Driver, online'[v], conn'[dev'[v]] = "gone"
      PROVE  Told(dev[v])' \/ LettingGo(v)'
  <2>1. v # task.v /\ online[v] /\ dev'[v] = dev[v]
    BY <1>2, <1>3
  <2>2. LettingGo(v) => LettingGo(v)'
    <3> SUFFICES ASSUME LettingGo(v) PROVE LettingGo(v)'
      OBVIOUS
    <3>1. task.why = NoDevice
      BY <1>1, <2>1 DEF LettingGo, Deinit
    <3>2. CASE task.v = "hci" /\ online["gsm"]
      <4>1. task' = [task EXCEPT !.v = "gsm", !.i = 1]
        BY <3>1, <3>2 DEF DeviceGone
      <4>2. task'.op \in {"free", "freeing"} /\ task'.why = NoDevice
        BY <1>1, <3>1, <4>1 DEF Busy
      <4> QED BY <4>2 DEF LettingGo
    <3>3. CASE ~(task.v = "hci" /\ online["gsm"])
      <4>1. task' = [op |-> "off"]
        BY <3>1, <3>3 DEF DeviceGone
      <4> QED BY <4>1 DEF LettingGo
    <3> QED BY <3>2, <3>3
  <2> QED BY <1>2, <1>3, <2>1, <2>2, QuietGhosts
<1> QED BY <1>3, GhostWillBe

LEMMA GhostStep ==
  TypeOK /\ Drivers /\ OnlyFailedInitsLeak /\ NoGhost /\ [Next]_vars => NoGhost'
<1> SUFFICES ASSUME TypeOK, Drivers, OnlyFailedInitsLeak, NoGhost, [Next]_vars PROVE NoGhost'
  OBVIOUS
<1>1. CASE ~ \/ \E d \in Device : Plug(d) \/ Unplug(d)
             \/ Arrived \/ Left \/ DeviceGone
  <2>1. /\ UNCHANGED <<conn, dev, online>>
        /\ \/ task' = task
           \/ task = Idle
           \/ task.op = "drain"
           \/ /\ task.op \in {"free", "freeing"} /\ task'.op \in {"free", "freeing"}
              /\ task'.v = task.v /\ task'.why = task.why
    <3>1. CASE FdActivity \/ Ask \/ Shutdown \/ Drained \/ Off \/ (\E v \in Driver : Submit(v))
      BY <3>1 DEF FdActivity, Ask, Shutdown, Drained, Off, Submit, Draining, drivers, vars
    <3>2. CASE (\E f \in flights : Complete(f)) \/ UNCHANGED vars
      BY <3>2 DEF Complete, vars, drivers
    <3>3. CASE Cancel \/ FreeXfer
      <4>1. task \in Busy /\ UNCHANGED <<conn, dev, online>>
        BY <3>3, TaskIs DEF Cancel, FreeXfer, Freeing
      <4>2. \/ task' = [task EXCEPT !.op = "freeing"]
            \/ task' = [task EXCEPT !.op = "free", !.i = @ + 1]
        BY <3>3 DEF Cancel, FreeXfer
      <4> QED BY <4>1, <4>2 DEF Busy
    <3> QED BY <1>1, <3>1, <3>2, <3>3 DEF Next, Loop, Proceed
  <2>2. ASSUME NEW v \in Driver, LettingGo(v) PROVE LettingGo(v)'
    BY <2>1, <2>2 DEF LettingGo, Deinit, Idle
  <2>3. ASSUME NEW v \in Driver, online'[v], conn'[dev'[v]] = "gone"
        PROVE  Told(dev[v])' \/ LettingGo(v)'
    BY <1>1, <2>1, <2>2, <2>3, QuietGhosts
  <2> QED BY <2>3, GhostWillBe
<1> QED BY <1>1, UnplugGhosts, ArrivedGhosts, LeftGhosts, GoneGhosts

-----------------------------------------------------------------------------
(* The devices that are there at the start are each announced once. *)
LEMMA EnumeratedOnce ==
  ASSUME NEW S \in SUBSET Device, NEW s \in SetToSeqs(S),
         NEW l \in [DOMAIN s -> Notice], \A i \in DOMAIN s : l[i] = <<s[i], TRUE>>
  PROVE  /\ l \in Seq(Notice)
         /\ \A i \in DOMAIN l : l[i][1] \in S
         /\ \A d \in Device : Entries(l, d) = IF d \in S THEN 1 ELSE 0
<1> DEFINE n == Cardinality(S)
<1>1. IsFiniteSet(S) /\ n \in Nat
  BY DeviceAssumption, FS_Subset, FS_CardinalityType
<1>2. s \in [1..n -> S] /\ \A i, j \in 1..n : s[i] = s[j] => i = j
  BY DEF SetToSeqs
<1> HIDE DEF n
<1>3. DOMAIN s = 1..n
  BY <1>2
<1>4. l \in [1..n -> Notice]
  BY <1>3
<1>5. l \in Seq(Notice)
  BY <1>1, <1>4
<1>6. ASSUME NEW i \in 1..n PROVE l[i][1] = s[i] /\ s[i] \in S
  <2>1. s[i] \in S
    BY <1>2
  <2>2. l[i] = <<s[i], TRUE>>
    BY <1>3
  <2> QED BY <2>1, <2>2
<1>7. \A x \in S : \E i \in 1..n : s[i] = x
  <2>1. IsFiniteSet(1..n) /\ Cardinality(1..n) = n
    BY <1>1, FS_Interval
  <2>2. s \in Injection(1..n, S)
    BY <1>2 DEF Injection, IsInjective
  <2>3. s \in Surjection(1..n, S)
    BY <1>1, <2>1, <2>2, FS_Injection DEF n
  <2> QED BY <2>3 DEF Surjection
<1>8. ASSUME NEW d \in Device PROVE Entries(l, d) = IF d \in S THEN 1 ELSE 0
  <2> DEFINE P == {i \in DOMAIN l : l[i][1] = d}
  <2>1. DOMAIN l = 1..n
    BY <1>4
  <2>2. P = {i \in 1..n : s[i] = d}
    BY <1>6, <2>1
  <2>3. CASE d \in S
    <3>1. PICK i \in 1..n : s[i] = d
      BY <1>7, <2>3
    <3>2. P = {i}
      BY <1>2, <2>2, <3>1
    <3> QED BY <2>3, <3>2, FS_Singleton DEF Entries
  <2>4. CASE d \notin S
    <3>1. P = {}
      BY <1>6, <2>2, <2>4
    <3> QED BY <2>4, <3>1, FS_EmptySet DEF Entries
  <2> QED BY <2>3, <2>4
<1>9. \A i \in DOMAIN l : l[i][1] \in S
  BY <1>4, <1>6
<1> QED BY <1>5, <1>8, <1>9

LEMMA InitSound == Init => Sound
<1> SUFFICES ASSUME Init PROVE Sound
  OBVIOUS
<1>1. PICK present \in SUBSET Device :
        /\ conn = [d \in Device |-> IF d \in present THEN "here" ELSE "new"]
        /\ refs = [d \in Device |-> IF d \in present THEN 1 ELSE 0]
        /\ \E s \in SetToSeqs(present) : list = [i \in DOMAIN s |-> <<s[i], TRUE>>]
  BY DEF Init
<1>2. /\ list \in Seq(Notice) /\ \A i \in DOMAIN list : list[i][1] \in present
      /\ \A d \in Device : Entries(list, d) = IF d \in present THEN 1 ELSE 0
  <2>1. PICK s \in SetToSeqs(present) : list = [i \in DOMAIN s |-> <<s[i], TRUE>>]
    BY <1>1
  <2>2. s \in [1..Cardinality(present) -> present]
    BY DEF SetToSeqs
  <2>3. DOMAIN s = 1..Cardinality(present) /\ \A i \in DOMAIN s : s[i] \in Device
    BY <2>2
  <2> DEFINE l == [i \in DOMAIN s |-> <<s[i], TRUE>>]
  <2>4. l \in [DOMAIN s -> Notice] /\ \A i \in DOMAIN s : l[i] = <<s[i], TRUE>>
    BY <2>3 DEF Notice
  <2>5. list = l
    BY <2>1
  <2> HIDE DEF l
  <2>6. l \in Seq(Notice)
    BY <2>4, EnumeratedOnce
  <2>7. \A i \in DOMAIN l : l[i][1] \in present
    BY <2>4, EnumeratedOnce
  <2>8. ASSUME NEW d \in Device PROVE Entries(l, d) = IF d \in present THEN 1 ELSE 0
    BY <2>4, EnumeratedOnce
  <2> QED BY <2>5, <2>6, <2>7, <2>8
<1>3. /\ notices = <<>> /\ opens = [d \in Device |-> 0]
      /\ dev = [v \in Driver |-> NoDevice] /\ devh = [v \in Driver |-> FALSE]
      /\ online = [v \in Driver |-> FALSE] /\ xfer = [x \in Slot |-> NoXfer]
      /\ flights = {} /\ freed = {} /\ round = {} /\ task = Idle /\ failed = {} /\ refused = {}
  BY DEF Init
<1>4. TypeOK
  <2>1. conn \in [Device -> {"new", "here", "gone"}] /\ refs \in [Device -> Nat]
    BY <1>1
  <2>2. notices \in Seq(Notice) /\ opens \in [Device -> Nat]
    BY <1>3
  <2> QED BY <1>2, <1>3, <2>1, <2>2 DEF TypeOK, Notice, NoXfer, Task
<1>5. Drivers
  <2>1. Holding /\ DeinitsOnline
    BY <1>3, DeviceAssumption DEF Holding, DeinitsOnline, Deinit, Idle
  <2>2. Announced(notices)
    BY <1>3 DEF Announced
  <2>3. Announced(list)
    BY <1>1, <1>2 DEF Announced
  <2> QED BY <2>1, <2>2, <2>3 DEF Drivers
<1>6. OnlyFailedInitsLeak
  <2>1. ASSUME NEW d \in Device PROVE refs[d] = Refs(d) /\ opens[d] = Opens(d)
    <3>1. dev["hci"] # d /\ dev["gsm"] # d /\ ~Owed(d)
      BY <1>3, DeviceAssumption DEF Driver, Owed, Idle
    <3>2. Refs(d) = refs[d] + (0 + 0) + 0 /\ Opens(d) = 0 + 0 /\ refs[d] \in {0, 1}
      BY <1>1, <1>2, <3>1, RefsAre DEF Bit
    <3> QED BY <1>3, <3>2
  <2>2. \A d \in Device : refs[d] \in Nat /\ opens[d] \in Nat
    BY <1>4 DEF TypeOK
  <2> QED BY <2>1, <2>2 DEF OnlyFailedInitsLeak
<1>7. Transfers
  BY <1>3 DEF Transfers, FlightsOwn, FreeingOne, FreedUnhealthy, ListensWhileOnline, Idle
<1>8. NoGhost
  BY <1>3 DEF NoGhost
<1> QED BY <1>4, <1>5, <1>6, <1>7, <1>8 DEF Sound

LEMMA AlwaysSound == SafeSpec => []Sound
<1>1. Sound /\ [Next]_vars => Sound'
  BY TypeStep, DriversStep, BalanceStep, TransfersStep, GhostStep DEF Sound
<1> QED BY <1>1, InitSound, PTL DEF SafeSpec

-----------------------------------------------------------------------------
(* The references and handles that the program holds of a device are those  *)
(* that a list entry, a driver or the deinit under way will give back: only *)
(* the failures that usb_device_init() and its callers leave half-way leak. *)
THEOREM ReferencesBalance == SafeSpec => []OnlyFailedInitsLeak
<1>1. Sound => OnlyFailedInitsLeak
  BY DEF Sound
<1> QED BY <1>1, AlwaysSound, PTL

(* usb_transfer_deinit() frees no transfer that libusb still has: the       *)
(* cancelled one has ended in the round that it waits for.  The counts of   *)
(* references and handles never go below zero (TypeOK). *)
THEOREM TransfersEndFirst == SafeSpec => []NothingFreedInFlight
<1>1. Sound => NothingFreedInFlight
  BY DEF Sound, Transfers, FreedUnhealthy, NothingFreedInFlight
<1> QED BY <1>1, AlwaysSound, PTL

(* Each inward transfer of a driver that is online is in flight, on the     *)
(* device that the driver holds: on_transfer_complete() submits it again,   *)
(* whichever round it completes in.  The only ones that are not are those   *)
(* that libusb has refused to take again. *)
THEOREM OnlineListens == SafeSpec => []ListensWhileOnline
<1>1. Sound => ListensWhileOnline
  BY DEF Sound, Transfers
<1> QED BY <1>1, AlwaysSound, PTL

(* A driver that is online with a device pulled out has been told, or is    *)
(* letting go of it: once the notices and the list are empty, there is none. *)
THEOREM GhostsLeave == SafeSpec => []NoGhostDevice
<1>1. Sound => NoGhostDevice
  <2> SUFFICES ASSUME Sound, task = Idle, notices = <<>>, list = <<>>,
                      NEW v \in Driver, online[v]
               PROVE  conn[dev[v]] = "here"
    BY DEF NoGhostDevice
  <2>1. dev[v] \in Device /\ conn[dev[v]] # "new"
    BY DEF Sound, Drivers, Holding
  <2>2. conn[dev[v]] \in {"new", "here", "gone"}
    BY <2>1 DEF Sound, TypeOK
  <2>3. ~Told(dev[v])
    BY DEF Told, ToSet
  <2>4. ~LettingGo(v)
    BY DEF LettingGo, Deinit, Idle
  <2>5. conn[dev[v]] # "gone"
    BY <2>3, <2>4, GhostIs DEF Sound
  <2> QED BY <2>1, <2>2, <2>5
<1> QED BY <1>1, AlwaysSound, PTL
=============================================================================
