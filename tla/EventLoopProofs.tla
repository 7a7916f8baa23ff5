-------------------------- MODULE EventLoopProofs ---------------------------
(***************************************************************************)
(* Type correctness of EventLoop, the consistency of its poll table and    *)
(* what a full table costs: for tables and descriptor limits of any size,  *)
(* any number of handles and passes nested to any depth.                   *)
(***************************************************************************)
EXTENDS EventLoop, FiniteSetTheorems, SequenceTheorems, TLAPS

-----------------------------------------------------------------------------
(* Sets of numbers have a least element.  (The induction behind it is that  *)
(* of StrictSubsetOrdering, which takes no operator as a parameter.) *)

LEMMA Minimum ==
  ASSUME NEW S \in SUBSET Nat, S # {}
  PROVE  \E m \in S : \A n \in S : m <= n
<1> DEFINE Below == {1..n : n \in S}
           R == StrictSubsetOrdering(Nat)
<1>1. Below \subseteq FiniteSubsetsOf(Nat) /\ Below # {}
  <2>1. \A n \in S : IsFiniteSet(1..n) /\ 1..n \in SUBSET Nat
    BY FS_Interval
  <2> QED BY <2>1 DEF FiniteSubsetsOf
<1>2. \E x \in Below : \A y \in Below : <<y, x>> \notin R
  <2>1. IsWellFoundedOn(R, FiniteSubsetsOf(Nat))
    BY FS_StrictSubsetOrderingWellFounded
  <2> HIDE DEF Below, R
  <2> QED BY <1>1, <2>1, WFMin
<1>3. PICK m \in S : \A n \in S : <<1..n, 1..m>> \notin R
  BY <1>2
<1>4. ASSUME NEW n \in S, n < m PROVE FALSE
  <2>1. 1..n \subseteq 1..m /\ m \in 1..m /\ m \notin 1..n
    BY <1>4
  <2>2. <<1..n, 1..m>> \in R
    BY <2>1 DEF StrictSubsetOrdering
  <2> QED BY <1>3, <2>2
<1> QED BY <1>3, <1>4

LEMMA FirstIsLeast ==
  ASSUME NEW S \in SUBSET Nat, S # {}
  PROVE  FirstOf(S) \in S /\ \A j \in S : FirstOf(S) <= j
BY Minimum DEF FirstOf

(* What the loop of io_dereg_handle() leaves of the table. *)
LEMMA WithoutEntry ==
  ASSUME NEW T, NEW s \in Seq(T), NEW i \in 1..Len(s)
  PROVE  /\ Without(s, i) \in Seq(T)
         /\ Len(Without(s, i)) = Len(s) - 1
         /\ \A j \in 1..(Len(s) - 1) : Without(s, i)[j] = IF j < i THEN s[j] ELSE s[j + 1]
<1>1. Len(s) \in Nat /\ Len(s) - 1 \in Nat /\ \A j \in 1..Len(s) : s[j] \in T
  BY LenProperties, ElementOfSeq
<1>2. \A j \in 1..(Len(s) - 1) : (IF j < i THEN s[j] ELSE s[j + 1]) \in T
  <2> SUFFICES ASSUME NEW j \in 1..(Len(s) - 1)
               PROVE  (IF j < i THEN s[j] ELSE s[j + 1]) \in T
    OBVIOUS
  <2>1. j \in 1..Len(s) /\ j + 1 \in 1..Len(s)
    BY <1>1
  <2> QED BY <2>1, <1>1
<1> QED BY <1>1, <1>2 DEF Without

-----------------------------------------------------------------------------
(* The constants, and the numbers that are free. *)

LEMMA Numbers ==
  /\ MaxFd \in Nat /\ MaxFd > 0 /\ Limit \in Nat /\ MaxFd <= Limit
  /\ Room \subseteq Fd /\ Fd \subseteq Nat /\ IsFiniteSet(Fd)
  /\ MaxDepth \in Nat
  /\ UsbHandle \in Owner /\ NoHandle \notin Owner /\ NoHandle \notin Call
  /\ CallHandle \subseteq Owner /\ UsbHandle \notin CallHandle
<1>1. MaxFd \in Nat /\ MaxFd > 0 /\ Limit \in Nat /\ MaxFd <= Limit /\ MaxDepth \in Nat
  BY SizeAssumption, BoundAssumption
<1>2. Room \subseteq Fd /\ Fd \subseteq Nat
  BY <1>1 DEF Room, Fd
<1>3. IsFiniteSet(Fd)
  BY <1>1, FS_Interval DEF Fd
<1> QED BY <1>1, <1>2, <1>3, HandleAssumption DEF Owner

(* The number the kernel gives is open nowhere, and every lower one is. *)
LEMMA LowestFree ==
  ASSUME NEW S \in SUBSET Fd, S # {}
  PROVE  FirstOf(S) \in S /\ FirstOf(S) \in Fd /\ \A j \in S : FirstOf(S) <= j
<1>1. S \in SUBSET Nat
  BY Numbers
<1> QED BY <1>1, FirstIsLeast

LEMMA FreeIsClosed ==
  ASSUME NEW f \in FreeFds
  PROVE  /\ f \in Fd /\ f \notin leaked
         /\ \A h \in Owner : f \notin fds[h]
         /\ \A c \in Call : f \notin stdin[c]
         /\ \A i \in 1..Len(held) : held[i] # f
         /\ \A i \in 1..Len(due) : due[i][2] # f
<1>1. f \in Fd /\ f \notin InUse
  BY DEF FreeFds
<1>2. /\ f \notin Owned /\ f \notin StdinFds /\ f \notin leaked
      /\ f \notin HeldFds /\ f \notin DueFds
  BY <1>1 DEF InUse
<1>3. \A h \in Owner : f \notin fds[h]
  BY <1>2 DEF Owned
<1>4. \A c \in Call : f \notin stdin[c]
  BY <1>2 DEF StdinFds
<1>5. \A i \in 1..Len(held) : held[i] # f
  BY <1>2 DEF HeldFds
<1>6. \A i \in 1..Len(due) : due[i][2] # f
  BY <1>2 DEF DueFds
<1> QED BY <1>1, <1>2, <1>3, <1>4, <1>5, <1>6

(* An entry of the table is a descriptor of the table. *)
LEMMA IndexIsPosition ==
  ASSUME TypeOK, NEW f
  PROVE  /\ Index(f) \in SUBSET Nat
         /\ Index(f) # {} => /\ FirstOf(Index(f)) \in 1..Len(pollfds)
                             /\ pollfds[FirstOf(Index(f))] = f /\ f \in Room
<1>1. Len(pollfds) \in Nat /\ \A i \in 1..Len(pollfds) : pollfds[i] \in Room
  BY LenProperties, ElementOfSeq DEF TypeOK
<1>2. Index(f) \in SUBSET Nat /\ Index(f) \subseteq 1..Len(pollfds)
  BY <1>1 DEF Index
<1>3. Index(f) # {} => FirstOf(Index(f)) \in Index(f)
  BY <1>2, FirstIsLeast
<1> QED BY <1>1, <1>2, <1>3 DEF Index

-----------------------------------------------------------------------------
(* Types. *)

LEMMA RegisterType ==
  ASSUME TypeOK, NEW h \in Owner, NEW f \in Fd, Register(h, f)
  PROVE  /\ pollfds' \in Seq(Room)
         /\ handles' \in [Room -> Owner \cup {NoHandle}]
         /\ maxfd' \in -1..(MaxFd - 1)
         /\ overrun' \in BOOLEAN
<1>1. CASE f \in Room /\ handles[f] = NoHandle
  <2>1. pollfds' \in Seq(Room) /\ overrun' \in BOOLEAN
    <3>1. pollfds \in Seq(Room) /\ pollfds' = Append(pollfds, f)
      BY <1>1 DEF Register, TypeOK
    <3>2. pollfds' \in Seq(Room)
      BY <1>1, <3>1, AppendProperties
    <3>3. overrun' \in BOOLEAN
      BY <1>1 DEF Register, TypeOK
    <3> QED BY <3>2, <3>3
  <2>2. handles' \in [Room -> Owner \cup {NoHandle}]
    BY <1>1 DEF Register, TypeOK
  <2>3. maxfd' \in -1..(MaxFd - 1)
    BY <1>1, Numbers DEF Register, TypeOK, Room
  <2> QED BY <2>1, <2>2, <2>3
<1>2. CASE ~(f \in Room /\ handles[f] = NoHandle)
  BY <1>2 DEF Register, TypeOK
<1> QED BY <1>1, <1>2

LEMMA DeregisterType ==
  ASSUME TypeOK, NEW f, Deregister(f)
  PROVE  /\ pollfds' \in Seq(Room)
         /\ handles' \in [Room -> Owner \cup {NoHandle}]
         /\ maxfd' \in -1..(MaxFd - 1)
         /\ overrun' = overrun
<1>1. CASE Index(f) = {}
  BY <1>1 DEF Deregister, TypeOK, table
<1>2. CASE Index(f) # {}
  <2>1. FirstOf(Index(f)) \in 1..Len(pollfds) /\ f \in Room
    BY <1>2, IndexIsPosition
  <2>2. pollfds' \in Seq(Room)
    BY <1>2, <2>1, WithoutEntry DEF Deregister, TypeOK
  <2>3. handles' \in [Room -> Owner \cup {NoHandle}] /\ overrun' = overrun
    BY <1>2, <2>1 DEF Deregister, TypeOK
  <2>4. maxfd' \in -1..(MaxFd - 1)
    BY <1>2, <2>1, Numbers DEF Deregister, TypeOK, Room
  <2> QED BY <2>2, <2>3, <2>4
<1> QED BY <1>1, <1>2

(* A handle that gets a descriptor has none, unless it is that of libusb. *)
LEMMA OwnedType ==
  ASSUME TypeOK, NEW h \in Owner, NEW f \in Fd, h # UsbHandle => fds[h] = {},
         fds' = [fds EXCEPT ![h] = @ \cup {f}]
  PROVE  fds' \in [Owner -> SUBSET Fd] /\ \A g \in Owner \ {UsbHandle} : Cardinality(fds'[g]) <= 1
<1>1. fds' \in [Owner -> SUBSET Fd]
  BY DEF TypeOK
<1>2. ASSUME NEW g \in Owner \ {UsbHandle} PROVE Cardinality(fds'[g]) <= 1
  <2>1. CASE g = h
    <3>1. fds'[g] = {f}
      BY <2>1 DEF TypeOK
    <3>2. Cardinality({f}) = 1
      BY FS_Singleton
    <3> QED BY <3>1, <3>2
  <2>2. CASE g # h
    BY <2>2 DEF TypeOK
  <2> QED BY <2>1, <2>2
<1> QED BY <1>1, <1>2

LEMMA TypeInit == Init => TypeOK
<1> SUFFICES ASSUME Init PROVE TypeOK
  OBVIOUS
<1>1. \A h \in Owner \ {UsbHandle} : Cardinality(fds[h]) <= 1
  <2>1. \A h \in Owner : fds[h] = {}
    BY DEF Init
  <2> QED BY <2>1, FS_EmptySet
<1>2. fds \in [Owner -> SUBSET Fd] /\ stdin \in [Call -> SUBSET Fd]
  BY DEF Init
<1>3. 0 \in -1..(MaxFd - 1)
  BY Numbers
<1>4. handles \in [Room -> Owner \cup {NoHandle}]
  BY DEF Init
<1>5. /\ pollfds \in Seq(Room) /\ passes \in Seq(Pass)
      /\ held \in Seq(Fd) /\ due \in Seq(CallHandle \X Fd)
  BY EmptySeq DEF Init
<1> QED BY <1>1, <1>2, <1>3, <1>4, <1>5 DEF Init, TypeOK

-----------------------------------------------------------------------------
(* Every number belongs to one place at most: a handle, a call's stdin, the *)
(* call that is being dialled, or a registration that is due.  Without that *)
(* io_reg_handle() might be shown a handle that has a descriptor already,   *)
(* or a number that has a handle.                                           *)
HandlesApart ==
  /\ \A g, h \in Owner : g # h => fds[g] \cap fds[h] = {}
  /\ \A h \in Owner : \A c \in Call : fds[h] \cap stdin[c] = {}
HeldApart ==
  /\ \A i, j \in 1..Len(held) : held[i] = held[j] => i = j
  /\ \A i \in 1..Len(held) : \A h \in Owner : held[i] \notin fds[h]
  /\ \A i \in 1..Len(held) : \A c \in Call : held[i] \notin stdin[c]
DueApart ==
  /\ \A i, j \in 1..Len(due) : due[i][1] = due[j][1] \/ due[i][2] = due[j][2] => i = j
  /\ \A i \in 1..Len(due) : fds[due[i][1]] = {}
  /\ \A i \in 1..Len(due) : \A h \in Owner : due[i][2] \notin fds[h]
  /\ \A i \in 1..Len(due) : \A c \in Call : due[i][2] \notin stdin[c]
OneDial ==
  /\ dial = NoHandle => held = <<>>
  /\ dial # NoHandle => due = <<>> /\ \A k \in {"out", "err", "pty"} : fds[<<dial, k>>] = {}
Apart == HandlesApart /\ HeldApart /\ DueApart /\ OneDial

(* The registration that is next, and what is left to do after it. *)
LEMMA NextDue ==
  ASSUME TypeOK, Apart, due # <<>>
  PROVE  /\ due[1][1] \in CallHandle /\ due[1][2] \in Fd /\ fds[due[1][1]] = {}
         /\ \A h \in Owner : due[1][2] \notin fds[h]
         /\ Tail(due) \in Seq(CallHandle \X Fd) /\ Len(due) \in Nat
         /\ Len(Tail(due)) = Len(due) - 1
         /\ \A i \in 1..Len(Tail(due)) : i + 1 \in 1..Len(due) /\ Tail(due)[i] = due[i + 1]
<1>1. due \in Seq(CallHandle \X Fd)
  BY DEF TypeOK
<1>2. Len(due) \in Nat \ {0} /\ 1 \in 1..Len(due)
  BY <1>1, EmptySeq
<1>3. due[1] \in CallHandle \X Fd
  BY <1>1, <1>2, ElementOfSeq
<1>4. /\ Tail(due) \in Seq(CallHandle \X Fd) /\ Len(Tail(due)) = Len(due) - 1
      /\ \A i \in 1..Len(Tail(due)) : Tail(due)[i] = due[i + 1]
  BY <1>1, HeadTailProperties
<1>5. \A i \in 1..Len(Tail(due)) : i + 1 \in 1..Len(due)
  BY <1>2, <1>4
<1>6. fds[due[1][1]] = {} /\ \A h \in Owner : due[1][2] \notin fds[h]
  BY <1>2 DEF Apart, DueApart
<1> QED BY <1>2, <1>3, <1>4, <1>5, <1>6

LEMMA LastType ==
  ASSUME TypeOK, ~Idle
  PROVE  Last \in Pass /\ Len(passes) \in 1..Len(passes) /\ Len(passes) \in Nat
<1>1. Len(passes) \in Nat \ {0}
  BY EmptySeq DEF TypeOK, Idle
<1>2. Len(passes) \in 1..Len(passes)
  BY <1>1
<1> QED BY <1>1, <1>2, ElementOfSeq DEF TypeOK, Last

LEMMA TypeStep == TypeOK /\ Apart /\ [Next]_vars => TypeOK'
<1> SUFFICES ASSUME TypeOK, Apart, [Next]_vars PROVE TypeOK'
  OBVIOUS
<1> USE DEF table, kernel, dialling
<1>1. CASE Select
  <2>1. Watched \cap ready \subseteq Room
    BY DEF TypeOK
  <2>2. IsFiniteSet(Watched \cap ready)
    BY <2>1, Numbers, FS_Subset
  <2>3. Cardinality(bits') \in Nat
    BY <1>1, <2>2, FS_CardinalityType DEF Select
  <2>4. [i |-> 1, rc |-> Cardinality(bits'), busy |-> FALSE] \in Pass
    BY <2>3 DEF Pass
  <2>5. passes' \in Seq(Pass)
    BY <1>1, <2>4, AppendProperties DEF Select, TypeOK
  <2> QED BY <1>1, <2>1, <2>5 DEF Select, TypeOK
<1>2. CASE Dispatch
  <2>1. ~Idle /\ Last \in Pass /\ Len(passes) \in 1..Len(passes)
    BY <1>2, LastType DEF Dispatch, Scanning
  <2>2. Found \in SUBSET Nat /\ Last.rc # 0
    BY <1>2, <2>1 DEF Dispatch, Found, Pass
  <2>3. FirstOf(Found) \in Nat
    BY <1>2, <2>2, FirstIsLeast DEF Dispatch
  <2>4. [i |-> FirstOf(Found), rc |-> Last.rc - 1, busy |-> TRUE] \in Pass
    BY <2>1, <2>2, <2>3 DEF Pass
  <2>5. passes' \in Seq(Pass)
    BY <1>2, <2>1, <2>4, ExceptSeq DEF Dispatch, Top, TypeOK
  <2> QED BY <1>2, <2>5 DEF Dispatch, TypeOK
<1>3. CASE Return
  <2>1. Last \in Pass /\ Len(passes) \in 1..Len(passes)
    BY <1>3, LastType DEF Return, InCallback
  <2>2. [Last EXCEPT !.i = @ + 1, !.busy = FALSE] \in Pass
    <3>1. Last.i + 1 \in Nat
      BY <2>1 DEF Pass
    <3>2. \A n \in Nat : [Last EXCEPT !.i = n, !.busy = FALSE] \in Pass
      BY <2>1 DEF Pass
    <3> QED BY <3>1, <3>2
  <2>3. passes' \in Seq(Pass)
    BY <1>3, <2>1, <2>2, ExceptSeq DEF Return, Top, TypeOK
  <2> QED BY <1>3, <2>3 DEF Return, TypeOK
<1>4. CASE EndPass
  <2>1. \A i \in 1..(Len(passes) - 1) : passes[i] \in Pass
    BY LenProperties, ElementOfSeq DEF TypeOK
  <2>2. Len(passes) - 1 \in Int
    BY LenProperties DEF TypeOK
  <2>3. passes' \in Seq(Pass)
    BY <1>4, <2>1, <2>2, SubSeqProperties DEF EndPass
  <2> QED BY <1>4, <2>3 DEF EndPass, TypeOK
<1>5. ASSUME NEW h \in Owner, Open(h) PROVE TypeOK'
  <2>1. FirstOf(FreeFds) \in Fd
    BY <1>5, LowestFree DEF Open, FreeFds
  <2>2. h # UsbHandle => fds[h] = {}
    <3> SUFFICES ASSUME h # UsbHandle PROVE fds[h] = {}
      OBVIOUS
    <3>1. Cardinality(fds[h]) < 1
      BY <1>5 DEF Open
    <3>2. IsFiniteSet(fds[h])
      BY Numbers, FS_Subset DEF TypeOK
    <3> QED BY <3>1, <3>2, FS_EmptySet, FS_CardinalityType
  <2>3. fds' = [fds EXCEPT ![h] = @ \cup {FirstOf(FreeFds)}] /\ Register(h, FirstOf(FreeFds))
    BY <1>5 DEF Open, Obtain
  <2>4. late' \subseteq Fd
    BY <1>5, <2>1 DEF Open, Lateness, TypeOK
  <2> QED BY <1>5, <2>1, <2>2, <2>3, <2>4, OwnedType, RegisterType DEF Open, TypeOK
<1>6. ASSUME NEW h \in Owner, OpenPty(h) PROVE TypeOK'
  <2> DEFINE f == FirstOf(FreeFds)
             slave == FirstOf(FreeFds \ {f})
  <2>1. f \in Fd /\ slave \in Fd
    <3>1. IsFiniteSet(FreeFds) /\ Cardinality(FreeFds) > 1
      BY <1>6, Numbers, FS_Subset DEF OpenPty, FreeFds
    <3>2. FreeFds # {} /\ FreeFds # {f}
      BY <3>1, FS_EmptySet, FS_Singleton
    <3>3. FreeFds \ {f} # {}
      BY <3>2
    <3> QED BY <3>2, <3>3, LowestFree DEF FreeFds
  <2>2. fds' = [fds EXCEPT ![h] = @ \cup {f}] /\ Register(h, f) /\ fds[h] = {}
        /\ leaked' = leaked \cup {slave}
    BY <1>6 DEF OpenPty, Obtain
  <2>3. late' \subseteq late \cup {f, slave}
    BY <1>6 DEF OpenPty, Lateness
  <2> QED BY <1>6, <2>1, <2>2, <2>3, OwnedType, RegisterType DEF OpenPty, TypeOK
<1>7. ASSUME NEW h \in Owner, Close(h) PROVE TypeOK'
  <2>1. PICK f \in fds[h] : /\ Deregister(f)
                            /\ ready' = ready \ {f}
                            /\ fds' = [fds EXCEPT ![h] = @ \ {f}]
                            /\ stdin' = [c \in Call |-> IF h = <<c, "out">> THEN {} ELSE stdin[c]]
                            /\ late' = late \ ({f} \cup StdinOf(h))
    BY <1>7 DEF Close
  <2>2. fds' \in [Owner -> SUBSET Fd] /\ stdin' \in [Call -> SUBSET Fd] /\ late' \subseteq Fd
    BY <2>1 DEF TypeOK
  <2>3. ASSUME NEW g \in Owner \ {UsbHandle} PROVE Cardinality(fds'[g]) <= 1
    <3>1. fds'[g] \subseteq fds[g] /\ Cardinality(fds[g]) <= 1
      BY <2>1 DEF TypeOK
    <3>2. IsFiniteSet(fds[g])
      BY <3>1, Numbers, FS_Subset DEF TypeOK
    <3>3. Cardinality(fds'[g]) <= Cardinality(fds[g]) /\ IsFiniteSet(fds'[g])
      BY <3>1, <3>2, FS_Subset
    <3> QED BY <3>1, <3>2, <3>3, FS_CardinalityType
  <2> QED BY <1>7, <2>1, <2>2, <2>3, DeregisterType DEF Close, TypeOK
<1>8. ASSUME NEW h \in Owner, BecomesReady(h) PROVE TypeOK'
  BY <1>8 DEF BecomesReady, TypeOK
<1>9. CASE TimeOut
  BY <1>9 DEF TimeOut, TypeOK
<1>10. CASE Undefined \/ UNCHANGED vars
  BY <1>10 DEF Undefined, vars, TypeOK
<1>11. ASSUME NEW c \in Call, Dial(c) PROVE TypeOK'
  BY <1>11 DEF Dial, TypeOK
<1>12. CASE OpenEnd
  <2>1. FirstOf(FreeFds) \in Fd
    BY <1>12, LowestFree DEF OpenEnd, FreeFds
  <2>2. held' \in Seq(Fd)
    BY <1>12, <2>1, AppendProperties DEF OpenEnd, TypeOK
  <2>3. late' \subseteq Fd
    BY <1>12, <2>1 DEF OpenEnd, Lateness, TypeOK
  <2> QED BY <1>12, <2>2, <2>3 DEF OpenEnd, TypeOK
<1>13. CASE CloseChildEnds
  <2>1. dial \in Call /\ \A i \in 1..8 : held[i] \in Fd
    BY <1>13, ElementOfSeq DEF CloseChildEnds, Ends, TypeOK
  <2>2. \A k \in {"out", "err", "pty"} : <<dial, k>> \in CallHandle
    BY <2>1 DEF CallHandle
  <2>3. due' \in Seq(CallHandle \X Fd) /\ held' \in Seq(Fd)
    <3>1. due' = << <<<<dial, "out">>, held[5]>>, <<<<dial, "err">>, held[7]>>,
                    <<<<dial, "pty">>, held[1]>> >>
      BY <1>13 DEF CloseChildEnds, Opened
    <3>2. /\ <<<<dial, "out">>, held[5]>> \in CallHandle \X Fd
          /\ <<<<dial, "err">>, held[7]>> \in CallHandle \X Fd
          /\ <<<<dial, "pty">>, held[1]>> \in CallHandle \X Fd
      BY <2>1, <2>2
    <3>3. \A a, b, c \in CallHandle \X Fd : <<a, b, c>> \in Seq(CallHandle \X Fd)
      OBVIOUS
    <3>4. held' = <<>>
      BY <1>13 DEF CloseChildEnds
    <3> QED BY <3>1, <3>2, <3>3, <3>4, EmptySeq
  <2>4. stdin' \in [Call -> SUBSET Fd] /\ leaked' \subseteq Fd /\ late' \subseteq Fd
    BY <1>13, <2>1 DEF CloseChildEnds, Opened, TypeOK
  <2> QED BY <1>13, <2>3, <2>4 DEF CloseChildEnds, TypeOK
<1>14. CASE RegisterEnd
  <2>1. /\ due[1][1] \in CallHandle /\ due[1][2] \in Fd /\ fds[due[1][1]] = {}
        /\ due' \in Seq(CallHandle \X Fd)
    BY <1>14, NextDue DEF RegisterEnd
  <2>2. due[1][1] \in Owner /\ due[1][1] # UsbHandle
    BY <2>1, Numbers
  <2>3. fds' = [fds EXCEPT ![due[1][1]] = @ \cup {due[1][2]}] /\ Register(due[1][1], due[1][2])
    BY <1>14 DEF RegisterEnd, Obtain
  <2> QED BY <1>14, <2>1, <2>2, <2>3, OwnedType, RegisterType DEF RegisterEnd, TypeOK
<1> QED BY <1>1, <1>2, <1>3, <1>4, <1>5, <1>6, <1>7, <1>8, <1>9, <1>10, <1>11, <1>12, <1>13,
           <1>14 DEF Next, Loop, DialStep

LEMMA ApartInit == Init => Apart
BY EmptySeq DEF Init, Apart, HandlesApart, HeldApart, DueApart, OneDial

(* Between two dials a free number goes to a handle. *)
LEMMA ObtainKeepsApart ==
  ASSUME TypeOK, Apart, NEW h \in Owner, NEW f \in FreeFds, Obtain(h, f), ~Dialling,
         UNCHANGED stdin, UNCHANGED dialling
  PROVE  Apart'
<1>1. f \in Fd /\ (\A g \in Owner : f \notin fds[g]) /\ \A c \in Call : f \notin stdin[c]
  BY FreeIsClosed
<1>2. \A g \in Owner : fds'[g] = IF g = h THEN fds[g] \cup {f} ELSE fds[g]
  BY DEF Obtain, TypeOK
<1>3. HandlesApart'
  BY <1>1, <1>2 DEF Apart, HandlesApart
<1>4. dial' = NoHandle /\ held' = <<>> /\ due' = <<>>
  BY DEF Dialling, dialling, Apart, OneDial
<1> QED BY <1>3, <1>4 DEF Apart, HeldApart, DueApart, OneDial

LEMMA ApartStep == TypeOK /\ Apart /\ [Next]_vars => Apart'
<1> SUFFICES ASSUME TypeOK, Apart, [Next]_vars PROVE Apart'
  OBVIOUS
<1>1. ASSUME NEW h \in Owner, Open(h) PROVE Apart'
  <2>1. FirstOf(FreeFds) \in FreeFds
    BY <1>1, LowestFree DEF Open, FreeFds
  <2> QED BY <1>1, <2>1, ObtainKeepsApart DEF Open, MayAct
<1>2. ASSUME NEW h \in Owner, OpenPty(h) PROVE Apart'
  <2>1. FreeFds # {}
    BY <1>2, FS_EmptySet DEF OpenPty
  <2>2. FirstOf(FreeFds) \in FreeFds
    BY <2>1, LowestFree DEF FreeFds
  <2> QED BY <1>2, <2>2, ObtainKeepsApart DEF OpenPty, MayAct
<1>3. ASSUME NEW h \in Owner, Close(h) PROVE Apart'
  <2>1. /\ \A g \in Owner : fds'[g] \subseteq fds[g]
        /\ \A c \in Call : stdin'[c] \subseteq stdin[c]
    BY <1>3 DEF Close, TypeOK
  <2>2. HandlesApart'
    BY <2>1 DEF Apart, HandlesApart
  <2>3. dial' = NoHandle /\ held' = <<>> /\ due' = <<>>
    BY <1>3 DEF Close, Dialling, dialling, Apart, OneDial
  <2> QED BY <2>2, <2>3 DEF Apart, HeldApart, DueApart, OneDial
<1>4. ASSUME NEW c \in Call, Dial(c) PROVE Apart'
  <2>1. held = <<>> /\ due = <<>>
    BY <1>4 DEF Dial, MayAct, Dialling, Apart, OneDial
  <2>2. dial' = c /\ c # NoHandle /\ UNCHANGED <<fds, stdin, held, due>>
    BY <1>4, Numbers DEF Dial, kernel
  <2>3. \A k \in {"out", "err", "pty"} : fds[<<c, k>>] = {}
    BY <1>4 DEF Dial
  <2> QED BY <2>1, <2>2, <2>3 DEF Apart, HandlesApart, HeldApart, DueApart, OneDial
<1>5. CASE OpenEnd
  <2> DEFINE f == FirstOf(FreeFds)
  <2>1. f \in FreeFds
    BY <1>5, LowestFree DEF OpenEnd, FreeFds
  <2> HIDE DEF f
  <2>2. /\ \A h \in Owner : f \notin fds[h]
        /\ \A c \in Call : f \notin stdin[c]
        /\ \A i \in 1..Len(held) : held[i] # f
    BY <2>1, FreeIsClosed
  <2>3. UNCHANGED <<fds, stdin, dial, due>> /\ dial # NoHandle /\ due = <<>> /\ held' = Append(held, f)
    BY <1>5 DEF OpenEnd, Apart, OneDial, f
  <2>4. /\ Len(held) \in Nat /\ Len(held') = Len(held) + 1 /\ held'[Len(held) + 1] = f
        /\ \A i \in 1..Len(held) : held'[i] = held[i]
    <3>1. f \in Fd /\ held \in Seq(Fd)
      BY <2>1 DEF FreeFds, TypeOK
    <3> QED BY <2>3, <3>1, AppendProperties, LenProperties
  <2>5. \A i \in 1..Len(held') : i \in 1..Len(held) \/ i = Len(held) + 1
    BY <2>4
  <2>6. HeldApart'
    BY <2>2, <2>3, <2>4, <2>5 DEF Apart, HeldApart
  <2> QED BY <2>3, <2>6 DEF Apart, HandlesApart, DueApart, OneDial
<1>6. CASE CloseChildEnds
  <2>1. /\ due' = << <<<<dial, "out">>, held[5]>>, <<<<dial, "err">>, held[7]>>, <<<<dial, "pty">>, held[1]>> >>
        /\ stdin' = [stdin EXCEPT ![dial] = {held[4]}]
        /\ dial \in Call /\ dial # NoHandle /\ dial' = NoHandle /\ held' = <<>> /\ UNCHANGED fds
    BY <1>6 DEF CloseChildEnds, Opened, TypeOK
  <2>2. /\ held[1] # held[4] /\ held[5] # held[4] /\ held[7] # held[4]
        /\ held[1] # held[5] /\ held[1] # held[7] /\ held[5] # held[7]
    BY <1>6 DEF CloseChildEnds, Ends, Apart, HeldApart
  <2>3. /\ \A i \in {1, 4, 5, 7} : \A h \in Owner : held[i] \notin fds[h]
        /\ \A i \in {1, 4, 5, 7} : \A c \in Call : held[i] \notin stdin[c]
    BY <1>6 DEF CloseChildEnds, Ends, Apart, HeldApart
  <2>4. \A c \in Call : stdin'[c] = IF c = dial THEN {held[4]} ELSE stdin[c]
    BY <2>1 DEF TypeOK
  <2>5. HandlesApart'
    BY <2>1, <2>3, <2>4 DEF Apart, HandlesApart
  <2>6. HeldApart' /\ OneDial'
    BY <2>1 DEF HeldApart, OneDial
  <2>7. /\ Len(due') = 3
        /\ due'[1] = <<<<dial, "out">>, held[5]>>
        /\ due'[2] = <<<<dial, "err">>, held[7]>>
        /\ due'[3] = <<<<dial, "pty">>, held[1]>>
    BY <2>1
  <2>8. \A i \in 1..Len(due') : i = 1 \/ i = 2 \/ i = 3
    BY <2>7
  <2>9. \A k \in {"out", "err", "pty"} : fds[<<dial, k>>] = {}
    BY <2>1 DEF Apart, OneDial
  <2>10. ASSUME NEW i \in 1..Len(due'), NEW j \in 1..Len(due'),
                due'[i][1] = due'[j][1] \/ due'[i][2] = due'[j][2]
         PROVE  i = j
    BY <2>2, <2>7, <2>8, <2>10
  <2>11. ASSUME NEW i \in 1..Len(due')
         PROVE  /\ fds'[due'[i][1]] = {}
                /\ \A h \in Owner : due'[i][2] \notin fds'[h]
                /\ \A c \in Call : due'[i][2] \notin stdin'[c]
    <3>1. due'[i][2] \in {held[1], held[5], held[7]}
      BY <2>7, <2>8
    <3>2. fds'[due'[i][1]] = {}
      BY <2>1, <2>7, <2>8, <2>9
    <3> QED BY <2>1, <2>2, <2>3, <2>4, <3>1, <3>2
  <2>12. DueApart'
    BY <2>10, <2>11 DEF DueApart
  <2> QED BY <2>5, <2>6, <2>12 DEF Apart
<1>7. CASE RegisterEnd
  <2> DEFINE h == due[1][1]
             f == due[1][2]
  <2>1. /\ h \in Owner /\ Len(due) \in Nat /\ Len(due') = Len(due) - 1
        /\ \A i \in 1..Len(due') : i + 1 \in 1..Len(due) /\ i + 1 # 1 /\ due'[i] = due[i + 1]
    BY <1>7, NextDue, Numbers DEF RegisterEnd
  <2>2. 1 \in 1..Len(due)
    BY <1>7, EmptySeq, LenProperties DEF RegisterEnd, TypeOK
  <2>3. \A g \in Owner : fds'[g] = IF g = h THEN fds[g] \cup {f} ELSE fds[g]
    BY <1>7 DEF RegisterEnd, Obtain, TypeOK
  <2>4. UNCHANGED stdin /\ dial' = NoHandle /\ held' = <<>>
    BY <1>7 DEF RegisterEnd, Apart, OneDial
  <2>5. /\ \A g \in Owner : f \notin fds[g]
        /\ \A c \in Call : f \notin stdin[c]
    <3>1. \A g \in Owner : due[1][2] \notin fds[g]
      BY <1>7, NextDue DEF RegisterEnd
    <3>2. \A c \in Call : due[1][2] \notin stdin[c]
      BY <2>2 DEF Apart, DueApart
    <3> QED BY <3>1, <3>2
  <2>6. HandlesApart'
    <3> HIDE DEF h, f
    <3> QED BY <2>3, <2>4, <2>5 DEF Apart, HandlesApart
  <2>7. \A i \in 1..Len(due') : due[i + 1][1] # h /\ due[i + 1][2] # f
    BY <2>1, <2>2 DEF Apart, DueApart
  <2>8. \A i \in 1..Len(due) : due[i][1] \in Owner
    BY ElementOfSeq, Numbers DEF TypeOK
  <2> HIDE DEF h, f
  <2>9. ASSUME NEW i \in 1..Len(due')
        PROVE  /\ fds'[due'[i][1]] = {}
               /\ \A g \in Owner : due'[i][2] \notin fds'[g]
               /\ \A c \in Call : due'[i][2] \notin stdin'[c]
    <3>1. i + 1 \in 1..Len(due) /\ due'[i] = due[i + 1]
      BY <2>1
    <3>2. /\ fds[due[i + 1][1]] = {}
          /\ \A g \in Owner : due[i + 1][2] \notin fds[g]
          /\ \A c \in Call : due[i + 1][2] \notin stdin[c]
      BY <3>1 DEF Apart, DueApart
    <3> QED BY <2>3, <2>4, <2>7, <2>8, <3>1, <3>2
  <2>10. ASSUME NEW i \in 1..Len(due'), NEW j \in 1..Len(due'),
                due'[i][1] = due'[j][1] \/ due'[i][2] = due'[j][2]
         PROVE  i = j
    <3>1. \A k, l \in 1..Len(due) : due[k][1] = due[l][1] \/ due[k][2] = due[l][2] => k = l
      BY DEF Apart, DueApart
    <3>2. i + 1 \in 1..Len(due) /\ j + 1 \in 1..Len(due) /\ due'[i] = due[i + 1] /\ due'[j] = due[j + 1]
      BY <2>1
    <3>3. i + 1 = j + 1
      BY <2>10, <3>1, <3>2
    <3> QED BY <3>3
  <2>11. DueApart'
    BY <2>9, <2>10 DEF DueApart
  <2> QED BY <2>4, <2>6, <2>11 DEF Apart, HeldApart, OneDial
<1>8. CASE Loop \/ Undefined \/ UNCHANGED vars \/ \E h \in Owner : BecomesReady(h)
  <2>1. UNCHANGED <<fds, stdin, dialling>>
    BY <1>8 DEF Loop, Select, TimeOut, Dispatch, Return, EndPass, Undefined,
                BecomesReady, vars, kernel
  <2> QED BY <2>1 DEF dialling, Apart, HandlesApart, HeldApart, DueApart, OneDial
<1> QED BY <1>1, <1>2, <1>3, <1>4, <1>5, <1>6, <1>7, <1>8 DEF Next, DialStep

(* Every variable keeps its type: the entries of the table and the numbers  *)
(* in fd_sets stay below MAX_FD, maxfd never sinks below -1, rc never below *)
(* zero, and no handle but libusb's ever has two descriptors, although a    *)
(* call's are registered one after the other and long after they were       *)
(* opened.                                                                  *)
THEOREM TypeCorrect == SafeSpec => []TypeOK
<1>1. Init => TypeOK /\ Apart
  BY TypeInit, ApartInit
<1>2. TypeOK /\ Apart /\ [Next]_vars => (TypeOK /\ Apart)'
  BY TypeStep, ApartStep
<1> QED BY <1>1, <1>2, PTL DEF SafeSpec

-----------------------------------------------------------------------------
(* The table.  A step changes it by registering a descriptor that was free, *)
(* by removing one, or not at all.                                          *)

LEMMA TableKept ==
  ASSUME TableConsistent, UNCHANGED table, UNCHANGED fds
  PROVE  TableConsistent'
BY DEF TableConsistent, EntriesDistinct, HandlesMatch, EntriesMatch, WithinMax, table

LEMMA EntriesAreNumbers ==
  ASSUME TypeOK
  PROVE  maxfd \in Int /\ \A i \in 1..Len(pollfds) : pollfds[i] \in Int
<1>1. \A i \in 1..Len(pollfds) : pollfds[i] \in Room
  BY ElementOfSeq DEF TypeOK
<1>2. maxfd \in Int
  BY Numbers DEF TypeOK
<1>3. Room \subseteq Int
  BY Numbers
<1> HIDE DEF TypeOK
<1> QED BY <1>1, <1>2, <1>3

(* io_reg_handle() for a number that no handle has: below MAX_FD, it has no *)
(* entry either.                                                            *)
LEMMA ObtainKeepsTable ==
  ASSUME TypeOK, TableConsistent, NEW h \in Owner, NEW f \in Fd, \A g \in Owner : f \notin fds[g],
         Obtain(h, f)
  PROVE  /\ TableConsistent'
         /\ IF f \in Room THEN overrun' = overrun ELSE overrun' = (f = MaxFd)
<1>1. f \in Fd /\ \A g \in Owner : f \notin fds[g]
  OBVIOUS
<1>2. fds' = [fds EXCEPT ![h] = @ \cup {f}] /\ Register(h, f)
  BY DEF Obtain
<1>3. \A g \in Owner : fds'[g] = IF g = h THEN fds[g] \cup {f} ELSE fds[g]
  BY <1>2 DEF TypeOK
<1>4. CASE f \in Room
  <2>1. handles[f] = NoHandle
    BY <1>1, <1>4 DEF TableConsistent, HandlesMatch, TypeOK
  <2>2. \A i \in 1..Len(pollfds) : pollfds[i] # f
    BY <1>4, <2>1 DEF TableConsistent, EntriesMatch
  <2>3. /\ pollfds' = Append(pollfds, f) /\ handles' = [handles EXCEPT ![f] = h]
        /\ maxfd' = IF maxfd < f THEN f ELSE maxfd
        /\ overrun' = overrun
    BY <1>2, <1>4, <2>1 DEF Register
  <2>4. /\ Len(pollfds) \in Nat /\ Len(pollfds') = Len(pollfds) + 1
        /\ \A i \in 1..Len(pollfds) : pollfds'[i] = pollfds[i]
        /\ pollfds'[Len(pollfds) + 1] = f
    BY <1>4, <2>3, AppendProperties, LenProperties DEF TypeOK
  <2>5. \A i \in 1..Len(pollfds') : i \in 1..Len(pollfds) \/ i = Len(pollfds) + 1
    BY <2>4
  <2>6. \A i \in 1..Len(pollfds) : i \in 1..Len(pollfds')
    BY <2>4
  <2>7. \A g \in Room : handles'[g] = IF g = f THEN h ELSE handles[g]
    BY <1>4, <2>3 DEF TypeOK
  <2>8. EntriesDistinct'
    BY <2>2, <2>4, <2>5 DEF TableConsistent, EntriesDistinct
  <2>9. HandlesMatch'
    <3> SUFFICES ASSUME NEW g \in Room, NEW o \in Owner
                 PROVE  handles'[g] = o <=> g \in fds'[o]
      BY DEF HandlesMatch
    <3>1. handles[g] = o <=> g \in fds[o]
      BY DEF TableConsistent, HandlesMatch
    <3>2. CASE g = f
      BY <1>1, <1>3, <2>7, <3>2
    <3>3. CASE g # f
      BY <1>3, <2>7, <3>1, <3>3
    <3> QED BY <3>2, <3>3
  <2>10. EntriesMatch'
    <3> SUFFICES ASSUME NEW g \in Room
                 PROVE  (\E i \in 1..Len(pollfds') : pollfds'[i] = g) <=> handles'[g] # NoHandle
      BY DEF EntriesMatch
    <3>1. CASE g = f
      <4>1. handles'[g] # NoHandle
        BY <3>1, <2>7, Numbers
      <4>2. Len(pollfds) + 1 \in 1..Len(pollfds')
        BY <2>4
      <4> QED BY <3>1, <4>1, <4>2, <2>4
    <3>2. CASE g # f
      <4>1. (\E i \in 1..Len(pollfds) : pollfds[i] = g) <=> handles'[g] # NoHandle
        BY <3>2, <2>7 DEF TableConsistent, EntriesMatch
      <4> QED BY <3>2, <4>1, <2>4, <2>5, <2>6
    <3> QED BY <3>1, <3>2
  <2>11. WithinMax'
    <3>1. maxfd \in Int /\ f \in Int /\ \A i \in 1..Len(pollfds) : pollfds[i] \in Int
      BY <1>4, EntriesAreNumbers, Numbers
    <3>2. maxfd <= maxfd' /\ f <= maxfd' /\ maxfd' \in Int
      BY <3>1, <2>3
    <3>3. \A i \in 1..Len(pollfds) : pollfds[i] <= maxfd'
      BY <3>1, <3>2 DEF TableConsistent, WithinMax
    <3> QED BY <3>2, <3>3, <2>4, <2>5 DEF WithinMax
  <2> QED BY <1>4, <2>3, <2>8, <2>9, <2>10, <2>11 DEF TableConsistent
<1>5. CASE f \notin Room
  <2>1. UNCHANGED <<pollfds, handles, maxfd>> /\ overrun' = (f = MaxFd)
    BY <1>2, <1>5 DEF Register
  <2>2. \A g \in Room : \A o \in Owner : g \in fds'[o] <=> g \in fds[o]
    BY <1>3, <1>5
  <2> QED BY <1>5, <2>1, <2>2
          DEF TableConsistent, EntriesDistinct, HandlesMatch, EntriesMatch, WithinMax
<1> QED BY <1>4, <1>5

(* io_dereg_handle() and close() of a descriptor of handle h. *)
LEMMA CloseKeepsTable ==
  ASSUME TypeOK, TableConsistent, NEW h \in Owner, NEW f \in fds[h],
         Deregister(f), fds' = [fds EXCEPT ![h] = @ \ {f}]
  PROVE  TableConsistent'
<1>1. \A g \in Owner : fds'[g] = IF g = h THEN fds[g] \ {f} ELSE fds[g]
  BY DEF TypeOK
<1>2. CASE Index(f) = {}
  <2>1. f \notin Room
    <3>1. f \in Room => handles[f] # NoHandle
      BY Numbers DEF TableConsistent, HandlesMatch
    <3> QED BY <1>2, <3>1 DEF Index, TableConsistent, EntriesMatch
  <2>2. UNCHANGED table
    BY <1>2 DEF Deregister
  <2> QED BY <1>1, <2>1, <2>2
          DEF table, TableConsistent, EntriesDistinct, HandlesMatch, EntriesMatch, WithinMax
<1>3. CASE Index(f) # {}
  <2> DEFINE k == FirstOf(Index(f))
  <2>1. k \in 1..Len(pollfds) /\ pollfds[k] = f /\ f \in Room
    BY <1>3, IndexIsPosition
  <2> HIDE DEF k
  <2>2. /\ pollfds' = Without(pollfds, k) /\ handles' = [handles EXCEPT ![f] = NoHandle]
        /\ maxfd' = IF maxfd = f THEN maxfd - 1 ELSE maxfd
    BY <1>3 DEF Deregister, k
  <2>3. /\ Len(pollfds) \in Nat /\ Len(pollfds') = Len(pollfds) - 1
        /\ \A j \in 1..Len(pollfds') :
             pollfds'[j] = IF j < k THEN pollfds[j] ELSE pollfds[j + 1]
    BY <2>1, <2>2, WithoutEntry, LenProperties DEF TypeOK
  <2> DEFINE old(j) == IF j < k THEN j ELSE j + 1
  <2>4. \A j \in 1..Len(pollfds') : /\ old(j) \in 1..Len(pollfds) /\ old(j) # k
                                    /\ pollfds'[j] = pollfds[old(j)]
    BY <2>1, <2>3
  <2>5. \A i, j \in 1..Len(pollfds') : old(i) = old(j) => i = j
    BY <2>1, <2>3
  <2>6. \A i \in 1..Len(pollfds) : i # k => \E j \in 1..Len(pollfds') : old(j) = i
    <3> SUFFICES ASSUME NEW i \in 1..Len(pollfds), i # k
                 PROVE  \E j \in 1..Len(pollfds') : old(j) = i
      OBVIOUS
    <3>1. CASE i < k
      <4>1. i \in 1..Len(pollfds') /\ old(i) = i
        BY <2>1, <2>3, <3>1
      <4> QED BY <4>1
    <3>2. CASE i > k
      <4>1. i - 1 \in 1..Len(pollfds') /\ old(i - 1) = i
        BY <2>1, <2>3, <3>2
      <4> QED BY <4>1
    <3> QED BY <2>1, <3>1, <3>2
  <2> HIDE DEF old
  <2>7. \A g \in Room : handles'[g] = IF g = f THEN NoHandle ELSE handles[g]
    BY <2>1, <2>2 DEF TypeOK
  <2>8. \A j \in 1..Len(pollfds') : pollfds'[j] # f
    BY <2>1, <2>4 DEF TableConsistent, EntriesDistinct
  <2>9. EntriesDistinct'
    BY <2>4, <2>5 DEF TableConsistent, EntriesDistinct
  <2>10. HandlesMatch'
    <3>1. \A g \in Owner : g # h => f \notin fds[g]
      BY <2>1 DEF TableConsistent, HandlesMatch
    <3> QED BY <1>1, <2>7, <3>1, Numbers DEF TableConsistent, HandlesMatch
  <2>11. EntriesMatch'
    <3> SUFFICES ASSUME NEW g \in Room
                 PROVE  (\E i \in 1..Len(pollfds') : pollfds'[i] = g) <=> handles'[g] # NoHandle
      BY DEF EntriesMatch
    <3>1. CASE g = f
      BY <3>1, <2>7, <2>8
    <3>2. CASE g # f
      <4>1. (\E i \in 1..Len(pollfds) : pollfds[i] = g) <=> handles'[g] # NoHandle
        BY <3>2, <2>7 DEF TableConsistent, EntriesMatch
      <4>2. \A i \in 1..Len(pollfds) : pollfds[i] = g => i # k
        BY <2>1, <3>2
      <4> QED BY <4>1, <4>2, <2>4, <2>6
    <3> QED BY <3>1, <3>2
  <2>12. WithinMax'
    <3>1. maxfd \in Int /\ \A j \in 1..Len(pollfds') : pollfds'[j] \in Int
      BY <2>4, EntriesAreNumbers
    <3>2. \A j \in 1..Len(pollfds') : pollfds'[j] <= maxfd
      BY <2>4 DEF TableConsistent, WithinMax
    <3> QED BY <2>2, <2>8, <3>1, <3>2 DEF WithinMax
  <2> QED BY <2>9, <2>10, <2>11, <2>12 DEF TableConsistent
<1> QED BY <1>2, <1>3

LEMMA TableInit == Init => TableConsistent
BY Numbers
   DEF Init, TableConsistent, EntriesDistinct, HandlesMatch, EntriesMatch, WithinMax

LEMMA TableStep == TypeOK /\ Apart /\ TableConsistent /\ [Next]_vars => TableConsistent'
<1> SUFFICES ASSUME TypeOK, Apart, TableConsistent, [Next]_vars PROVE TableConsistent'
  OBVIOUS
<1>1. ASSUME NEW h \in Owner, Open(h) PROVE TableConsistent'
  <2>1. FirstOf(FreeFds) \in FreeFds
    BY <1>1, LowestFree DEF Open, FreeFds
  <2> QED BY <1>1, <2>1, FreeIsClosed, ObtainKeepsTable DEF Open
<1>2. ASSUME NEW h \in Owner, OpenPty(h) PROVE TableConsistent'
  <2>1. FreeFds # {}
    BY <1>2, FS_EmptySet DEF OpenPty
  <2>2. FirstOf(FreeFds) \in FreeFds
    BY <2>1, LowestFree DEF FreeFds
  <2> QED BY <1>2, <2>2, FreeIsClosed, ObtainKeepsTable DEF OpenPty
<1>3. ASSUME NEW h \in Owner, Close(h) PROVE TableConsistent'
  BY <1>3, CloseKeepsTable DEF Close
<1>4. CASE RegisterEnd
  <2>1. /\ due[1][1] \in Owner /\ due[1][2] \in Fd /\ \A g \in Owner : due[1][2] \notin fds[g]
    BY <1>4, NextDue, Numbers DEF RegisterEnd
  <2> QED BY <1>4, <2>1, ObtainKeepsTable DEF RegisterEnd
<1>5. CASE Loop \/ Undefined \/ UNCHANGED vars \/ OpenEnd \/ CloseChildEnds
           \/ (\E h \in Owner : BecomesReady(h)) \/ \E c \in Call : Dial(c)
  BY <1>5, TableKept DEF Loop, Select, TimeOut, Dispatch, Return, EndPass, Undefined,
                         OpenEnd, CloseChildEnds, BecomesReady, Dial, vars, kernel
<1> QED BY <1>1, <1>2, <1>3, <1>4, <1>5 DEF Next, DialStep

(* The table of io.c stays consistent, whatever the callbacks open and      *)
(* close and however deep the passes nest: so the call through              *)
(* handles[p->fd] always finds the handle the descriptor belongs to.        *)
THEOREM TableAlwaysConsistent == SafeSpec => []TableConsistent
<1>1. Init => TypeOK /\ Apart /\ TableConsistent
  BY TypeInit, ApartInit, TableInit
<1>2. TypeOK /\ Apart /\ TableConsistent /\ [Next]_vars => (TypeOK /\ Apart /\ TableConsistent)'
  BY TypeStep, ApartStep, TableStep
<1> QED BY <1>1, <1>2, PTL DEF SafeSpec

-----------------------------------------------------------------------------
(* A full table.  OpenIsWatched speaks of registered handles; the numbers   *)
(* that a call has opened and not yet registered must be late as well when  *)
(* they are beyond the table, and they are, since the kernel gives such a   *)
(* number only when all those below it are open.                            *)
BeyondTable ==
  /\ overrun => MaxFd \in late
  /\ \A h \in Owner : fds[h] \subseteq Room \cup late
  /\ \A i \in 1..Len(held) : held[i] \in Room \cup late
  /\ \A i \in 1..Len(due) : due[i][2] \in Room \cup late

LEMMA InUseFinite ==
  ASSUME TypeOK
  PROVE  IsFiniteSet(InUse)
<1>1. \A i \in 1..Len(held) : held[i] \in Fd
  BY ElementOfSeq DEF TypeOK
<1>2. \A i \in 1..Len(due) : due[i][2] \in Fd
  BY ElementOfSeq DEF TypeOK
<1>3. InUse \subseteq Fd
  <2>1. HeldFds \subseteq Fd /\ DueFds \subseteq Fd
    BY <1>1, <1>2 DEF HeldFds, DueFds
  <2>2. /\ \A h \in Owner : fds[h] \subseteq Fd
        /\ \A c \in Call : stdin[c] \subseteq Fd
        /\ leaked \subseteq Fd
    BY DEF TypeOK
  <2>3. Owned \subseteq Fd
    BY <2>2 DEF Owned
  <2>4. StdinFds \subseteq Fd
    BY <2>2 DEF StdinFds
  <2> QED BY <2>1, <2>2, <2>3, <2>4 DEF InUse
<1> QED BY <1>3, Numbers, FS_Subset

(* When a number beyond the table is given, all those of the table are in   *)
(* use.                                                                     *)
LEMMA GivenLate ==
  ASSUME TypeOK, FreeFds # {}, FirstOf(FreeFds) \notin Room
  PROVE  FirstOf(FreeFds) \in Lateness(FirstOf(FreeFds))
<1> DEFINE f == FirstOf(FreeFds)
<1>1. f \in FreeFds /\ f \in Fd /\ f \in Nat /\ \A j \in FreeFds : f <= j
  BY LowestFree, Numbers DEF FreeFds
<1> HIDE DEF f
<1>2. f >= MaxFd
  BY <1>1, Numbers DEF Room, f
<1>3. Room \subseteq InUse
  <2>1. \A j \in Room : j \in Fd /\ ~(f <= j)
    BY <1>1, <1>2, Numbers DEF Room
  <2> QED BY <1>1, <2>1 DEF FreeFds
<1>4. IsFiniteSet(Room) /\ Cardinality(Room) = MaxFd
  <2>1. MaxFd - 1 \in Int /\ ~(0 > MaxFd - 1)
    BY Numbers
  <2>2. IsFiniteSet(0..(MaxFd - 1)) /\ Cardinality(0..(MaxFd - 1)) = MaxFd - 1 - 0 + 1
    BY <2>1, FS_Interval
  <2> QED BY <2>2, Numbers DEF Room
<1>5. IsFiniteSet(Room \cup {f}) /\ Cardinality(Room \cup {f}) = MaxFd + 1
  BY <1>4, FS_AddElement DEF f
<1>6. IsFiniteSet(InUse \cup {f})
  BY InUseFinite, FS_AddElement
<1>7. Cardinality(Room \cup {f}) <= Cardinality(InUse \cup {f})
  BY <1>3, <1>6, FS_Subset
<1>8. Cardinality(InUse \cup {f}) \in Nat
  BY <1>6, FS_CardinalityType
<1>9. Cardinality(InUse \cup {f}) > MaxFd
  BY <1>5, <1>7, <1>8, Numbers
<1> QED BY <1>9 DEF Lateness, f

(* A number is given to handle h between two dials. *)
LEMMA ObtainBeyond ==
  ASSUME TypeOK, TableConsistent, BeyondTable, ~overrun, NEW h \in Owner, NEW f \in Fd,
         \A g \in Owner : f \notin fds[g], Obtain(h, f), late \subseteq late', f \in Room \cup late'
  PROVE  /\ overrun' => MaxFd \in late'
         /\ \A g \in Owner : fds'[g] \subseteq Room \cup late'
<1>1. \A g \in Owner : fds'[g] = IF g = h THEN fds[g] \cup {f} ELSE fds[g]
  BY DEF Obtain, TypeOK
<1>2. overrun' => f \notin Room /\ f = MaxFd
  BY ObtainKeepsTable
<1> QED BY <1>1, <1>2 DEF BeyondTable

LEMMA BeyondStep ==
  TypeOK /\ Apart /\ TableConsistent /\ BeyondTable /\ [Next]_vars => BeyondTable'
<1> SUFFICES ASSUME TypeOK, Apart, TableConsistent, BeyondTable, [Next]_vars
             PROVE  BeyondTable'
  OBVIOUS
<1>1. ASSUME NEW h \in Owner, Open(h) PROVE BeyondTable'
  <2> DEFINE f == FirstOf(FreeFds)
  <2>1. f \in FreeFds /\ f \in Fd /\ \A g \in Owner : f \notin fds[g]
    BY <1>1, LowestFree, FreeIsClosed DEF Open, FreeFds
  <2>2. Obtain(h, f) /\ late' = late \cup Lateness(f) /\ ~overrun
    BY <1>1 DEF Open, MayAct
  <2>3. f \in Room \cup late'
    BY <1>1, <2>2, GivenLate DEF Open
  <2>4. held' = <<>> /\ due' = <<>>
    BY <1>1 DEF Open, MayAct, Dialling, dialling, Apart, OneDial
  <2> HIDE DEF f
  <2>5. /\ overrun' => MaxFd \in late'
        /\ \A g \in Owner : fds'[g] \subseteq Room \cup late'
    BY <2>1, <2>2, <2>3, ObtainBeyond
  <2> QED BY <2>4, <2>5 DEF BeyondTable
<1>2. ASSUME NEW h \in Owner, OpenPty(h) PROVE BeyondTable'
  <2> DEFINE f == FirstOf(FreeFds)
  <2>1. FreeFds # {}
    BY <1>2, FS_EmptySet DEF OpenPty
  <2>2. f \in FreeFds /\ f \in Fd /\ \A g \in Owner : f \notin fds[g]
    BY <2>1, LowestFree, FreeIsClosed DEF FreeFds
  <2>3. Obtain(h, f) /\ late \cup Lateness(f) \subseteq late' /\ ~overrun
    BY <1>2 DEF OpenPty, MayAct
  <2>4. f \in Room \cup late'
    BY <2>1, <2>3, GivenLate
  <2>5. held' = <<>> /\ due' = <<>>
    BY <1>2 DEF OpenPty, MayAct, Dialling, dialling, Apart, OneDial
  <2> HIDE DEF f
  <2>6. /\ overrun' => MaxFd \in late'
        /\ \A g \in Owner : fds'[g] \subseteq Room \cup late'
    BY <2>2, <2>3, <2>4, ObtainBeyond
  <2> QED BY <2>5, <2>6 DEF BeyondTable
<1>3. ASSUME NEW h \in Owner, Close(h) PROVE BeyondTable'
  <2>1. PICK f \in fds[h] : /\ Deregister(f)
                            /\ fds' = [fds EXCEPT ![h] = @ \ {f}]
                            /\ late' = late \ ({f} \cup StdinOf(h))
    BY <1>3 DEF Close
  <2>2. \A g \in Owner : fds'[g] = IF g = h THEN fds[g] \ {f} ELSE fds[g]
    BY <2>1 DEF TypeOK
  <2>3. \A g \in Owner : fds'[g] \cap ({f} \cup StdinOf(h)) = {}
    BY <2>1, <2>2 DEF Apart, HandlesApart, StdinOf
  <2>4. ~overrun'
    BY <1>3, <2>1, DeregisterType DEF Close
  <2>5. held' = <<>> /\ due' = <<>>
    BY <1>3 DEF Close, Dialling, dialling, Apart, OneDial
  <2>6. \A g \in Owner : fds'[g] \subseteq Room \cup late'
    BY <2>1, <2>2, <2>3 DEF BeyondTable
  <2> QED BY <2>4, <2>5, <2>6 DEF BeyondTable
<1>4. CASE OpenEnd
  <2> DEFINE f == FirstOf(FreeFds)
  <2>1. held' = Append(held, f) /\ late' = late \cup Lateness(f) /\ UNCHANGED <<table, fds, due>>
    BY <1>4 DEF OpenEnd
  <2>2. f \in Fd
    BY <1>4, LowestFree DEF OpenEnd, FreeFds
  <2>3. f \in Room \cup late'
    BY <1>4, <2>1, GivenLate DEF OpenEnd
  <2> HIDE DEF f
  <2>4. \A i \in 1..Len(held') : held'[i] = f \/ (i \in 1..Len(held) /\ held'[i] = held[i])
    <3>1. held \in Seq(Fd) /\ Len(held) \in Nat
      BY LenProperties DEF TypeOK
    <3>2. /\ Len(held') = Len(held) + 1 /\ held'[Len(held) + 1] = f
          /\ \A i \in 1..Len(held) : held'[i] = held[i]
      BY <2>1, <2>2, <3>1, AppendProperties
    <3> QED BY <3>1, <3>2
  <2> QED BY <2>1, <2>3, <2>4 DEF table, BeyondTable
<1>5. CASE CloseChildEnds
  <2>1. /\ due' = << <<<<dial, "out">>, held[5]>>, <<<<dial, "err">>, held[7]>>, <<<<dial, "pty">>, held[1]>> >>
        /\ late' = late \ {held[3], held[6], held[8]}
        /\ held' = <<>> /\ UNCHANGED fds /\ ~overrun'
    BY <1>5 DEF CloseChildEnds, Opened, table
  <2>2. /\ \A i \in {1, 5, 7} : held[i] \notin {held[3], held[6], held[8]} /\ held[i] \in Room \cup late
        /\ \A h \in Owner : fds[h] \cap {held[3], held[6], held[8]} = {}
    <3>1. \A i \in 1..8 : i \in 1..Len(held)
      BY <1>5 DEF CloseChildEnds, Ends
    <3>2. ASSUME NEW i \in {1, 5, 7}
          PROVE  held[i] # held[3] /\ held[i] # held[6] /\ held[i] # held[8]
      BY <3>1 DEF Apart, HeldApart
    <3>3. \A i \in 1..8 : held[i] \in Room \cup late
      BY <3>1 DEF BeyondTable
    <3>4. \A h \in Owner : held[3] \notin fds[h] /\ held[6] \notin fds[h] /\ held[8] \notin fds[h]
      BY <3>1 DEF Apart, HeldApart
    <3> QED BY <3>2, <3>3, <3>4
  <2>3. \A i \in 1..Len(due') : due'[i][2] \in {held[1], held[5], held[7]}
    BY <2>1
  <2>4. \A i \in 1..Len(due') : due'[i][2] \in Room \cup late'
    BY <2>1, <2>2, <2>3
  <2>5. \A h \in Owner : fds'[h] \subseteq Room \cup late'
    BY <2>1, <2>2 DEF BeyondTable
  <2> QED BY <2>1, <2>4, <2>5 DEF BeyondTable
<1>6. CASE RegisterEnd
  <2> DEFINE h == due[1][1]
             f == due[1][2]
  <2>1. /\ h \in Owner /\ f \in Fd /\ \A g \in Owner : f \notin fds[g]
    BY <1>6, NextDue, Numbers DEF RegisterEnd
  <2>2. Obtain(h, f) /\ ~overrun /\ late' = late /\ held' = held
    BY <1>6 DEF RegisterEnd
  <2>3. 1 \in 1..Len(due)
    BY <1>6, EmptySeq, LenProperties DEF RegisterEnd, TypeOK
  <2>4. f \in Room \cup late'
    BY <2>2, <2>3 DEF BeyondTable
  <2>5. \A i \in 1..Len(due') : due'[i][2] \in Room \cup late'
    BY <1>6, <2>2, NextDue DEF RegisterEnd, BeyondTable
  <2> HIDE DEF h, f
  <2>6. /\ overrun' => MaxFd \in late'
        /\ \A g \in Owner : fds'[g] \subseteq Room \cup late'
    BY <2>1, <2>2, <2>4, ObtainBeyond
  <2> QED BY <2>2, <2>5, <2>6 DEF BeyondTable
<1>7. CASE Loop \/ Undefined \/ UNCHANGED vars
           \/ (\E h \in Owner : BecomesReady(h)) \/ \E c \in Call : Dial(c)
  <2>1. UNCHANGED <<table, kernel, held, due>>
    BY <1>7 DEF Loop, Select, TimeOut, Dispatch, Return, EndPass, Undefined,
                BecomesReady, Dial, vars, dialling
  <2> QED BY <2>1 DEF table, kernel, BeyondTable
<1> QED BY <1>1, <1>2, <1>3, <1>4, <1>5, <1>6, <1>7 DEF Next, DialStep

LEMMA BeyondImplies == TypeOK /\ TableConsistent /\ BeyondTable => OpenIsWatched
<1> SUFFICES ASSUME TypeOK, TableConsistent, BeyondTable,
                    NEW h \in Owner, NEW f \in fds[h] \ late
             PROVE  Index(f) # {}
  BY DEF OpenIsWatched, BeyondTable
<1>1. f \in Room
  BY DEF BeyondTable
<1>2. handles[f] # NoHandle
  BY <1>1, Numbers DEF TableConsistent, HandlesMatch
<1> QED BY <1>1, <1>2 DEF TableConsistent, EntriesMatch, Index

(* An open handle goes unwatched by select(), or the table of io.c is       *)
(* overrun, only through a number that was given when more than MAX_FD were *)
(* open at once, the pipe ends of a call that is being dialled included: a  *)
(* table that was full at some time does no harm to what is opened later,   *)
(* for tables of any size and any number of calls.                          *)
THEOREM WatchedUnlessFull == SafeSpec => []OpenIsWatched
<1> DEFINE IInv == TypeOK /\ Apart /\ TableConsistent /\ BeyondTable
<1>1. Init => IInv
  <2>1. Init => BeyondTable
    BY EmptySeq DEF Init, BeyondTable
  <2> QED BY <2>1, TypeInit, ApartInit, TableInit
<1>2. IInv /\ [Next]_vars => IInv'
  BY TypeStep, ApartStep, TableStep, BeyondStep
<1>3. IInv => OpenIsWatched
  BY BeyondImplies
<1> QED BY <1>1, <1>2, <1>3, PTL DEF SafeSpec
=============================================================================
