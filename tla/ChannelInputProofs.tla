------------------------- MODULE ChannelInputProofs -------------------------
(***************************************************************************)
(* What ChannelInput promises to pppd and to on_cmd_line(), for everything *)
(* a host may send, every way in which read() cuts it and every buffer.    *)
(***************************************************************************)
EXTENDS ChannelInput, SequenceTheorems, FiniteSetTheorems, WellFoundedInduction, TLAPS

-----------------------------------------------------------------------------
(* What pppd gets.  PppGetsAll is its own inductive invariant. *)

LEMMA PlusesAre ==
  ASSUME NEW n \in Nat
  PROVE  Pluses(n) \in Seq(Character) /\ Len(Pluses(n)) = n
<1>1. \A i \in 1..n : "+" \in Character
  BY ScriptAssumption
<1> QED BY <1>1 DEF Pluses

LEMMA PlusesAdd ==
  ASSUME NEW m \in Nat, NEW n \in Nat
  PROVE  Pluses(m) \o Pluses(n) = Pluses(m + n)
<1> DEFINE L == Pluses(m) \o Pluses(n)
           R == Pluses(m + n)
<1>1. /\ Pluses(m) \in Seq(Character) /\ Len(Pluses(m)) = m
      /\ Pluses(n) \in Seq(Character) /\ Len(Pluses(n)) = n
      /\ R \in Seq(Character) /\ Len(R) = m + n
  BY PlusesAre
<1>2. L \in Seq(Character) /\ Len(L) = m + n
  BY <1>1, ConcatProperties
<1>3. ASSUME NEW i \in 1..(m + n) PROVE L[i] = R[i]
  <2>1. i <= m => i \in 1..m
    OBVIOUS
  <2>2. ~(i <= m) => i - m \in 1..n
    OBVIOUS
  <2>3. L[i] = IF i <= m THEN Pluses(m)[i] ELSE Pluses(n)[i - m]
    <3>1. PICK s \in Seq(Character) : s = Pluses(m)
      BY <1>1
    <3>2. PICK t \in Seq(Character) : t = Pluses(n)
      BY <1>1
    <3>3. i \in 1..(Len(s) + Len(t)) /\ Len(s) = m
      BY <1>1, <3>1, <3>2
    <3>4. (s \o t)[i] = IF i <= Len(s) THEN s[i] ELSE t[i - Len(s)]
      BY <3>3, ConcatProperties
    <3> QED BY <3>1, <3>2, <3>3, <3>4
  <2>4. R[i] = "+"
    BY DEF Pluses
  <2>5. i <= m => Pluses(m)[i] = "+"
    BY <2>1 DEF Pluses
  <2>6. ~(i <= m) => Pluses(n)[i - m] = "+"
    BY <2>2 DEF Pluses
  <2> QED BY <2>3, <2>4, <2>5, <2>6
<1> HIDE DEF L, R
<1> QED BY <1>1, <1>2, <1>3, SeqEqual DEF L, R

(* What a read() takes and what it leaves. *)
LEMMA ReadTakes ==
  ASSUME NEW s \in Seq(Character), NEW n \in 1..Len(s)
  PROVE  /\ SubSeq(s, 1, n) \in Seq(Character) /\ Len(SubSeq(s, 1, n)) = n
         /\ SubSeq(s, n + 1, Len(s)) \in Seq(Character)
<1>1. \A i \in 1..Len(s) : s[i] \in Character
  BY ElementOfSeq
<1>2. /\ SubSeq(s, 1, n) \in Seq(Character)
      /\ Len(SubSeq(s, 1, n)) = IF 1 <= n THEN n - 1 + 1 ELSE 0
  BY <1>1, SubSeqProperties
<1>3. SubSeq(s, n + 1, Len(s)) \in Seq(Character)
  <2>1. \A i \in (n + 1)..Len(s) : s[i] \in Character
    BY <1>1
  <2>2. n + 1 \in Int /\ Len(s) \in Int
    OBVIOUS
  <2> QED BY <2>1, <2>2, SubSeqProperties
<1> QED BY <1>2, <1>3

LEMMA AddedIs ==
  ASSUME TypeOK, NEW c \in Character
  PROVE  Added(c) \in Seq(Character)
<1>1. ESCAPE \in Character
  BY ScriptAssumption
<1>2. <<c>> \in Seq(Character) /\ <<ESCAPE, c>> \in Seq(Character) /\ buff \in Seq(Character)
  <2>1. PICK e \in Character : e = ESCAPE
    BY <1>1
  <2>2. <<c>> \in Seq(Character) /\ <<e, c>> \in Seq(Character)
    OBVIOUS
  <2> QED BY <2>1, <2>2 DEF TypeOK
<1>3. /\ buff \o <<c>> \in Seq(Character) /\ buff \o <<ESCAPE, c>> \in Seq(Character)
      /\ Append(buff, c) \in Seq(Character)
  BY <1>2, ConcatProperties, AppendProperties
<1> QED BY <1>2, <1>3 DEF Added

(* The parts of the invariant. *)
HostTyped == pipe \in Seq(Character) /\ chunk \in Seq(Character)
ReaderTyped == /\ escaped \in BOOLEAN /\ buff \in Seq(Character)
               /\ typed \in Seq(Character) /\ lines \in Seq(Seq(Character))
CallTyped == sent \in Seq(Character) /\ toPpp \in Seq(Character)
ControlTyped == mode \in {"CMD", "DATA"} /\ ending \in {"none", "escape", "exit"} /\ plus_cnt \in 0..3
Passed == mode = "DATA" => toPpp \o Pluses(plus_cnt) = sent /\ (ending = "none" => plus_cnt < 3)

LEMMA PppParts ==
  /\ PppGetsAll <=> HostTyped /\ ReaderTyped /\ CallTyped /\ ControlTyped /\ Passed
  /\ PppGetsAll' <=> HostTyped' /\ ReaderTyped' /\ CallTyped' /\ ControlTyped' /\ Passed'
BY DEF PppGetsAll, TypeOK, HostTyped, ReaderTyped, CallTyped, ControlTyped, Passed

LEMMA ReaderUnchanged == ReaderTyped /\ UNCHANGED reader => ReaderTyped'
BY DEF ReaderTyped, reader

LEMMA CallUnchanged == CallTyped /\ UNCHANGED call => CallTyped'
BY DEF CallTyped, call

LEMMA ReaderReset == line_reader_reset => ReaderTyped'
<1>1. <<>> \in Seq(Character)
  BY EmptySeq
<1>2. <<>> \in Seq(Seq(Character))
  BY EmptySeq
<1> QED BY <1>1, <1>2 DEF line_reader_reset, ReaderTyped

LEMMA NoPluses == Pluses(0) = <<>>
<1>1. Pluses(0) \in Seq(Character) /\ Len(Pluses(0)) = 0
  BY PlusesAre
<1> QED BY <1>1, EmptySeq

LEMMA CallStarts == StartCall => CallTyped' /\ Passed'
<1> SUFFICES ASSUME StartCall PROVE CallTyped' /\ Passed'
  OBVIOUS
<1>1. <<>> \in Seq(Character)
  BY EmptySeq
<1>2. <<>> \o <<>> = <<>>
  BY <1>1, ConcatEmptySeq
<1>3. toPpp' \o Pluses(plus_cnt') = sent'
  BY <1>2, NoPluses DEF StartCall
<1>4. plus_cnt' < 3
  BY DEF StartCall
<1> QED BY <1>1, <1>3, <1>4 DEF StartCall, CallTyped, Passed

LEMMA PppInit == Init => PppGetsAll
<1> SUFFICES ASSUME Init PROVE PppGetsAll
  OBVIOUS
<1>1. <<>> \in Seq(Character)
  BY EmptySeq
<1>2. <<>> \in Seq(Seq(Character))
  BY EmptySeq
<1>3. pipe \in Seq(Character)
  BY ScriptAssumption DEF Init
<1>4. HostTyped
  BY <1>1, <1>3 DEF Init, HostTyped
<1>5. ReaderTyped
  BY <1>1, <1>2 DEF Init, ReaderTyped
<1>6. CallTyped
  BY <1>1 DEF Init, CallTyped
<1>7. ControlTyped /\ Passed
  BY DEF Init, ControlTyped, Passed
<1> QED BY <1>4, <1>5, <1>6, <1>7, PppParts

LEMMA PppCharacter ==
  ASSUME PppGetsAll, ReadCharacter
  PROVE  PppGetsAll'
<1> DEFINE c == Head(chunk)
<1>1. HostTyped /\ ReaderTyped /\ CallTyped /\ ControlTyped /\ Passed /\ TypeOK /\ chunk # <<>>
  BY PppParts DEF PppGetsAll, ReadCharacter
<1>2. c \in Character /\ Tail(chunk) \in Seq(Character)
  BY <1>1, HeadTailProperties DEF HostTyped
<1>3. Added(c) \in Seq(Character)
  BY <1>1, <1>2, AddedIs
<1>4. /\ chunk' = Tail(chunk) /\ escaped' = (~escaped /\ c = ESCAPE) /\ typed' = Append(typed, c)
      /\ pipe' = pipe /\ ending' = ending
      /\ \/ lines' = Append(lines, Added(c)) /\ buff' = <<>>
         \/ lines' = lines /\ buff' = Added(c)
      /\ NoCall \/ (mode = "CMD" /\ ending = "none" /\ StartCall)
  BY DEF ReadCharacter, MayCall
<1> HIDE DEF c
<1>5. HostTyped'
  BY <1>1, <1>2, <1>4 DEF HostTyped
<1>6. ReaderTyped'
  <2>1. typed' \in Seq(Character)
    BY <1>1, <1>2, <1>4, AppendProperties DEF ReaderTyped
  <2>2. lines' \in Seq(Seq(Character))
    <3>1. PICK a \in Seq(Character) : a = Added(c)
      BY <1>3
    <3>2. PICK l \in Seq(Seq(Character)) : l = lines
      BY <1>1 DEF ReaderTyped
    <3>3. Append(l, a) \in Seq(Seq(Character))
      BY AppendProperties
    <3> QED BY <1>4, <3>1, <3>2, <3>3
  <2>3. buff' \in Seq(Character)
    BY <1>3, <1>4, EmptySeq
  <2>4. escaped' \in BOOLEAN
    BY <1>4
  <2> QED BY <2>1, <2>2, <2>3, <2>4 DEF ReaderTyped
<1>7. CallTyped' /\ Passed' /\ ControlTyped'
  <2>1. CASE NoCall
    BY <1>1, <1>4, <2>1 DEF NoCall, call, CallTyped, Passed, ControlTyped
  <2>2. CASE StartCall
    <3>1. ControlTyped'
      BY <1>1, <1>4, <2>2 DEF StartCall, ControlTyped
    <3> QED BY <2>2, <3>1, CallStarts
  <2> QED BY <1>4, <2>1, <2>2
<1> QED BY <1>5, <1>6, <1>7, PppParts

LEMMA PppData ==
  ASSUME PppGetsAll, DataChunk
  PROVE  PppGetsAll'
<1>1. HostTyped /\ ReaderTyped /\ CallTyped /\ ControlTyped /\ Passed
  BY PppParts
<1>2. /\ mode = "DATA" /\ chunk' = chunk /\ toPpp \o Pluses(plus_cnt) = sent
      /\ plus_cnt \in Nat /\ plus_cnt <= 3
  BY <1>1 DEF Passed, DataChunk, ControlTyped
<1>3. PICK n \in 1..Len(pipe) :
       /\ Take(n)
       /\ sent' = sent \o First(n)
       /\ \/ /\ ~Kept(First(n)) /\ Forward(First(n))
             /\ UNCHANGED <<mode, ending, reader>>
          \/ /\ Kept(First(n)) /\ plus_cnt + n < 3
             /\ plus_cnt' = plus_cnt + n /\ UNCHANGED <<mode, ending, reader, toPpp>>
          \/ /\ Kept(First(n)) /\ plus_cnt + n = 3
             /\ HangUp /\ UNCHANGED toPpp
  BY DEF DataChunk
<1>4. n \in Nat /\ n >= 1
  OBVIOUS
<1>5. PICK f \in Seq(Character) : f = First(n) /\ Len(f) = n
  BY <1>1, ReadTakes DEF First, HostTyped
<1>6. HostTyped'
  BY <1>1, <1>2, <1>3, ReadTakes DEF Take, HostTyped
<1>7. PICK t \in Seq(Character) : t = toPpp
  BY <1>1 DEF CallTyped
<1>8. PICK p \in Seq(Character) : p = Pluses(plus_cnt) /\ Len(p) = plus_cnt
  BY <1>2, PlusesAre
<1>9. sent' = (t \o p) \o f
  BY <1>2, <1>3, <1>5, <1>7, <1>8
<1>10. t \o p \in Seq(Character) /\ (t \o p) \o f \in Seq(Character)
  BY ConcatProperties
<1>11. CASE ~Kept(f) /\ Forward(f) /\ UNCHANGED <<mode, ending, reader>>
  <2>1. toPpp' = (t \o p) \o f /\ plus_cnt' = 0
    BY <1>7, <1>8, <1>11 DEF Forward
  <2>2. CallTyped'
    BY <1>9, <1>10, <2>1 DEF CallTyped
  <2>3. ((t \o p) \o f) \o <<>> = (t \o p) \o f
    BY <1>10, ConcatEmptySeq
  <2>4. toPpp' \o Pluses(plus_cnt') = sent'
    BY <1>9, <2>1, <2>3, NoPluses
  <2>5. Passed'
    BY <2>1, <2>4 DEF Passed
  <2>6. ControlTyped'
    BY <1>1, <1>11, <2>1 DEF ControlTyped
  <2> QED BY <1>1, <1>6, <1>11, <2>2, <2>5, <2>6, ReaderUnchanged, PppParts
<1>12. ASSUME Kept(f) PROVE toPpp \o Pluses(plus_cnt + n) = sent'
  <2>1. f = Pluses(n)
    BY <1>5, <1>12 DEF Kept
  <2>2. p \o f = Pluses(plus_cnt + n)
    BY <1>2, <1>4, <1>8, <2>1, PlusesAdd
  <2>3. (t \o p) \o f = t \o (p \o f)
    BY ConcatAssociative
  <2> QED BY <1>7, <1>9, <2>2, <2>3
<1>13. ASSUME toPpp' = toPpp PROVE CallTyped'
  BY <1>7, <1>9, <1>10, <1>13 DEF CallTyped
<1>14. CASE /\ Kept(f) /\ plus_cnt + n < 3
            /\ plus_cnt' = plus_cnt + n /\ UNCHANGED <<mode, ending, reader, toPpp>>
  <2>1. plus_cnt' \in 0..3 /\ plus_cnt' < 3
    BY <1>2, <1>4, <1>14
  <2>2. toPpp' \o Pluses(plus_cnt') = sent'
    BY <1>12, <1>14
  <2>3. Passed' /\ ControlTyped'
    BY <1>1, <1>14, <2>1, <2>2 DEF Passed, ControlTyped
  <2> QED BY <1>1, <1>6, <1>13, <1>14, <2>3, ReaderUnchanged, PppParts
<1>15. CASE Kept(f) /\ plus_cnt + n = 3 /\ HangUp /\ UNCHANGED toPpp
  <2>1. CASE ending = "none"
    <3>1. ending' = "escape" /\ plus_cnt' = 3 /\ UNCHANGED <<mode, reader>>
      BY <1>15, <2>1 DEF HangUp
    <3>2. toPpp' \o Pluses(plus_cnt') = sent'
      BY <1>12, <1>15, <3>1
    <3>3. Passed'
      BY <3>1, <3>2 DEF Passed
    <3>4. ControlTyped'
      BY <1>1, <3>1 DEF ControlTyped
    <3> QED BY <1>1, <1>6, <1>13, <1>15, <3>1, <3>3, <3>4, ReaderUnchanged, PppParts
  <2>2. CASE ending # "none"
    <3>1. mode' = "CMD" /\ plus_cnt' = 0 /\ line_reader_reset /\ UNCHANGED ending
      BY <1>15, <2>2 DEF HangUp
    <3>2. Passed' /\ ControlTyped'
      BY <1>1, <3>1 DEF Passed, ControlTyped
    <3> QED BY <1>6, <1>13, <1>15, <3>1, <3>2, ReaderReset, PppParts
  <2> QED BY <2>1, <2>2
<1> QED BY <1>3, <1>5, <1>11, <1>14, <1>15

LEMMA PppStep == PppGetsAll /\ [Next]_vars => PppGetsAll'
<1> SUFFICES ASSUME PppGetsAll, [Next]_vars PROVE PppGetsAll'
  OBVIOUS
<1>1. HostTyped /\ ReaderTyped /\ CallTyped /\ ControlTyped /\ Passed
  BY PppParts
<1>2. CASE ReadCharacter
  BY <1>2, PppCharacter
<1>3. CASE CommandChunk
  <2>1. PICK n \in 1..Len(pipe) : Take(n) /\ chunk' = First(n)
    BY <1>3 DEF CommandChunk
  <2>2. HostTyped'
    BY <1>1, <2>1, ReadTakes DEF Take, First, HostTyped
  <2>3. UNCHANGED <<mode, ending, plus_cnt, reader, call>>
    BY <1>3 DEF CommandChunk
  <2>4. ControlTyped' /\ Passed'
    BY <1>1, <2>3 DEF ControlTyped, Passed, call
  <2> QED BY <1>1, <2>2, <2>3, <2>4, ReaderUnchanged, CallUnchanged, PppParts
<1>4. CASE DataChunk
  BY <1>4, PppData
<1>5. CASE CarrierLost
  <2>1. ending' = "exit" /\ UNCHANGED <<pipe, chunk, mode, plus_cnt, reader, call>>
    BY <1>5 DEF CarrierLost
  <2>2. ControlTyped' /\ Passed'
    BY <1>1, <2>1 DEF ControlTyped, Passed, call
  <2>3. HostTyped'
    BY <1>1, <2>1 DEF HostTyped
  <2> QED BY <1>1, <2>1, <2>2, <2>3, ReaderUnchanged, CallUnchanged, PppParts
<1>6. CASE CallEnds
  <2>1. ending' = "none" /\ UNCHANGED <<pipe, chunk, call>>
    BY <1>6 DEF CallEnds
  <2>2. HostTyped'
    BY <1>1, <2>1 DEF HostTyped
  <2>3. CASE ending = "escape" \/ mode = "DATA"
    <3>1. /\ mode' = "CMD" /\ line_reader_reset
          /\ plus_cnt' = IF ending = "escape" THEN 0 ELSE plus_cnt
      BY <1>6, <2>3 DEF CallEnds
    <3>2. ControlTyped' /\ Passed'
      BY <1>1, <2>1, <3>1 DEF ControlTyped, Passed
    <3> QED BY <1>1, <2>1, <2>2, <3>1, <3>2, ReaderReset, CallUnchanged, PppParts
  <2>4. CASE ~(ending = "escape" \/ mode = "DATA")
    <3>1. UNCHANGED <<mode, plus_cnt, reader>>
      BY <1>6, <2>4 DEF CallEnds
    <3>2. ControlTyped' /\ Passed'
      BY <1>1, <2>1, <2>4, <3>1 DEF ControlTyped, Passed
    <3> QED BY <1>1, <2>1, <2>2, <3>1, <3>2, ReaderUnchanged, CallUnchanged, PppParts
  <2> QED BY <2>3, <2>4
<1>7. CASE UNCHANGED vars
  <2>1. UNCHANGED <<pipe, chunk, mode, ending, plus_cnt, reader, call>>
    BY <1>7 DEF vars
  <2>2. HostTyped' /\ ControlTyped' /\ Passed'
    BY <1>1, <2>1 DEF HostTyped, ControlTyped, Passed, call
  <2> QED BY <1>1, <2>1, <2>2, ReaderUnchanged, CallUnchanged, PppParts
<1> QED BY <1>2, <1>3, <1>4, <1>5, <1>6, <1>7 DEF Next, Silence

(* pppd gets every character that is read in data mode, once and in order,  *)
(* but for less than three pluses that may yet become an escape; those that *)
(* do not become one are not lost (at_engine_input, plus_cnt). *)
THEOREM NothingKeptFromPppd == Spec => []PppGetsAll
BY PppInit, PppStep, PTL DEF Spec

-----------------------------------------------------------------------------
(* Sequences of sequences, one behind the other. *)

(* A set of numbers has a least one; this is induction by a least counter-  *)
(* example. *)
LEMMA Minimum ==
  ASSUME NEW S \in SUBSET Nat, S # {}
  PROVE  \E m \in S : \A n \in S : m <= n
<1> DEFINE Below == {1..n : n \in S}
           R == StrictSubsetOrdering(Nat)
<1>1. Below \subseteq FiniteSubsetsOf(Nat) /\ Below # {}
  <2>1. \A n \in S : IsFiniteSet(1..n) /\ 1..n \in SUBSET Nat
    BY FS_Interval
  <2> QED BY <2>1 DEF FiniteSubsetsOf
<1>2. \E x \in Below : \A y \in Below : <<y, x>> \notin R
  <2>1. IsWellFoundedOn(R, FiniteSubsetsOf(Nat))
    BY FS_StrictSubsetOrderingWellFounded
  <2> HIDE DEF Below, R
  <2> QED BY <1>1, <2>1, WFMin
<1>3. PICK m \in S : \A n \in S : <<1..n, 1..m>> \notin R
  BY <1>2
<1>4. ASSUME NEW n \in S, n < m PROVE FALSE
  <2>1. 1..n \subseteq 1..m /\ m \in 1..m /\ m \notin 1..n
    BY <1>4
  <2>2. <<1..n, 1..m>> \in R
    BY <2>1 DEF StrictSubsetOrdering
  <2> QED BY <1>3, <2>2
<1> QED BY <1>3, <1>4

(* The recursion of FlattenSeq, up to the n-th sequence. *)
Flattens(f, s, n) == f = [i \in 1..n |-> IF i = 1 THEN s[i] ELSE f[i - 1] \o s[i]]

LEMMA FlattensExists ==
  ASSUME NEW s, NEW N \in Nat
  PROVE  \E f : Flattens(f, s, N)
<1> DEFINE Without == {n \in Nat : ~ \E f : Flattens(f, s, n)}
<1>1. SUFFICES ASSUME Without # {} PROVE FALSE
  OBVIOUS
<1>2. PICK m \in Without : \A n \in Without : m <= n
  <2>1. Without \in SUBSET Nat
    OBVIOUS
  <2> HIDE DEF Without
  <2> QED BY <1>1, <2>1, Minimum
<1>3. m # 0
  <2> DEFINE e == [i \in 1..0 |-> s[i]]
  <2>1. e = [i \in 1..0 |-> IF i = 1 THEN s[i] ELSE e[i - 1] \o s[i]]
    OBVIOUS
  <2>2. Flattens(e, s, 0)
    BY <2>1 DEF Flattens
  <2> QED BY <2>2
<1>4. m \in Nat /\ m - 1 \in Nat /\ m - 1 \notin Without
  BY <1>2, <1>3
<1>5. PICK f : Flattens(f, s, m - 1)
  BY <1>4
<1> DEFINE g == [i \in 1..m |-> IF i < m THEN f[i] ELSE IF i = 1 THEN s[i] ELSE f[i - 1] \o s[i]]
           h == [i \in 1..m |-> IF i = 1 THEN s[i] ELSE g[i - 1] \o s[i]]
<1>6. ASSUME NEW i \in 1..m PROVE g[i] = IF i = 1 THEN s[i] ELSE g[i - 1] \o s[i]
  <2>1. i # 1 => i - 1 \in 1..m /\ i - 1 < m
    BY <1>4
  <2>2. i # 1 => g[i - 1] = f[i - 1]
    BY <2>1
  <2>3. CASE i < m
    <3>1. i \in 1..(m - 1)
      BY <1>4, <2>3
    <3>2. f[i] = IF i = 1 THEN s[i] ELSE f[i - 1] \o s[i]
      BY <1>5, <3>1 DEF Flattens
    <3>3. g[i] = f[i]
      BY <2>3
    <3> HIDE DEF g
    <3> QED BY <2>2, <3>2, <3>3
  <2>4. CASE ~(i < m)
    <3>1. g[i] = IF i = 1 THEN s[i] ELSE f[i - 1] \o s[i]
      BY <2>4
    <3> HIDE DEF g
    <3> QED BY <2>2, <3>1
  <2> QED BY <2>3, <2>4
<1>7. g = h
  <2>1. \A i \in 1..m : g[i] = h[i]
    BY <1>6
  <2> QED BY <2>1
<1>8. Flattens(g, s, m)
  BY <1>7 DEF Flattens
<1> QED BY <1>2, <1>8

LEMMA FlattenSeqIs ==
  ASSUME NEW s, Len(s) \in Nat
  PROVE  /\ Len(s) = 0 => FlattenSeq(s) = s
         /\ Len(s) # 0 => \E f : Flattens(f, s, Len(s)) /\ FlattenSeq(s) = f[Len(s)]
<1>1. PICK f : Flattens(f, s, Len(s))
  BY FlattensExists
<1> DEFINE g == CHOOSE f_1 : f_1 = [i \in 1..Len(s) |-> IF i = 1 THEN s[i] ELSE f_1[i - 1] \o s[i]]
<1>2. Flattens(g, s, Len(s))
  BY <1>1 DEF Flattens
<1>3. Len(s) # 0 => FlattenSeq(s) = g[Len(s)]
  BY DEF FlattenSeq
<1>4. Len(s) = 0 => FlattenSeq(s) = s
  BY DEF FlattenSeq
<1> HIDE DEF g
<1> QED BY <1>2, <1>3, <1>4

LEMMA FlattensAgree ==
  ASSUME NEW S, NEW s \in Seq(Seq(S)), NEW t \in Seq(Seq(S)),
         NEW n \in Nat, n <= Len(s), n <= Len(t), \A i \in 1..n : s[i] = t[i],
         NEW f, Flattens(f, s, Len(s)), NEW g, Flattens(g, t, Len(t))
  PROVE  \A i \in 1..n : f[i] = g[i] /\ f[i] \in Seq(S)
<1> DEFINE Wrong == {i \in 1..n : ~(f[i] = g[i] /\ f[i] \in Seq(S))}
<1>1. SUFFICES ASSUME Wrong # {} PROVE FALSE
  OBVIOUS
<1>2. PICK k \in Wrong : \A i \in Wrong : k <= i
  <2>1. Wrong \in SUBSET Nat
    OBVIOUS
  <2> HIDE DEF Wrong
  <2> QED BY <1>1, <2>1, Minimum
<1>3. k \in 1..n /\ k \in 1..Len(s) /\ k \in 1..Len(t) /\ s[k] = t[k]
  OBVIOUS
<1>4. s[k] \in Seq(S)
  BY <1>3, ElementOfSeq
<1>5. /\ f[k] = IF k = 1 THEN s[k] ELSE f[k - 1] \o s[k]
      /\ g[k] = IF k = 1 THEN t[k] ELSE g[k - 1] \o t[k]
  BY <1>3 DEF Flattens
<1>6. CASE k = 1
  BY <1>3, <1>4, <1>5, <1>6
<1>7. CASE k # 1
  <2>1. k - 1 \in 1..n /\ k - 1 \notin Wrong
    <3>1. k - 1 \in 1..n /\ ~(k <= k - 1)
      BY <1>3, <1>7
    <3> HIDE DEF Wrong
    <3> QED BY <1>2, <3>1
  <2>2. f[k - 1] = g[k - 1] /\ f[k - 1] \in Seq(S)
    BY <2>1
  <2>3. f[k - 1] \o s[k] \in Seq(S)
    BY <1>4, <2>2, ConcatProperties
  <2> QED BY <1>3, <1>5, <1>7, <2>2, <2>3
<1> QED BY <1>6, <1>7

LEMMA FlattenEmpty == FlattenSeq(<<>>) = <<>>
BY FlattenSeqIs

LEMMA FlattenTyped ==
  ASSUME NEW S, NEW s \in Seq(Seq(S))
  PROVE  FlattenSeq(s) \in Seq(S)
<1>1. CASE Len(s) = 0
  <2>1. s = <<>>
    BY <1>1, EmptySeq
  <2>2. <<>> \in Seq(S)
    BY EmptySeq
  <2> QED BY <2>1, <2>2, FlattenEmpty
<1>2. CASE Len(s) # 0
  <2>1. PICK f : Flattens(f, s, Len(s)) /\ FlattenSeq(s) = f[Len(s)]
    BY <1>2, FlattenSeqIs
  <2>2. \A i \in 1..Len(s) : f[i] = f[i] /\ f[i] \in Seq(S)
    BY <2>1, FlattensAgree
  <2> QED BY <1>2, <2>1, <2>2
<1> QED BY <1>1, <1>2

LEMMA FlattenAppend ==
  ASSUME NEW S, NEW s \in Seq(Seq(S)), NEW e \in Seq(S)
  PROVE  FlattenSeq(Append(s, e)) = FlattenSeq(s) \o e
<1> DEFINE t == Append(s, e)
           n == Len(s)
<1>1. /\ t \in Seq(Seq(S)) /\ Len(t) = n + 1 /\ n \in Nat
      /\ t[n + 1] = e /\ \A i \in 1..n : s[i] = t[i]
  BY AppendProperties
<1> HIDE DEF t
<1>2. PICK g : Flattens(g, t, n + 1) /\ FlattenSeq(t) = g[n + 1]
  <2>1. Len(t) # 0 /\ Len(t) \in Nat
    BY <1>1
  <2> QED BY <1>1, <2>1, FlattenSeqIs
<1>3. g[n + 1] = IF n + 1 = 1 THEN e ELSE g[n] \o e
  <2>1. n + 1 \in 1..(n + 1) /\ (n + 1) - 1 = n
    BY <1>1
  <2> QED BY <1>1, <1>2, <2>1 DEF Flattens
<1>4. CASE n = 0
  <2>1. s = <<>>
    BY <1>4, EmptySeq
  <2>2. <<>> \o e = e
    BY ConcatEmptySeq
  <2> QED BY <1>2, <1>3, <1>4, <2>1, <2>2, FlattenEmpty DEF t
<1>5. CASE n # 0
  <2>1. PICK f : Flattens(f, s, n) /\ FlattenSeq(s) = f[n]
    BY <1>1, <1>5, FlattenSeqIs
  <2>2. \A i \in 1..n : f[i] = g[i]
    <3>1. n <= Len(s) /\ n <= Len(t) /\ n \in Nat
      BY <1>1
    <3>2. Flattens(f, s, Len(s)) /\ Flattens(g, t, Len(t))
      BY <1>1, <1>2, <2>1
    <3>3. \A i \in 1..n : s[i] = t[i]
      BY <1>1
    <3>4. t \in Seq(Seq(S))
      BY <1>1
    <3> HIDE DEF n
    <3>5. \A i \in 1..n : f[i] = g[i] /\ f[i] \in Seq(S)
      BY <3>1, <3>2, <3>3, <3>4, FlattensAgree
    <3> QED BY <3>5
  <2>3. f[n] = g[n]
    BY <1>1, <1>5, <2>2
  <2> QED BY <1>1, <1>2, <1>3, <1>5, <2>1, <2>3 DEF t
<1> QED BY <1>4, <1>5

-----------------------------------------------------------------------------
(* Characters, one text behind the other. *)
LEMMA TextsGrouped ==
  ASSUME NEW a \in Seq(Character), NEW b \in Seq(Character), NEW c \in Seq(Character)
  PROVE  (a \o b) \o c = a \o (b \o c)
BY ConcatAssociative

(* The reader: LinesAsTyped as a relation between what was typed, the lines *)
(* handed over and the buffer.                                              *)

Run(t, i) == {j \in 1..(i - 1) : \A k \in j..(i - 1) : t[k] = ESCAPE}
EscIn(t, i) == i > 1 /\ Cardinality(Run(t, i)) % 2 = 1
TokIn(t, i) ==
  IF EscIn(t, i) THEN (IF t[i] = NEWLINE THEN <<NEWLINE>> ELSE <<ESCAPE, t[i]>>)
  ELSE IF t[i] \in {ESCAPE, NEWLINE} THEN <<>> ELSE <<t[i]>>
KeptIn(t, n) == FlattenSeq([i \in 1..n |-> TokIn(t, i)])
EndsAt(t, i) == t[i] = NEWLINE /\ ~EscIn(t, i)
EndsIn(t) == {Len(KeptIn(t, i)) : i \in {i \in DOMAIN t : EndsAt(t, i)}} \ {0}
HandedIn(l, n) == FlattenSeq(SubSeq(l, 1, n))

AllKept(t, l, b) == HandedIn(l, Len(l)) \o b = KeptIn(t, Len(t))
EndsHanded(t, l) == EndsIn(t) \subseteq {Len(HandedIn(l, n)) : n \in DOMAIN l}
LineFine(t, l, n) == /\ Len(l[n]) \in 1..(BufLen - 1)
                     /\ Len(HandedIn(l, n)) \in EndsIn(t) \/ Len(l[n]) >= Cap
ReaderSound(t, l, b) == /\ AllKept(t, l, b) /\ EndsHanded(t, l)
                        /\ \A n \in DOMAIN l : LineFine(t, l, n)
                        /\ Len(b) < Cap

LEMMA LinesAsTypedIs == LinesAsTyped <=> ReaderSound(typed, lines, buff)
<1>1. \A i : EscapedAt(i) <=> EscIn(typed, i)
  BY DEF EscapedAt, EscIn, Run
<1>2. \A i : Token(i) = TokIn(typed, i)
  BY <1>1 DEF Token, TokIn
<1>3. \A n : KeptTo(n) = KeptIn(typed, n)
  BY <1>2 DEF KeptTo, KeptIn
<1>4. LineEnds = EndsIn(typed)
  BY <1>1, <1>3 DEF LineEnds, EndsIn, EndsAt
<1>5. \A n : Handed(n) = HandedIn(lines, n)
  BY DEF Handed, HandedIn
<1> QED BY <1>3, <1>4, <1>5 DEF LinesAsTyped, ReaderSound, AllKept, EndsHanded, LineFine

(* A further backslash turns the parity of the run over, anything else      *)
(* ends the run. *)
LEMMA EscapedNext ==
  ASSUME NEW t \in Seq(Character), NEW n \in 1..Len(t)
  PROVE  EscIn(t, n + 1) <=> ~EscIn(t, n) /\ t[n] = ESCAPE
<1>1. n \in Nat /\ n >= 1
  OBVIOUS
<1>2. IsFiniteSet(Run(t, n)) /\ Cardinality(Run(t, n)) \in Nat
  <2>1. IsFiniteSet(1..(n - 1))
    BY <1>1, FS_Interval
  <2>2. Run(t, n) \subseteq 1..(n - 1)
    BY DEF Run
  <2> QED BY <2>1, <2>2, FS_Subset, FS_CardinalityType
<1>3. EscIn(t, n) <=> Cardinality(Run(t, n)) % 2 = 1
  <2>1. CASE n = 1
    <3>1. Run(t, n) = {}
      BY <2>1 DEF Run
    <3>2. Cardinality({}) % 2 # 1
      BY FS_EmptySet
    <3> QED BY <2>1, <3>1, <3>2 DEF EscIn
  <2>2. CASE n # 1
    BY <1>1, <2>2 DEF EscIn
  <2> QED BY <2>1, <2>2
<1>4. EscIn(t, n + 1) <=> Cardinality(Run(t, n + 1)) % 2 = 1
  BY <1>1 DEF EscIn
<1>5. CASE t[n] = ESCAPE
  <2>1. Run(t, n + 1) = Run(t, n) \cup {n}
    <3>1. ASSUME NEW j \in Run(t, n + 1) PROVE j \in Run(t, n) \cup {n}
      <4>1. j \in 1..n /\ \A k \in j..n : t[k] = ESCAPE
        BY <1>1, <3>1 DEF Run
      <4>2. j # n => j \in 1..(n - 1) /\ \A k \in j..(n - 1) : k \in j..n
        BY <1>1, <4>1
      <4> QED BY <4>1, <4>2 DEF Run
    <3>2. ASSUME NEW j \in Run(t, n) \cup {n} PROVE j \in Run(t, n + 1)
      <4>1. j \in 1..((n + 1) - 1)
        BY <1>1, <3>2 DEF Run
      <4>2. ASSUME NEW k \in j..((n + 1) - 1) PROVE t[k] = ESCAPE
        <5>1. k = n \/ (k \in j..(n - 1) /\ j # n)
          BY <1>1, <4>1
        <5> QED BY <1>5, <3>2, <5>1 DEF Run
      <4> QED BY <4>1, <4>2 DEF Run
    <3> QED BY <3>1, <3>2
  <2>2. n \notin Run(t, n)
    BY <1>1 DEF Run
  <2>3. Cardinality(Run(t, n + 1)) = Cardinality(Run(t, n)) + 1
    BY <1>2, <2>1, <2>2, FS_AddElement
  <2> QED BY <1>2, <1>3, <1>4, <1>5, <2>3
<1>6. CASE t[n] # ESCAPE
  <2>1. Run(t, n + 1) = {}
    <3>1. ASSUME NEW j \in Run(t, n + 1) PROVE FALSE
      <4>1. n \in j..((n + 1) - 1)
        BY <1>1, <3>1 DEF Run
      <4> QED BY <1>6, <3>1, <4>1 DEF Run
    <3> QED BY <3>1
  <2>2. Cardinality({}) % 2 # 1
    BY FS_EmptySet
  <2> QED BY <1>4, <1>6, <2>1, <2>2
<1> QED BY <1>5, <1>6

LEMMA TokTyped ==
  ASSUME NEW t \in Seq(Character), NEW i \in 1..Len(t)
  PROVE  TokIn(t, i) \in Seq(Character) /\ Len(TokIn(t, i)) <= 2
<1>1. PICK e \in Character : e = ESCAPE
  BY ScriptAssumption
<1>2. PICK w \in Character : w = NEWLINE
  BY ScriptAssumption
<1>3. PICK c \in Character : c = t[i]
  BY ElementOfSeq
<1>4. /\ <<w>> \in Seq(Character) /\ <<e, c>> \in Seq(Character) /\ <<c>> \in Seq(Character)
      /\ Len(<<w>>) = 1 /\ Len(<<e, c>>) = 2 /\ Len(<<c>>) = 1
  OBVIOUS
<1>5. <<>> \in Seq(Character) /\ Len(<<>>) = 0
  BY EmptySeq
<1>6. \/ TokIn(t, i) = <<w>> \/ TokIn(t, i) = <<e, c>>
      \/ TokIn(t, i) = <<>> \/ TokIn(t, i) = <<c>>
  BY <1>1, <1>2, <1>3 DEF TokIn
<1>7. CASE TokIn(t, i) = <<w>>
  BY <1>4, <1>7
<1>8. CASE TokIn(t, i) = <<e, c>>
  BY <1>4, <1>8
<1>9. CASE TokIn(t, i) = <<>>
  BY <1>5, <1>9
<1>10. CASE TokIn(t, i) = <<c>>
  BY <1>4, <1>10
<1> QED BY <1>6, <1>7, <1>8, <1>9, <1>10

LEMMA TokensTyped ==
  ASSUME NEW t \in Seq(Character), NEW n \in 0..Len(t)
  PROVE  /\ [i \in 1..n |-> TokIn(t, i)] \in Seq(Seq(Character))
         /\ Len([i \in 1..n |-> TokIn(t, i)]) = n
         /\ KeptIn(t, n) \in Seq(Character)
<1> DEFINE s == [i \in 1..n |-> TokIn(t, i)]
<1>1. n \in Nat /\ \A i \in 1..n : TokIn(t, i) \in Seq(Character)
  BY TokTyped
<1>2. s \in [1..n -> Seq(Character)]
  BY <1>1
<1>3. s \in Seq(Seq(Character)) /\ Len(s) = n
  BY <1>1, <1>2, SeqDef, LenProperties
<1> HIDE DEF s
<1>4. FlattenSeq(s) \in Seq(Character)
  BY <1>3, FlattenTyped
<1> QED BY <1>3, <1>4 DEF KeptIn, s

(* What one more character changes of what was typed. *)
LEMMA EscapedExtended ==
  ASSUME NEW t \in Seq(Character), NEW c \in Character, NEW i \in 1..(Len(t) + 1)
  PROVE  EscIn(Append(t, c), i) <=> EscIn(t, i)
<1> DEFINE u == Append(t, c)
<1>1. \A k \in 1..Len(t) : u[k] = t[k]
  BY AppendProperties
<1> HIDE DEF u
<1>2. \A j \in 1..(i - 1) : \A k \in j..(i - 1) : u[k] = t[k]
  BY <1>1
<1>3. Run(u, i) = Run(t, i)
  BY <1>2 DEF Run
<1> QED BY <1>3 DEF EscIn, u

LEMMA KeptExtended ==
  ASSUME NEW t \in Seq(Character), NEW c \in Character, NEW n \in 0..Len(t)
  PROVE  KeptIn(Append(t, c), n) = KeptIn(t, n)
<1> DEFINE u == Append(t, c)
<1>1. \A i \in 1..n : u[i] = t[i] /\ (EscIn(u, i) <=> EscIn(t, i))
  BY AppendProperties, EscapedExtended
<1> HIDE DEF u
<1>2. \A i \in 1..n : TokIn(u, i) = TokIn(t, i)
  BY <1>1 DEF TokIn
<1>3. [i \in 1..n |-> TokIn(u, i)] = [i \in 1..n |-> TokIn(t, i)]
  BY <1>2
<1> QED BY <1>3 DEF KeptIn, u

LEMMA KeptNext ==
  ASSUME NEW t \in Seq(Character), NEW c \in Character
  PROVE  KeptIn(Append(t, c), Len(t) + 1)
           = KeptIn(t, Len(t)) \o TokIn(Append(t, c), Len(t) + 1)
<1> DEFINE u == Append(t, c)
           n == Len(t)
           s == [i \in 1..n |-> TokIn(u, i)]
           v == [i \in 1..(n + 1) |-> TokIn(u, i)]
           e == TokIn(u, n + 1)
<1>1. u \in Seq(Character) /\ Len(u) = n + 1 /\ n \in Nat
  BY AppendProperties
<1>2. KeptIn(u, n) = KeptIn(t, n)
  BY <1>1, KeptExtended
<1> HIDE DEF u, n
<1>3. n \in 0..Len(u) /\ n + 1 \in 0..Len(u)
  BY <1>1
<1>4. /\ s \in Seq(Seq(Character)) /\ Len(s) = n
      /\ v \in Seq(Seq(Character)) /\ Len(v) = n + 1
  BY <1>1, <1>3, TokensTyped
<1>5. e \in Seq(Character)
  BY <1>1, TokTyped
<1>6. /\ \A i \in 1..n : v[i] = s[i]
      /\ v[n + 1] = e
  BY <1>1
<1> HIDE DEF s, v, e
<1>7. v = Append(s, e)
  <2>1. Append(s, e) \in Seq(Seq(Character)) /\ Len(Append(s, e)) = n + 1
    BY <1>4, <1>5, AppendProperties
  <2>2. \A i \in 1..n : Append(s, e)[i] = s[i]
    BY <1>4, <1>5, AppendProperties
  <2>3. Append(s, e)[n + 1] = e
    BY <1>4, <1>5, AppendProperties
  <2>4. \A i \in 1..(n + 1) : i \in 1..n \/ i = n + 1
    BY <1>1
  <2>5. \A i \in 1..(n + 1) : Append(s, e)[i] = v[i]
    BY <1>6, <2>2, <2>3, <2>4
  <2> QED BY <1>4, <2>1, <2>5, SeqEqual
<1>8. FlattenSeq(v) = FlattenSeq(s) \o e
  BY <1>4, <1>5, <1>7, FlattenAppend
<1> QED BY <1>2, <1>8 DEF KeptIn, s, v, e, u, n

LEMMA EndsExtended ==
  ASSUME NEW t \in Seq(Character), NEW c \in Character
  PROVE  EndsIn(Append(t, c)) =
           EndsIn(t) \cup (IF EndsAt(Append(t, c), Len(t) + 1)
                           THEN {Len(KeptIn(Append(t, c), Len(t) + 1))} \ {0} ELSE {})
<1> DEFINE u == Append(t, c)
           n == Len(t)
<1>1. n \in Nat /\ DOMAIN t = 1..n /\ DOMAIN u = 1..(n + 1)
  BY AppendProperties, LenProperties
<1>2. \A i \in 1..n : /\ KeptIn(u, i) = KeptIn(t, i)
                      /\ EndsAt(u, i) <=> EndsAt(t, i)
  BY AppendProperties, EscapedExtended, KeptExtended DEF EndsAt
<1> HIDE DEF u, n
<1>3. \A i : i \in 1..(n + 1) <=> i \in 1..n \/ i = n + 1
  BY <1>1
<1> QED BY <1>1, <1>2, <1>3 DEF EndsIn, u, n

(* What one more line changes of what was handed over. *)
LEMMA HandedTyped ==
  ASSUME NEW l \in Seq(Seq(Character)), NEW n \in 0..Len(l)
  PROVE  HandedIn(l, n) \in Seq(Character)
<1>1. \A i \in 1..n : l[i] \in Seq(Character)
  BY ElementOfSeq
<1>2. SubSeq(l, 1, n) \in Seq(Seq(Character))
  BY <1>1, SubSeqProperties
<1> QED BY <1>2, FlattenTyped DEF HandedIn

LEMMA HandedExtended ==
  ASSUME NEW l \in Seq(Seq(Character)), NEW a \in Seq(Character)
  PROVE  /\ \A n \in 0..Len(l) : HandedIn(Append(l, a), n) = HandedIn(l, n)
         /\ HandedIn(Append(l, a), Len(l) + 1) = HandedIn(l, Len(l)) \o a
<1> DEFINE m == Append(l, a)
<1>1. m \in Seq(Seq(Character)) /\ Len(m) = Len(l) + 1 /\ Len(l) \in Nat
  BY AppendProperties
<1>2. \A i \in 1..Len(l) : m[i] = l[i] /\ m[i] \in Seq(Character)
  BY AppendProperties, ElementOfSeq
<1>3. FlattenSeq(m) = FlattenSeq(l) \o a
  BY FlattenAppend
<1> HIDE DEF m
<1>4. ASSUME NEW n \in 0..Len(l) PROVE HandedIn(m, n) = HandedIn(l, n)
  <2> DEFINE s == SubSeq(l, 1, n)
             r == SubSeq(m, 1, n)
  <2>1. \A i \in 1..n : m[i] = l[i] /\ m[i] \in Seq(Character) /\ l[i] \in Seq(Character)
    <3>1. 1..n \subseteq 1..Len(l)
      BY <1>1
    <3> QED BY <1>2, <3>1
  <2>2. /\ s \in Seq(Seq(Character))
        /\ Len(s) = IF 1 <= n THEN n - 1 + 1 ELSE 0
        /\ \A i \in 1..(n - 1 + 1) : s[i] = l[1 + i - 1]
    BY <2>1, SubSeqProperties
  <2>3. /\ r \in Seq(Seq(Character))
        /\ Len(r) = IF 1 <= n THEN n - 1 + 1 ELSE 0
        /\ \A i \in 1..(n - 1 + 1) : r[i] = m[1 + i - 1]
    BY <2>1, SubSeqProperties
  <2> HIDE DEF s, r
  <2>4. Len(s) = Len(r) /\ \A i \in 1..Len(s) : s[i] = r[i]
    BY <2>1, <2>2, <2>3
  <2>5. s = r
    BY <2>2, <2>3, <2>4, SeqEqual
  <2> QED BY <2>5 DEF HandedIn, s, r
<1>5. SubSeq(l, 1, Len(l)) = l
  BY SubSeqFull
<1>6. SubSeq(m, 1, Len(l) + 1) = m
  BY <1>1, SubSeqFull
<1> QED BY <1>3, <1>4, <1>5, <1>6 DEF HandedIn, m

(* One character more: a line ends with it when it is a newline without a   *)
(* backslash behind something, or when the buffer is full. *)
LEMMA ReaderGoesOn ==
  ASSUME NEW t \in Seq(Character), NEW l \in Seq(Seq(Character)), NEW b \in Seq(Character),
         ReaderSound(t, l, b), NEW c \in Character,
         NEW u, u = Append(t, c), NEW a, a = b \o TokIn(u, Len(t) + 1)
  PROVE  IF (EndsAt(u, Len(t) + 1) /\ b # <<>>) \/ Len(a) >= Cap
         THEN ReaderSound(u, Append(l, a), <<>>)
         ELSE ReaderSound(u, l, a)
<1> DEFINE n == Len(t)
           h == HandedIn(l, Len(l))
           k == KeptIn(t, n)
           x == TokIn(u, n + 1)
<1>1. u \in Seq(Character) /\ Len(u) = n + 1 /\ n \in Nat /\ Len(l) \in Nat /\ Len(b) \in Nat
  BY AppendProperties
<1>2. x \in Seq(Character) /\ Len(x) <= 2 /\ Len(x) \in Nat
  <2>1. n + 1 \in 1..Len(u)
    BY <1>1
  <2> HIDE DEF n
  <2>2. x \in Seq(Character) /\ Len(x) <= 2
    BY <1>1, <2>1, TokTyped
  <2> QED BY <2>2, LenProperties
<1>3. h \in Seq(Character) /\ h \o b = k
  BY <1>1, HandedTyped DEF ReaderSound, AllKept
<1>4. KeptIn(u, n + 1) = k \o x
  BY KeptNext
<1>5. EndsIn(u) = EndsIn(t) \cup (IF EndsAt(u, n + 1) THEN {Len(KeptIn(u, n + 1))} \ {0} ELSE {})
  BY EndsExtended
<1>6. a \in Seq(Character) /\ Len(a) = Len(b) + Len(x)
  BY <1>2, ConcatProperties
<1>7. EndsAt(u, n + 1) => x = <<>>
  BY DEF EndsAt, TokIn
<1> HIDE DEF n, h, k, x
<1>8. KeptIn(u, n + 1) = h \o a
  <2>1. a = b \o x
    BY DEF x, n
  <2>2. (h \o b) \o x = h \o (b \o x)
    <3>1. h \in Seq(Character) /\ x \in Seq(Character)
      BY <1>2, <1>3
    <3> QED BY <3>1, TextsGrouped
  <2> QED BY <1>3, <1>4, <2>1, <2>2
<1>9. /\ EndsIn(t) \subseteq {Len(HandedIn(l, m)) : m \in 1..Len(l)}
      /\ \A m \in 1..Len(l) : LineFine(t, l, m)
      /\ Len(b) < Cap
  BY DEF ReaderSound, EndsHanded
<1>10. Cap \in Nat /\ Cap > 0 /\ Cap + 3 = BufLen
  BY BufAssumption DEF Cap
<1>11. CASE ~((EndsAt(u, n + 1) /\ b # <<>>) \/ Len(a) >= Cap)
  <2>1. AllKept(u, l, a)
    BY <1>1, <1>8 DEF AllKept, h
  <2>2. EndsHanded(u, l)
    <3>1. ASSUME EndsAt(u, n + 1), Len(KeptIn(u, n + 1)) # 0
          PROVE  Len(KeptIn(u, n + 1)) \in {Len(HandedIn(l, m)) : m \in 1..Len(l)}
      <4>1. b = <<>> /\ x = <<>>
        BY <1>7, <1>11, <3>1
      <4>2. KeptIn(u, n + 1) = h
        <5>1. a = <<>>
          BY <1>6, <4>1, EmptySeq
        <5> QED BY <1>3, <1>8, <5>1, ConcatEmptySeq
      <4>3. Len(l) # 0
        <5>1. ASSUME Len(l) = 0 PROVE FALSE
          <6>1. l = <<>> /\ SubSeq(l, 1, 0) = <<>>
            BY <5>1, EmptySeq, SubSeqEmpty
          <6>2. h = <<>>
            BY <5>1, <6>1, FlattenEmpty DEF h, HandedIn
          <6> QED BY <3>1, <4>2, <6>2
        <5> QED BY <5>1
      <4>4. Len(l) \in 1..Len(l) /\ Len(KeptIn(u, n + 1)) = Len(HandedIn(l, Len(l)))
        BY <1>1, <4>2, <4>3 DEF h
      <4> QED BY <4>4
    <3>2. EndsIn(u) \subseteq {Len(HandedIn(l, m)) : m \in 1..Len(l)}
      BY <1>5, <1>9, <3>1
    <3> QED BY <3>2 DEF EndsHanded
  <2>3. \A m \in 1..Len(l) : LineFine(u, l, m)
    BY <1>5, <1>9 DEF LineFine
  <2>4. Len(a) < Cap
    BY <1>1, <1>2, <1>6, <1>10, <1>11
  <2> QED BY <1>11, <2>1, <2>2, <2>3, <2>4 DEF ReaderSound, n
<1>12. CASE (EndsAt(u, n + 1) /\ b # <<>>) \/ Len(a) >= Cap
  <2> DEFINE m == Append(l, a)
  <2>1. /\ m \in Seq(Seq(Character)) /\ Len(m) = Len(l) + 1
        /\ m[Len(l) + 1] = a /\ \A j \in 1..Len(l) : m[j] = l[j]
    BY <1>6, AppendProperties
  <2>2. /\ \A j \in 1..Len(l) : HandedIn(m, j) = HandedIn(l, j)
        /\ HandedIn(m, Len(l) + 1) = h \o a
    <3>1. \A j \in 1..Len(l) : j \in 0..Len(l)
      BY <1>1
    <3> QED BY <1>6, <3>1, HandedExtended DEF h
  <2> HIDE DEF m
  <2>3. DOMAIN m = 1..(Len(l) + 1) /\ \A j \in DOMAIN m : j \in 1..Len(l) \/ j = Len(l) + 1
    BY <1>1, <2>1, LenProperties
  <2>4. AllKept(u, m, <<>>)
    <3>1. h \o a \in Seq(Character)
      BY <1>3, <1>6, ConcatProperties
    <3>2. (h \o a) \o <<>> = h \o a
      BY <3>1, ConcatEmptySeq
    <3> QED BY <1>1, <1>8, <2>1, <2>2, <3>2 DEF AllKept
  <2>5. EndsHanded(u, m)
    <3>1. ASSUME NEW e \in EndsIn(u) PROVE \E j \in DOMAIN m : e = Len(HandedIn(m, j))
      <4>1. CASE e \in EndsIn(t)
        <5>1. PICK j \in 1..Len(l) : e = Len(HandedIn(l, j))
          BY <1>9, <4>1
        <5>2. j \in DOMAIN m
          BY <1>1, <2>3
        <5> QED BY <2>2, <5>1, <5>2
      <4>2. CASE e \notin EndsIn(t)
        <5>1. e = Len(KeptIn(u, n + 1)) /\ Len(l) + 1 \in DOMAIN m
          BY <1>1, <1>5, <2>3, <3>1, <4>2
        <5> QED BY <1>8, <2>2, <5>1
      <4> QED BY <4>1, <4>2
    <3> QED BY <3>1 DEF EndsHanded
  <2>6. Len(a) \in Nat /\ Len(a) >= 1 /\ Len(a) <= BufLen - 1
    <3>1. b # <<>> => Len(b) >= 1
      BY <1>1, EmptySeq
    <3>2. b # <<>> \/ Len(a) >= Cap
      BY <1>12
    <3>3. Len(a) = Len(b) + Len(x) /\ Len(x) <= 2 /\ Len(b) < Cap
      BY <1>2, <1>6, <1>9
    <3>4. Len(b) \in Nat /\ Len(x) \in Nat
      BY <1>1, <1>2
    <3> QED BY <1>10, <3>1, <3>2, <3>3, <3>4
  <2>7. ASSUME NEW j \in DOMAIN m PROVE LineFine(u, m, j)
    <3>1. CASE j \in 1..Len(l)
      BY <1>5, <1>9, <2>1, <2>2, <3>1 DEF LineFine
    <3>2. CASE j = Len(l) + 1
      <4>1. Len(m[j]) \in 1..(BufLen - 1)
        BY <1>10, <2>1, <2>6, <3>2
      <4>2. ASSUME ~(Len(m[j]) >= Cap) PROVE Len(HandedIn(m, j)) \in EndsIn(u)
        <5>1. EndsAt(u, n + 1)
          BY <1>12, <2>1, <3>2, <4>2
        <5>2. Len(h \o a) = Len(h) + Len(a) /\ Len(h) \in Nat
          BY <1>3, <1>6, ConcatProperties
        <5>3. Len(h \o a) # 0
          BY <2>6, <5>2
        <5> QED BY <1>5, <1>8, <2>2, <3>2, <5>1, <5>3
      <4> QED BY <4>1, <4>2 DEF LineFine
    <3> QED BY <2>3, <3>1, <3>2
  <2>8. Len(<<>>) < Cap
    BY <1>10
  <2> QED BY <1>12, <2>4, <2>5, <2>7, <2>8 DEF ReaderSound, n, m
<1> QED BY <1>11, <1>12 DEF n

LEMMA ReaderStarts == ReaderSound(<<>>, <<>>, <<>>) /\ ~EscIn(<<>>, 1)
<1>1. <<>> \in Seq(Character) /\ <<>> \o <<>> = <<>>
  BY EmptySeq, ConcatEmptySeq
<1>2. HandedIn(<<>>, 0) = <<>>
  <2>1. SubSeq(<<>>, 1, 0) = <<>>
    BY SubSeqEmpty
  <2> QED BY <2>1, FlattenEmpty DEF HandedIn
<1>3. KeptIn(<<>>, 0) = <<>>
  <2>1. [i \in 1..0 |-> TokIn(<<>>, i)] = <<>>
    OBVIOUS
  <2> QED BY <2>1, FlattenEmpty DEF KeptIn
<1>4. EndsIn(<<>>) = {}
  BY DEF EndsIn
<1>5. ~EscIn(<<>>, 1)
  BY DEF EscIn
<1>6. 0 < Cap
  BY BufAssumption DEF Cap
<1> QED BY <1>1, <1>2, <1>3, <1>4, <1>5, <1>6 DEF ReaderSound, AllKept, EndsHanded

(* The invariant: escaped is the parity of the backslashes just read, and   *)
(* what was typed is in the lines and the buffer. *)
ReaderInv == (escaped <=> EscIn(typed, Len(typed) + 1)) /\ ReaderSound(typed, lines, buff)

LEMMA InvUnchanged == ReaderInv /\ UNCHANGED reader => ReaderInv'
BY DEF ReaderInv, reader

LEMMA InvReset == line_reader_reset => ReaderInv'
<1> SUFFICES ASSUME line_reader_reset PROVE ReaderInv'
  OBVIOUS
<1>1. buff' = <<>> /\ escaped' = FALSE /\ typed' = <<>> /\ lines' = <<>>
  BY DEF line_reader_reset
<1>2. Len(<<>>) + 1 = 1
  OBVIOUS
<1> QED BY <1>1, <1>2, ReaderStarts DEF ReaderInv

LEMMA InvCharacter == PppGetsAll /\ ReaderInv /\ ReadCharacter => ReaderInv'
<1> SUFFICES ASSUME PppGetsAll, ReaderInv, ReadCharacter PROVE ReaderInv'
  OBVIOUS
<1>1. /\ typed \in Seq(Character) /\ lines \in Seq(Seq(Character)) /\ buff \in Seq(Character)
      /\ chunk \in Seq(Character) /\ escaped \in BOOLEAN
  BY DEF PppGetsAll, TypeOK
<1> DEFINE c == Head(chunk)
           u == Append(typed, c)
           n == Len(typed)
<1>2. c \in Character
  BY <1>1, HeadTailProperties DEF ReadCharacter
<1>3. /\ escaped' = (~escaped /\ c = ESCAPE) /\ typed' = u
      /\ IF Ends(c) THEN lines' = Append(lines, Added(c)) /\ buff' = <<>>
                    ELSE lines' = lines /\ buff' = Added(c)
  BY DEF ReadCharacter
<1> HIDE DEF c
<1>4. u \in Seq(Character) /\ Len(u) = n + 1 /\ u[n + 1] = c /\ n \in Nat
  BY <1>1, <1>2, AppendProperties
<1>5. EscIn(u, n + 1) <=> escaped
  <2>1. n + 1 \in 1..(n + 1)
    BY <1>4
  <2>2. EscIn(u, n + 1) <=> EscIn(typed, n + 1)
    BY <1>1, <1>2, <2>1, EscapedExtended
  <2> QED BY <2>2 DEF ReaderInv
<1> HIDE DEF u, n
<1>6. escaped' <=> EscIn(u, Len(u) + 1)
  <2>1. n + 1 \in 1..Len(u)
    BY <1>4
  <2>2. EscIn(u, (n + 1) + 1) <=> ~EscIn(u, n + 1) /\ u[n + 1] = ESCAPE
    BY <1>4, <2>1, EscapedNext
  <2> QED BY <1>1, <1>3, <1>4, <1>5, <2>2
<1>7. Added(c) = buff \o TokIn(u, n + 1)
  <2>1. PICK b \in Seq(Character) : b = buff
    BY <1>1
  <2>2. b \o <<>> = b /\ Append(b, c) = b \o <<c>>
    BY <1>2, ConcatEmptySeq, AppendIsConcat
  <2> QED BY <1>4, <1>5, <2>1, <2>2 DEF Added, TokIn
<1>8. Ends(c) <=> (EndsAt(u, n + 1) /\ buff # <<>>) \/ Len(Added(c)) >= Cap
  BY <1>4, <1>5 DEF Ends, EndsAt
<1>9. ReaderSound(typed, lines, buff)
  BY DEF ReaderInv
<1>10. IF (EndsAt(u, n + 1) /\ buff # <<>>) \/ Len(Added(c)) >= Cap
       THEN ReaderSound(u, Append(lines, Added(c)), <<>>)
       ELSE ReaderSound(u, lines, Added(c))
  BY <1>1, <1>2, <1>7, <1>9, ReaderGoesOn DEF u, n
<1>11. ReaderSound(u, lines', buff')
  BY <1>3, <1>8, <1>10
<1> QED BY <1>3, <1>6, <1>11 DEF ReaderInv

LEMMA InvStep == PppGetsAll /\ ReaderInv /\ [Next]_vars => ReaderInv'
<1> SUFFICES ASSUME PppGetsAll, ReaderInv, [Next]_vars PROVE ReaderInv'
  OBVIOUS
<1>1. CASE ReadCharacter
  BY <1>1, InvCharacter
<1>2. CASE CommandChunk
  BY <1>2, InvUnchanged DEF CommandChunk
<1>3. CASE DataChunk
  <2>1. UNCHANGED reader \/ HangUp
    BY <1>3 DEF DataChunk
  <2>2. HangUp => UNCHANGED reader \/ line_reader_reset
    BY DEF HangUp
  <2> QED BY <2>1, <2>2, InvUnchanged, InvReset
<1>4. CASE CarrierLost
  BY <1>4, InvUnchanged DEF CarrierLost
<1>5. CASE CallEnds
  <2>1. UNCHANGED reader \/ line_reader_reset
    BY <1>5 DEF CallEnds
  <2> QED BY <2>1, InvUnchanged, InvReset
<1>6. CASE UNCHANGED vars
  BY <1>6, InvUnchanged DEF vars
<1> QED BY <1>1, <1>2, <1>3, <1>4, <1>5, <1>6 DEF Next, Silence

(* Wherever read() cuts them, the characters a host sends come to           *)
(* on_cmd_line() as the lines that were typed, in order and complete: a     *)
(* line ends at each newline without a backslash and else only when the     *)
(* buffer is full, and none is empty or longer than the buffer              *)
(* (line_reader_read).  It holds across the resets that end a call. *)
THEOREM LinesReadAsTyped == Spec => []LinesAsTyped
<1>1. Init => ReaderInv
  <2> SUFFICES ASSUME Init PROVE ReaderInv
    OBVIOUS
  <2>1. buff = <<>> /\ escaped = FALSE /\ typed = <<>> /\ lines = <<>>
    BY DEF Init
  <2>2. Len(<<>>) + 1 = 1
    OBVIOUS
  <2> QED BY <2>1, <2>2, ReaderStarts DEF ReaderInv
<1>2. PppGetsAll /\ ReaderInv /\ [Next]_vars => ReaderInv'
  BY InvStep
<1>3. ReaderInv => LinesAsTyped
  BY LinesAsTypedIs DEF ReaderInv
<1> QED BY <1>1, <1>2, <1>3, NothingKeptFromPppd, PTL DEF Spec

-----------------------------------------------------------------------------
(* What on_cmd_line() runs. *)

(* InOrder begins with b if the numbers of S are b's and larger ones. *)
Ascending(b) == \A j, k \in 1..Len(b) : j < k => b[j] < b[k]
UpTo(S, i) == {j \in S : j <= i}

LEMMA UpToIs ==
  ASSUME NEW S \in SUBSET Nat, NEW b \in Seq(S), Ascending(b), NEW k \in 1..Len(b),
         \A i \in S : (\E m \in 1..Len(b) : i = b[m]) \/ (\A m \in 1..Len(b) : b[m] < i)
  PROVE  Cardinality(UpTo(S, b[k])) = k
<1> DEFINE f == [i \in 1..k |-> b[i]]
<1>1. PICK N \in Nat : N = Len(b)
  BY LenProperties
<1>2. \A i \in 1..N : b[i] \in S
  BY <1>1, ElementOfSeq
<1>3. k \in 1..N /\ k \in Nat
  BY <1>1
<1>4. \A i \in 1..k : i \in 1..N /\ f[i] = b[i]
  BY <1>3
<1>5. f \in [1..k -> UpTo(S, b[k])]
  <2>1. ASSUME NEW i \in 1..k PROVE b[i] \in UpTo(S, b[k])
    <3>1. i < k => b[i] < b[k]
      BY <1>1, <1>4 DEF Ascending
    <3>2. b[i] \in S /\ b[k] \in S
      BY <1>2, <1>3, <1>4
    <3>3. PICK x \in Nat, y \in Nat : x = b[i] /\ y = b[k]
      BY <3>2
    <3>4. i < k \/ i = k
      BY <1>3
    <3>5. x <= y
      BY <3>1, <3>3, <3>4
    <3> QED BY <3>2, <3>3, <3>5 DEF UpTo
  <2> QED BY <2>1
<1>6. ASSUME NEW i \in 1..k, NEW j \in 1..k, f[i] = f[j] PROVE i = j
  <2>1. b[i] = b[j] /\ i \in 1..N /\ j \in 1..N
    BY <1>4, <1>6
  <2>2. b[i] \in Nat /\ b[j] \in Nat
    BY <1>2, <2>1
  <2>3. ~(i < j) /\ ~(j < i)
    BY <1>1, <2>1, <2>2 DEF Ascending
  <2> QED BY <2>3
<1>7. ASSUME NEW j \in UpTo(S, b[k]) PROVE \E i \in 1..k : f[i] = j
  <2>1. j \in S /\ j <= b[k] /\ b[k] \in Nat /\ j \in Nat
    BY <1>2, <1>3 DEF UpTo
  <2>2. ~(b[k] < j)
    BY <2>1
  <2>3. PICK m \in 1..N : j = b[m]
    BY <1>1, <1>3, <2>1, <2>2
  <2>4. ~(k < m)
    BY <1>1, <1>3, <2>1, <2>3 DEF Ascending
  <2>5. m \in 1..k
    BY <1>3, <2>4
  <2> QED BY <1>4, <2>3, <2>5
<1>8. f \in Bijection(1..k, UpTo(S, b[k]))
  <2> HIDE DEF f
  <2>1. f \in Injection(1..k, UpTo(S, b[k]))
    BY <1>5, <1>6 DEF Injection, IsInjective
  <2>2. f \in Surjection(1..k, UpTo(S, b[k]))
    BY <1>5, <1>7 DEF Surjection
  <2> QED BY <2>1, <2>2 DEF Bijection
<1>9. ExistsBijection(1..k, UpTo(S, b[k]))
  <2> HIDE DEF f
  <2> QED BY <1>8 DEF ExistsBijection
<1>10. IsFiniteSet(1..k) /\ Cardinality(1..k) = k
  BY <1>3, FS_Interval
<1> QED BY <1>9, <1>10, FS_Bijection

LEMMA InOrderIs ==
  ASSUME NEW S \in SUBSET Nat, IsFiniteSet(S), NEW b \in Seq(S), Ascending(b),
         \A i \in S : (\E m \in 1..Len(b) : i = b[m]) \/ (\A m \in 1..Len(b) : b[m] < i)
  PROVE  /\ Cardinality(S) \in Nat /\ Len(b) <= Cardinality(S)
         /\ (\A i \in S : \E m \in 1..Len(b) : i = b[m]) => Len(b) = Cardinality(S)
         /\ \A k \in 1..Len(b) : InOrder(S)[k] = b[k]
<1>1. PICK N \in Nat : N = Len(b)
  BY LenProperties
<1>2. PICK C \in Nat : C = Cardinality(S)
  BY FS_CardinalityType
<1>3. \A k \in 1..N : b[k] \in S /\ Cardinality(UpTo(S, b[k])) = k
  BY <1>1, ElementOfSeq, UpToIs
<1>4. \A i \in S : UpTo(S, i) \in SUBSET S /\ i \in UpTo(S, i)
  BY DEF UpTo
<1>5. N <= C
  <2>1. CASE N = 0
    BY <2>1
  <2>2. CASE N # 0
    <3>1. N \in 1..N
      BY <2>2
    <3>2. Cardinality(UpTo(S, b[N])) <= C
      BY <1>2, <1>3, <1>4, <3>1, FS_Subset
    <3> QED BY <1>3, <3>1, <3>2
  <2> QED BY <2>1, <2>2
<1>6. ASSUME \A i \in S : \E m \in 1..Len(b) : i = b[m] PROVE N = C
  <2>1. CASE N = 0
    <3>1. S = {}
      BY <1>1, <1>6, <2>1
    <3> QED BY <1>2, <2>1, <3>1, FS_EmptySet
  <2>2. CASE N # 0
    <3>1. N \in 1..N
      BY <2>2
    <3>2. ASSUME NEW i \in S PROVE i <= b[N]
      <4>1. PICK m \in 1..N : i = b[m]
        BY <1>1, <1>6
      <4>2. m < N => b[m] < b[N]
        BY <1>1, <3>1 DEF Ascending
      <4>3. b[m] \in Nat /\ b[N] \in Nat
        BY <1>3, <3>1
      <4> QED BY <4>1, <4>2, <4>3
    <3>3. UpTo(S, b[N]) = S
      BY <3>2 DEF UpTo
    <3> QED BY <1>2, <1>3, <3>1, <3>3
  <2> QED BY <2>1, <2>2
<1>7. ASSUME NEW k \in 1..N PROVE InOrder(S)[k] = b[k]
  <2>1. k \in 1..C
    BY <1>5
  <2>2. InOrder(S)[k] = CHOOSE i \in S : Cardinality(UpTo(S, i)) = k
    BY <1>2, <2>1 DEF InOrder, UpTo
  <2>3. ASSUME NEW i \in S, Cardinality(UpTo(S, i)) = k PROVE i = b[k]
    <3>1. CASE \E m \in 1..N : i = b[m]
      <4>1. PICK m \in 1..N : i = b[m]
        BY <3>1
      <4> QED BY <1>3, <2>3, <4>1
    <3>2. CASE \A m \in 1..N : b[m] < i
      <4>1. b[k] \in Nat /\ i \in Nat /\ b[k] < i
        BY <1>3, <3>2
      <4>2. UpTo(S, b[k]) \in SUBSET UpTo(S, i) /\ i \notin UpTo(S, b[k])
        <5>1. PICK x \in Nat, y \in Nat : x = b[k] /\ y = i /\ x < y
          BY <4>1
        <5>2. \A j \in Nat : j <= x => j <= y
          BY <5>1
        <5>3. ~(y <= x)
          BY <5>1
        <5> QED BY <5>1, <5>2, <5>3 DEF UpTo
      <4>3. IsFiniteSet(UpTo(S, i))
        BY <1>4, FS_Subset
      <4>4. UpTo(S, i) = UpTo(S, b[k])
        BY <1>3, <2>3, <4>2, <4>3, FS_Subset
      <4> QED BY <1>4, <4>2, <4>4
    <3> QED BY <1>1, <3>1, <3>2
  <2> QED BY <1>3, <2>2, <2>3
<1> QED BY <1>1, <1>2, <1>5, <1>6, <1>7

(* A run of at_split_args(), character by character. *)
Splits(g, s, d, l) ==
  g = [n \in 0..Len(s) |-> IF n = 0 THEN Start ELSE Char(g[n - 1], s[n], d, l)]

LEMMA SplitsExists ==
  ASSUME NEW s, NEW N \in Nat, NEW d, NEW l
  PROVE  \E g : g = [n \in 0..N |-> IF n = 0 THEN Start ELSE Char(g[n - 1], s[n], d, l)]
<1> DEFINE Upto(g, m) == g = [n \in 0..m |-> IF n = 0 THEN Start ELSE Char(g[n - 1], s[n], d, l)]
           Without == {m \in Nat : ~ \E g : Upto(g, m)}
<1>1. SUFFICES ASSUME Without # {} PROVE FALSE
  BY DEF Upto
<1>2. PICK m \in Without : \A n \in Without : m <= n
  <2>1. Without \in SUBSET Nat
    OBVIOUS
  <2> HIDE DEF Without
  <2> QED BY <1>1, <2>1, Minimum
<1>3. m \in Nat
  OBVIOUS
<1>4. m # 0
  <2> DEFINE e == [n \in 0..0 |-> Start]
             f == [n \in 0..0 |-> IF n = 0 THEN Start ELSE Char(e[n - 1], s[n], d, l)]
  <2>1. \A n \in 0..0 : e[n] = f[n]
    OBVIOUS
  <2>2. e = f
    BY <2>1
  <2>3. Upto(e, 0)
    BY <2>2
  <2> QED BY <2>3
<1>5. m - 1 \in Nat /\ m - 1 \notin Without
  BY <1>2, <1>3, <1>4
<1>6. PICK f : Upto(f, m - 1)
  BY <1>5
<1> DEFINE g == [n \in 0..m |-> IF n = m THEN Char(f[m - 1], s[m], d, l) ELSE f[n]]
           h == [n \in 0..m |-> IF n = 0 THEN Start ELSE Char(g[n - 1], s[n], d, l)]
<1>7. ASSUME NEW n \in 0..m PROVE g[n] = IF n = 0 THEN Start ELSE Char(g[n - 1], s[n], d, l)
  <2>1. n # 0 => n - 1 \in 0..m /\ n - 1 # m /\ g[n - 1] = f[n - 1]
    BY <1>3
  <2>2. CASE n = m
    <3>1. g[n] = Char(f[m - 1], s[m], d, l) /\ n # 0
      BY <1>4, <2>2
    <3> HIDE DEF g
    <3> QED BY <2>1, <2>2, <3>1
  <2>3. CASE n # m
    <3>1. n \in 0..(m - 1) /\ g[n] = f[n]
      BY <1>3, <2>3
    <3>2. f[n] = IF n = 0 THEN Start ELSE Char(f[n - 1], s[n], d, l)
      BY <1>6, <3>1
    <3> HIDE DEF g, Upto
    <3> QED BY <2>1, <3>1, <3>2
  <2> QED BY <2>2, <2>3
<1>8. g = h
  <2>1. \A n \in 0..m : g[n] = h[n]
    BY <1>7
  <2> QED BY <2>1
<1>9. Upto(g, m)
  BY <1>8
<1> HIDE DEF g, Upto
<1> QED BY <1>2, <1>9

(* The result for a state at the end of the line. *)
Afterwards(end, s) ==
  [starts |-> end.starts,
   text   |-> [i \in 1..(Len(s) + 1) |->
                 IF i <= Len(end.out) THEN end.out[i]
                 ELSE IF i = Len(end.out) + 1 \/ i > Len(s) THEN NUL ELSE s[i]]]

LEMMA SplitIs ==
  ASSUME NEW s, Len(s) \in Nat, NEW d, NEW l
  PROVE  \E g : Splits(g, s, d, l) /\ at_split_args(s, d, l) = Afterwards(g[Len(s)], s)
<1> DEFINE g == CHOOSE f : f = [n \in 0..Len(s) |->
                  IF n = 0 THEN Start ELSE Char(f[n - 1], s[n], d, l)]
<1>1. Splits(g, s, d, l)
  BY SplitsExists DEF Splits
<1>2. at_split_args(s, d, l) = Afterwards(g[Len(s)], s)
  BY DEF at_split_args, Afterwards
<1> QED BY <1>1, <1>2

(* What a character does to the line and to the places where arguments      *)
(* begin: nothing, or it begins one, adds to one, or ends one. *)
Text == Character \cup {NUL}
State == [in : {"delim", "arg", "quoted"}, escaped : BOOLEAN, argc : Nat,
          out : Seq(Text), starts : Seq(Nat)]

Same(r, st) == r.in = st.in /\ r.argc = st.argc /\ r.out = st.out /\ r.starts = st.starts
Begun(r, st, c) ==
  /\ st.in = "delim" /\ r.in # "delim" /\ r.argc = st.argc
  /\ r.starts = Append(st.starts, Len(st.out) + 1)
  /\ r.out = st.out \/ r.out = Append(st.out, c)
More(r, st, c) ==
  /\ st.in # "delim" /\ r.in = st.in /\ r.argc = st.argc /\ r.starts = st.starts
  /\ r.out = Append(st.out, c)
Ended(r, st) ==
  /\ st.in # "delim" /\ r.in = "delim" /\ r.argc = st.argc + 1 /\ r.starts = st.starts
  /\ r.out = Append(st.out, NUL)

LEMMA TextGrows ==
  ASSUME NEW o \in Seq(Text), NEW c \in Text
  PROVE  /\ Append(o, c) \in Seq(Text) /\ Len(Append(o, c)) = Len(o) + 1
         /\ Append(o, c)[Len(o) + 1] = c /\ \A i \in 1..Len(o) : Append(o, c)[i] = o[i]
         /\ o \o <<>> = o /\ o \o <<c>> = Append(o, c) /\ Len(o) \in Nat
<1>1. o \o <<>> = o
  BY ConcatEmptySeq
<1>2. o \o <<c>> = Append(o, c)
  BY AppendIsConcat
<1>3. Len(o) \in Nat
  BY LenProperties
<1> QED BY <1>1, <1>2, <1>3, AppendProperties

LEMMA CharIs ==
  ASSUME NEW st \in State, NEW c \in Character, NEW d, NEW l, NEW r, r = Char(st, c, d, l)
  PROVE  /\ r \in State
         /\ Same(r, st) \/ Begun(r, st, c) \/ More(r, st, c) \/ Ended(r, st)
<1> DEFINE o == st.out
<1>1. /\ o \in Seq(Text) /\ st.starts \in Seq(Nat) /\ st.argc \in Nat /\ c \in Text /\ NUL \in Text
      /\ st.in \in {"delim", "arg", "quoted"} /\ st.escaped \in BOOLEAN
  BY DEF State, Text
<1>2. /\ Append(o, c) \in Seq(Text) /\ Append(o, NUL) \in Seq(Text)
      /\ o \o <<>> = o /\ o \o <<c>> = Append(o, c) /\ Len(o) + 1 \in Nat
  BY <1>1, TextGrows
<1>3. Append(st.starts, Len(o) + 1) \in Seq(Nat) /\ st.argc + 1 \in Nat
  BY <1>1, <1>2, AppendProperties
<1>4. CASE st.argc = l
  BY <1>4 DEF Char, Same
<1>5. CASE st.argc # l /\ st.in = "delim"
  <2>1. r = Between(st, c, d)
    BY <1>5 DEF Char
  <2>2. CASE c = d
    BY <2>1, <2>2 DEF Between, Same
  <2>3. CASE c # d /\ c = QUOTE
    <3>1. r = NextArg(st, "quoted", <<>>, FALSE)
      BY <2>1, <2>3 DEF Between
    <3>2. r = [in |-> "quoted", escaped |-> FALSE, argc |-> st.argc, out |-> o,
               starts |-> Append(st.starts, Len(o) + 1)]
      BY <1>2, <3>1 DEF NextArg, State
    <3> QED BY <1>1, <1>3, <1>5, <3>2 DEF State, Begun
  <2>4. CASE c # d /\ c # QUOTE /\ c = ESCAPE
    <3>1. r = NextArg(st, "arg", <<>>, TRUE)
      BY <2>1, <2>4 DEF Between
    <3>2. r = [in |-> "arg", escaped |-> TRUE, argc |-> st.argc, out |-> o,
               starts |-> Append(st.starts, Len(o) + 1)]
      BY <1>2, <3>1 DEF NextArg, State
    <3> QED BY <1>1, <1>3, <1>5, <3>2 DEF State, Begun
  <2>5. CASE c # d /\ c # QUOTE /\ c # ESCAPE
    <3>1. r = NextArg(st, "arg", <<c>>, FALSE)
      BY <2>1, <2>5 DEF Between
    <3>2. r = [in |-> "arg", escaped |-> FALSE, argc |-> st.argc, out |-> Append(o, c),
               starts |-> Append(st.starts, Len(o) + 1)]
      BY <1>2, <3>1 DEF NextArg, State
    <3> QED BY <1>1, <1>2, <1>3, <1>5, <3>2 DEF State, Begun
  <2> QED BY <2>2, <2>3, <2>4, <2>5
<1>6. CASE st.argc # l /\ st.in # "delim" /\ st.escaped
  <2>1. r = Unescape(st, c, d)
    BY <1>6 DEF Char
  <2>2. PICK e \in {o, Append(o, c)} :
          r = [in |-> st.in, escaped |-> FALSE, argc |-> st.argc, out |-> e, starts |-> st.starts]
    BY <2>1 DEF Unescape, State
  <2>3. e \in Seq(Text)
    BY <1>1, <1>2
  <2>4. r \in State
    BY <1>1, <2>2, <2>3 DEF State
  <2> QED BY <1>6, <2>2, <2>4 DEF Same, More
<1>7. CASE st.argc # l /\ st.in # "delim" /\ ~st.escaped
  <2>1. r = Within(st, c, d)
    BY <1>7 DEF Char
  <2> DEFINE e == IF st.in = "quoted" THEN QUOTE ELSE d
  <2>2. CASE c = e
    <3>1. r = EndArg(st)
      BY <2>1, <2>2 DEF Within
    <3>2. r = [in |-> "delim", escaped |-> st.escaped, argc |-> st.argc + 1, out |-> Append(o, NUL),
               starts |-> st.starts]
      BY <3>1 DEF EndArg, State
    <3> QED BY <1>1, <1>2, <1>3, <1>7, <3>2 DEF State, Ended
  <2>3. CASE c # e /\ c = ESCAPE
    <3>1. r = [st EXCEPT !.escaped = TRUE]
      BY <2>1, <2>3 DEF Within
    <3>2. r = [in |-> st.in, escaped |-> TRUE, argc |-> st.argc, out |-> o, starts |-> st.starts]
      BY <3>1 DEF State
    <3> QED BY <1>1, <3>2 DEF State, Same
  <2>4. CASE c # e /\ c # ESCAPE
    <3>1. r = [st EXCEPT !.out = Append(@, c)]
      BY <2>1, <2>4 DEF Within
    <3>2. r = [in |-> st.in, escaped |-> st.escaped, argc |-> st.argc, out |-> Append(o, c),
               starts |-> st.starts]
      BY <3>1 DEF State
    <3> QED BY <1>1, <1>2, <1>7, <3>2 DEF State, More
  <2> QED BY <2>2, <2>3, <2>4
<1> QED BY <1>1, <1>4, <1>5, <1>6, <1>7

(* Where the k-th argument ends in the line, or would if a zero followed;   *)
(* and that it is a string there, with the next one behind its zero. *)
Stop(st, k) ==
  IF k < Len(st.starts) THEN st.starts[k + 1] - 1
  ELSE IF st.in = "delim" THEN Len(st.out) ELSE Len(st.out) + 1
ArgLaid(st, n, k) ==
  /\ st.starts[k] \in 1..n /\ Stop(st, k) \in Nat /\ st.starts[k] <= Stop(st, k)
  /\ k <= st.argc => Stop(st, k) <= Len(st.out) /\ st.out[Stop(st, k)] = NUL
  /\ Stop(st, k) <= Len(st.out) + 1
  /\ \A j \in 1..Len(st.out) : st.starts[k] <= j /\ j < Stop(st, k) => st.out[j] # NUL
Laid(st, n) ==
  /\ st \in State /\ Len(st.out) <= n
  /\ Len(st.starts) = IF st.in = "delim" THEN st.argc ELSE st.argc + 1
  /\ Len(st.starts) = 0 => Len(st.out) = 0
  /\ Len(st.starts) # 0 => st.starts[1] = 1
  /\ \A k \in 1..Len(st.starts) : ArgLaid(st, n, k)

LEMMA StartLaid == Laid(Start, 0)
<1>1. <<>> \in Seq(Text) /\ <<>> \in Seq(Nat) /\ Len(<<>>) = 0
  OBVIOUS
<1>2. Start \in State
  BY <1>1 DEF Start, State
<1>3. Start.out = <<>> /\ Start.starts = <<>> /\ Start.in = "delim" /\ Start.argc = 0
  BY DEF Start
<1>4. \A k \in 1..Len(Start.starts) : ArgLaid(Start, 0, k)
  BY <1>1, <1>3
<1> QED BY <1>1, <1>2, <1>3, <1>4 DEF Laid

LEMMA StartsGrow ==
  ASSUME NEW s \in Seq(Nat), NEW e \in Nat
  PROVE  /\ Append(s, e) \in Seq(Nat) /\ Len(Append(s, e)) = Len(s) + 1
         /\ Append(s, e)[Len(s) + 1] = e /\ \A i \in 1..Len(s) : Append(s, e)[i] = s[i]
BY AppendProperties

LEMMA StopBegun ==
  ASSUME NEW st, NEW r, Len(st.starts) \in Nat, Len(st.out) \in Nat,
         st.in = "delim", r.in # "delim", Len(r.starts) = Len(st.starts) + 1,
         r.starts[Len(st.starts) + 1] = Len(st.out) + 1,
         \A k \in 1..Len(st.starts) : r.starts[k] = st.starts[k], Len(r.out) \in Nat
  PROVE  /\ Stop(r, Len(st.starts) + 1) = Len(r.out) + 1
         /\ \A k \in 1..Len(st.starts) : Stop(r, k) = Stop(st, k)
<1>1. PICK L \in Nat, O \in Nat : L = Len(st.starts) /\ O = Len(st.out)
  OBVIOUS
<1>2. ASSUME NEW k \in 1..L PROVE Stop(r, k) = Stop(st, k)
  <2>1. CASE k = L
    <3>1. Stop(r, k) = (O + 1) - 1
      BY <1>1, <2>1 DEF Stop
    <3>2. Stop(st, k) = O
      BY <1>1, <2>1 DEF Stop
    <3> QED BY <3>1, <3>2
  <2>2. CASE k < L
    <3>1. k + 1 \in 1..L
      BY <2>2
    <3> QED BY <1>1, <2>2, <3>1 DEF Stop
  <2> QED BY <2>1, <2>2
<1>3. Stop(r, L + 1) = Len(r.out) + 1
  BY <1>1 DEF Stop
<1> QED BY <1>1, <1>2, <1>3

LEMMA StopMore ==
  ASSUME NEW st, NEW r, Len(st.starts) \in Nat, Len(st.out) \in Nat,
         st.in # "delim", r.in # "delim", r.starts = st.starts, Len(r.out) = Len(st.out) + 1
  PROVE  /\ Stop(r, Len(st.starts)) = Len(st.out) + 2
         /\ \A k \in 1..(Len(st.starts) - 1) : Stop(r, k) = Stop(st, k)
BY DEF Stop

LEMMA StopEnded ==
  ASSUME NEW st, NEW r, Len(st.starts) \in Nat, Len(st.out) \in Nat,
         st.in # "delim", r.in = "delim", r.starts = st.starts, Len(r.out) = Len(st.out) + 1
  PROVE  \A k \in 1..Len(st.starts) : Stop(r, k) = Stop(st, k)
BY DEF Stop

(* What an argument's characters show of it: it stays, or it grows. *)
LEMMA ArgStays ==
  ASSUME NEW n \in Nat, NEW st, NEW r, NEW k, ArgLaid(st, n, k),
         Len(st.out) \in Nat, Len(r.out) \in Nat, Len(st.out) <= Len(r.out),
         r.starts[k] = st.starts[k], Stop(r, k) = Stop(st, k),
         \A j \in 1..Len(st.out) : r.out[j] = st.out[j],
         k <= st.argc \/ (Len(r.out) = Len(st.out) + 1 /\ Stop(st, k) = Len(r.out) /\ r.out[Len(r.out)] = NUL)
  PROVE  ArgLaid(r, n + 1, k)
<1>1. PICK b \in 1..n, p \in Nat, O \in Nat, R \in Nat :
        /\ b = st.starts[k] /\ p = Stop(st, k) /\ b <= p /\ p <= O + 1
        /\ O = Len(st.out) /\ R = Len(r.out) /\ O <= R
  BY DEF ArgLaid
<1>2. b \in 1..(n + 1) /\ p <= R + 1
  BY <1>1
<1>3. p <= R /\ r.out[p] = NUL
  <2>1. CASE k <= st.argc
    <3>1. p <= O /\ st.out[p] = NUL
      BY <1>1, <2>1 DEF ArgLaid
    <3>2. p \in 1..O
      BY <1>1, <3>1
    <3> QED BY <1>1, <3>1, <3>2
  <2>2. CASE Stop(st, k) = Len(r.out) /\ r.out[Len(r.out)] = NUL
    BY <1>1, <2>2
  <2> QED BY <2>1, <2>2
<1>4. ASSUME NEW j \in 1..R, b <= j, j < p PROVE r.out[j] # NUL
  <2>1. j \in 1..O
    BY <1>1, <1>4
  <2>2. st.out[j] # NUL
    BY <1>1, <1>4, <2>1 DEF ArgLaid
  <2> QED BY <1>1, <2>1, <2>2
<1> QED BY <1>1, <1>2, <1>3, <1>4 DEF ArgLaid

LEMMA ArgGrows ==
  ASSUME NEW n \in Nat, NEW st, NEW r, NEW k, ArgLaid(st, n, k), Len(st.out) \in Nat,
         Len(r.out) = Len(st.out) + 1, r.starts[k] = st.starts[k],
         Stop(st, k) = Len(st.out) + 1, Stop(r, k) = Len(st.out) + 2,
         \A j \in 1..Len(st.out) : r.out[j] = st.out[j], r.out[Len(st.out) + 1] # NUL,
         ~(k <= r.argc)
  PROVE  ArgLaid(r, n + 1, k)
<1>1. PICK b \in 1..n, O \in Nat : b = st.starts[k] /\ O = Len(st.out) /\ b <= O + 1
  BY DEF ArgLaid
<1>2. b \in 1..(n + 1) /\ b <= O + 2 /\ O + 2 <= (O + 1) + 1
  BY <1>1
<1>3. ASSUME NEW j \in 1..(O + 1), b <= j PROVE r.out[j] # NUL
  <2>1. CASE j = O + 1
    BY <1>1, <2>1
  <2>2. CASE j # O + 1
    <3>1. j \in 1..O /\ j < O + 1
      BY <2>2
    <3>2. st.out[j] # NUL
      BY <1>1, <1>3, <3>1 DEF ArgLaid
    <3> QED BY <1>1, <3>1, <3>2
  <2> QED BY <2>1, <2>2
<1> QED BY <1>1, <1>2, <1>3 DEF ArgLaid

LEMMA CharLaid ==
  ASSUME NEW st, NEW n \in Nat, Laid(st, n), NEW c \in Character, NEW d, NEW l,
         NEW r, r = Char(st, c, d, l)
  PROVE  Laid(r, n + 1)
<1>1. st \in State
  BY DEF Laid
<1>2. r \in State /\ (Same(r, st) \/ Begun(r, st, c) \/ More(r, st, c) \/ Ended(r, st))
  BY <1>1, CharIs
<1>3. PICK L \in Nat, O \in Nat, a \in Nat, R \in Nat :
        /\ O = Len(st.out) /\ O <= n /\ a = st.argc /\ R = Len(r.out)
        /\ L = Len(st.starts) /\ L = IF st.in = "delim" THEN a ELSE a + 1
        /\ L = 0 => O = 0
        /\ L # 0 => st.starts[1] = 1
  BY <1>1, <1>2, LenProperties DEF Laid, State
<1>4. \A k \in 1..L : ArgLaid(st, n, k)
  BY <1>3 DEF Laid
<1>5. c \in Text /\ NUL \in Text /\ c # NUL
  BY ScriptAssumption DEF Text
<1>6. st.starts \in Seq(Nat) /\ st.out \in Seq(Text) /\ Len(st.starts) \in Nat /\ Len(st.out) \in Nat
      /\ Len(r.out) \in Nat
  BY <1>1, <1>3 DEF State
<1>7. CASE Same(r, st)
  <2>1. ASSUME NEW k \in 1..L PROVE ArgLaid(r, n + 1, k)
    <3>1. Stop(r, k) = Stop(st, k)
      BY <1>7 DEF Same, Stop
    <3>2. ArgLaid(st, n, k) /\ 1..n \subseteq 1..(n + 1)
      BY <1>4
    <3> QED BY <1>7, <3>1, <3>2 DEF Same, ArgLaid
  <2> QED BY <1>2, <1>3, <1>7, <2>1 DEF Same, Laid
<1>8. CASE Begun(r, st, c)
  <2>1. r.argc = st.argc /\ r.in # "delim" /\ st.in = "delim"
    BY <1>8 DEF Begun
  <2>2. /\ Len(r.starts) = Len(st.starts) + 1 /\ r.starts[Len(st.starts) + 1] = Len(st.out) + 1
        /\ \A k \in 1..Len(st.starts) : r.starts[k] = st.starts[k]
    <3>1. r.starts = Append(st.starts, Len(st.out) + 1) /\ Len(st.out) + 1 \in Nat
      BY <1>6, <1>8 DEF Begun
    <3> QED BY <1>6, <3>1, StartsGrow
  <2>3. /\ Len(st.out) <= Len(r.out) /\ Len(r.out) <= Len(st.out) + 1
        /\ \A j \in 1..Len(st.out) : r.out[j] = st.out[j]
        /\ Len(r.out) = Len(st.out) + 1 => r.out[Len(st.out) + 1] = c
    <3>1. CASE r.out = st.out
      BY <1>6, <3>1
    <3>2. CASE r.out = Append(st.out, c)
      <4>1. /\ Len(r.out) = Len(st.out) + 1 /\ r.out[Len(st.out) + 1] = c
            /\ \A j \in 1..Len(st.out) : r.out[j] = st.out[j]
        BY <1>5, <1>6, <3>2, TextGrows
      <4> QED BY <1>6, <4>1
    <3> QED BY <1>8, <3>1, <3>2 DEF Begun
  <2>4. /\ Stop(r, Len(st.starts) + 1) = Len(r.out) + 1
        /\ \A k \in 1..Len(st.starts) : Stop(r, k) = Stop(st, k)
    BY <1>6, <2>1, <2>2, StopBegun
  <2>5. ASSUME NEW k \in 1..L PROVE ArgLaid(r, n + 1, k)
    <3>1. ArgLaid(st, n, k) /\ k \in 1..Len(st.starts) /\ k <= st.argc
      BY <1>3, <1>4, <2>1
    <3>2. r.starts[k] = st.starts[k] /\ Stop(r, k) = Stop(st, k)
      BY <2>2, <2>4, <3>1
    <3> QED BY <1>6, <2>3, <3>1, <3>2, ArgStays
  <2>6. ArgLaid(r, n + 1, L + 1)
    <3>1. Stop(r, L + 1) = R + 1 /\ r.starts[L + 1] = O + 1 /\ O <= R /\ R <= O + 1
      BY <1>3, <2>2, <2>3, <2>4
    <3>2. ASSUME NEW j \in 1..R, O + 1 <= j PROVE r.out[j] # NUL
      <4>1. j = O + 1 /\ R = O + 1
        BY <3>1, <3>2
      <4> QED BY <1>3, <1>5, <2>3, <4>1
    <3>3. ~(L + 1 <= r.argc) /\ O + 1 \in 1..(n + 1) /\ R + 1 \in Nat /\ O + 1 <= R + 1
      BY <1>3, <2>1, <3>1
    <3> QED BY <1>3, <3>1, <3>2, <3>3 DEF ArgLaid
  <2>7. \A k \in 1..(L + 1) : ArgLaid(r, n + 1, k)
    <3>1. \A k \in 1..(L + 1) : k \in 1..L \/ k = L + 1
      OBVIOUS
    <3> QED BY <2>5, <2>6, <3>1
  <2>8. r.starts[1] = 1
    <3>1. L = 0 => r.starts[1] = O + 1
      BY <1>3, <2>2
    <3>2. L # 0 => r.starts[1] = st.starts[1]
      BY <1>3, <2>2
    <3> QED BY <1>3, <3>1, <3>2
  <2>9. Len(r.starts) = L + 1 /\ r.argc = a /\ L = a /\ Len(r.out) <= n + 1
    <3>1. R <= O + 1
      BY <1>3, <2>3
    <3>2. Len(r.out) <= n + 1
      BY <1>3, <3>1
    <3> QED BY <1>3, <2>1, <2>2, <3>2
  <2> QED BY <1>2, <1>3, <2>1, <2>7, <2>8, <2>9 DEF Laid
<1>9. CASE More(r, st, c)
  <2>1. /\ r.argc = st.argc /\ r.in # "delim" /\ st.in # "delim" /\ r.starts = st.starts
        /\ r.out = Append(st.out, c)
    BY <1>9 DEF More
  <2>2. /\ Len(r.out) = Len(st.out) + 1 /\ r.out[Len(st.out) + 1] = c
        /\ \A j \in 1..Len(st.out) : r.out[j] = st.out[j]
    BY <1>5, <1>6, <2>1, TextGrows
  <2>3. L = a + 1 /\ Len(st.out) <= Len(r.out)
    BY <1>3, <2>1, <2>2
  <2>4. /\ Stop(r, Len(st.starts)) = Len(st.out) + 2
        /\ \A k \in 1..(Len(st.starts) - 1) : Stop(r, k) = Stop(st, k)
    BY <1>6, <2>1, <2>2, StopMore
  <2>5. ASSUME NEW k \in 1..L PROVE ArgLaid(r, n + 1, k)
    <3>1. ArgLaid(st, n, k)
      BY <1>4
    <3>2. CASE k <= a
      <4>1. k \in 1..(Len(st.starts) - 1) /\ k <= st.argc
        BY <1>3, <2>3, <3>2
      <4>2. Stop(r, k) = Stop(st, k) /\ r.starts[k] = st.starts[k]
        BY <2>1, <2>4, <4>1
      <4> QED BY <1>6, <2>2, <2>3, <3>1, <4>1, <4>2, ArgStays
    <3>3. CASE ~(k <= a)
      <4>1. k = Len(st.starts) /\ ~(k <= r.argc) /\ ~(k < Len(st.starts))
        BY <1>3, <2>1, <2>3, <3>3
      <4>2. Stop(st, k) = Len(st.out) + 1
        BY <2>1, <4>1 DEF Stop
      <4>3. r.out[Len(st.out) + 1] # NUL /\ Stop(r, k) = Len(st.out) + 2 /\ r.starts[k] = st.starts[k]
        BY <1>5, <2>1, <2>2, <2>4, <4>1
      <4> QED BY <1>6, <2>2, <3>1, <4>1, <4>2, <4>3, ArgGrows
    <3> QED BY <3>2, <3>3
  <2>6. Len(r.out) <= n + 1
    BY <1>3, <2>2
  <2> QED BY <1>2, <1>3, <2>1, <2>3, <2>5, <2>6 DEF Laid
<1>10. CASE Ended(r, st)
  <2>1. /\ r.argc = st.argc + 1 /\ r.in = "delim" /\ st.in # "delim" /\ r.starts = st.starts
        /\ r.out = Append(st.out, NUL)
    BY <1>10 DEF Ended
  <2>2. /\ Len(r.out) = Len(st.out) + 1 /\ r.out[Len(st.out) + 1] = NUL
        /\ \A j \in 1..Len(st.out) : r.out[j] = st.out[j]
    BY <1>5, <1>6, <2>1, TextGrows
  <2>3. L = a + 1 /\ Len(st.out) <= Len(r.out) /\ Len(r.out) <= n + 1
    BY <1>3, <2>1, <2>2
  <2>4. \A k \in 1..Len(st.starts) : Stop(r, k) = Stop(st, k)
    BY <1>6, <2>1, <2>2, StopEnded
  <2>5. ASSUME NEW k \in 1..L PROVE ArgLaid(r, n + 1, k)
    <3>1. ArgLaid(st, n, k) /\ Stop(r, k) = Stop(st, k) /\ r.starts[k] = st.starts[k]
      BY <1>3, <1>4, <2>1, <2>4
    <3>2. ASSUME ~(k <= st.argc) PROVE Stop(st, k) = Len(r.out) /\ r.out[Len(r.out)] = NUL
      <4>1. ~(k < Len(st.starts))
        BY <1>3, <2>3, <3>2
      <4>2. Stop(st, k) = Len(st.out) + 1
        BY <2>1, <4>1 DEF Stop
      <4> QED BY <2>2, <4>2
    <3> QED BY <1>6, <2>2, <2>3, <3>1, <3>2, ArgStays
  <2> QED BY <1>2, <1>3, <2>1, <2>3, <2>5 DEF Laid
<1> QED BY <1>2, <1>7, <1>8, <1>9, <1>10

LEMMA AllLaid ==
  ASSUME NEW s \in Seq(Character), NEW d, NEW l, NEW g, Splits(g, s, d, l), NEW n \in 0..Len(s)
  PROVE  Laid(g[n], n)
<1> DEFINE Not == {m \in 0..Len(s) : ~Laid(g[m], m)}
<1>1. PICK N \in Nat : N = Len(s)
  BY LenProperties
<1>2. SUFFICES ASSUME Not # {} PROVE FALSE
  OBVIOUS
<1>3. PICK m \in Not : \A k \in Not : m <= k
  <2>1. Not \in SUBSET Nat
    BY <1>1
  <2> HIDE DEF Not
  <2> QED BY <1>2, <2>1, Minimum
<1>4. m \in 0..N /\ ~Laid(g[m], m)
  BY <1>1
<1>5. g[m] = IF m = 0 THEN Start ELSE Char(g[m - 1], s[m], d, l)
  BY <1>1, <1>4 DEF Splits
<1>6. m # 0
  BY <1>4, <1>5, StartLaid
<1>7. m - 1 \in 0..N /\ m - 1 \in Nat /\ ~(m <= m - 1) /\ m \in 1..N
  BY <1>4, <1>6
<1>8. Laid(g[m - 1], m - 1)
  BY <1>1, <1>3, <1>7
<1>9. s[m] \in Character
  BY <1>1, <1>7, ElementOfSeq
<1>10. Laid(g[m], (m - 1) + 1)
  BY <1>5, <1>6, <1>7, <1>8, <1>9, CharLaid
<1>11. (m - 1) + 1 = m
  BY <1>4
<1> QED BY <1>4, <1>10, <1>11

(* The strings at_split_args() leaves are those it has counted. *)
LEMMA EndOfArg ==
  ASSUME NEW s \in Seq(Character), NEW end, Laid(end, Len(s)), NEW k \in 1..Len(end.starts)
  PROVE  /\ EndOf(Afterwards(end, s).text, end.starts[k]) = Stop(end, k)
         /\ Stop(end, k) - 1 <= Len(end.out) /\ Stop(end, k) - 1 \in Nat
         /\ end.starts[k] \in 1..Len(s)
         /\ \A i \in 1..Len(end.out) : Afterwards(end, s).text[i] = end.out[i]
<1>1. PICK N \in Nat, O \in Nat, L \in Nat :
        N = Len(s) /\ O = Len(end.out) /\ O <= N /\ L = Len(end.starts)
  BY LenProperties DEF Laid, State
<1>2. PICK b \in 1..N, p \in Nat :
        /\ b = end.starts[k] /\ p = Stop(end, k) /\ b <= p /\ p <= O + 1
        /\ \A j \in 1..O : b <= j /\ j < p => end.out[j] # NUL
  BY <1>1 DEF Laid, ArgLaid
<1> DEFINE t == Afterwards(end, s).text
<1>3. t = [i \in 1..(N + 1) |-> IF i <= O THEN end.out[i]
                               ELSE IF i = O + 1 \/ i > N THEN NUL ELSE s[i]]
  BY <1>1 DEF Afterwards
<1>4. Len(t) = N + 1
  BY <1>3
<1>5. \A i \in 1..O : t[i] = end.out[i]
  BY <1>1, <1>3
<1>6. t[O + 1] = NUL
  BY <1>1, <1>3
<1>7. t[p] = NUL
  <2>1. CASE p = O + 1
    BY <1>6, <2>1
  <2>2. CASE p # O + 1
    <3>1. p \in 1..O
      BY <1>2, <2>2
    <3>2. end.out[p] = NUL
      <4>1. CASE k <= end.argc
        BY <1>1, <1>2, <4>1 DEF Laid, ArgLaid
      <4>2. CASE ~(k <= end.argc)
        <5>1. end.in # "delim" /\ L = end.argc + 1 /\ end.argc \in Nat
          BY <1>1, <4>2 DEF Laid, State
        <5>2. ~(k < L)
          BY <4>2, <5>1
        <5>3. p = O + 1
          BY <1>1, <1>2, <5>1, <5>2 DEF Stop
        <5> QED BY <2>2, <5>3
      <4> QED BY <4>1, <4>2
    <3> QED BY <1>5, <3>1, <3>2
  <2> QED BY <2>1, <2>2
<1> HIDE DEF t
<1>8. EndOf(t, b) = p
  <2> DEFINE S == {j \in b..Len(t) : t[j] = NUL}
  <2>1. p \in S
    BY <1>1, <1>2, <1>4, <1>7
  <2>2. ASSUME NEW j \in S PROVE p <= j
    <3>1. j \in b..(N + 1) /\ t[j] = NUL /\ j \in Nat
      BY <1>4
    <3>2. ASSUME j < p PROVE FALSE
      <4>1. j \in 1..O
        BY <1>2, <3>1, <3>2
      <4> QED BY <1>2, <1>5, <3>1, <3>2, <4>1
    <3> QED BY <3>1, <3>2
  <2>3. \A j \in S : j \in Nat
    BY <1>4
  <2>4. \A i \in S : (\A j \in S : i <= j) => i = p
    <3> HIDE DEF S
    <3> QED BY <2>1, <2>2, <2>3
  <2>5. LeastOf(S) = p
    <3> HIDE DEF S
    <3> QED BY <2>1, <2>2, <2>4 DEF LeastOf
  <2> QED BY <2>5 DEF EndOf
<1> QED BY <1>1, <1>2, <1>5, <1>8 DEF t

(* The walk from one zero to the next comes to where the commands begin. *)
LEMMA Walked ==
  ASSUME NEW s \in Seq(Character), NEW end, Laid(end, Len(s))
  PROVE  Walk(Afterwards(end, s)) = end.starts
<1> DEFINE t == Afterwards(end, s).text
<1>1. PICK L \in Nat, S \in Seq(Nat) : S = end.starts /\ L = Len(S) /\ DOMAIN S = 1..L
  BY LenProperties DEF Laid, State
<1>2. S[1] = 1 \/ L = 0
  BY <1>1 DEF Laid
<1>3. ASSUME NEW k \in 1..L PROVE S[k] = IF k = 1 THEN 1 ELSE EndOf(t, S[k - 1]) + 1
  <2>1. CASE k = 1
    BY <1>2, <2>1
  <2>2. CASE k # 1
    <3>1. k - 1 \in 1..L /\ k - 1 < L /\ (k - 1) + 1 = k
      BY <2>2
    <3>2. EndOf(t, S[k - 1]) = S[k] - 1
      BY <1>1, <3>1, EndOfArg DEF Stop
    <3>3. S[k] \in Nat
      BY <1>1, ElementOfSeq
    <3> QED BY <2>2, <3>2, <3>3
  <2> QED BY <2>1, <2>2
<1> HIDE DEF t
<1> DEFINE Is(f) == f = [k \in 1..L |-> IF k = 1 THEN 1 ELSE EndOf(t, f[k - 1]) + 1]
<1>4. Is(S)
  <2> DEFINE f == [k \in 1..L |-> IF k = 1 THEN 1 ELSE EndOf(t, S[k - 1]) + 1]
  <2>1. DOMAIN S = DOMAIN f /\ \A k \in 1..L : S[k] = f[k]
    BY <1>1, <1>3
  <2>2. S = [k \in 1..L |-> S[k]]
    BY <1>1
  <2>3. f = [k \in 1..L |-> S[k]]
    BY <2>1
  <2> QED BY <2>2, <2>3
<1>5. ASSUME NEW f, Is(f) PROVE f = S
  <2>1. /\ f = [k \in 1..L |-> f[k]]
        /\ \A k \in 1..L : f[k] = IF k = 1 THEN 1 ELSE EndOf(t, f[k - 1]) + 1
    BY <1>5
  <2> DEFINE D == {k \in 1..L : f[k] # S[k]}
  <2>2. ASSUME D # {} PROVE FALSE
    <3>1. PICK k \in D : \A j \in D : k <= j
      <4>1. D \in SUBSET Nat
        OBVIOUS
      <4> HIDE DEF D
      <4> QED BY <2>2, <4>1, Minimum
    <3>2. k \in 1..L /\ k \in Nat /\ f[k] # S[k]
      OBVIOUS
    <3>3. k # 1
      BY <1>3, <2>1, <3>2
    <3>4. k - 1 \in 1..L /\ ~(k <= k - 1)
      BY <3>2, <3>3
    <3>5. f[k - 1] = S[k - 1]
      BY <3>1, <3>4
    <3> QED BY <1>3, <2>1, <3>2, <3>3, <3>5
  <2>3. \A k \in 1..L : f[k] = S[k]
    BY <2>2
  <2>4. f = [k \in 1..L |-> S[k]]
    <3> HIDE DEF Is
    <3>1. [k \in 1..L |-> f[k]] = [k \in 1..L |-> S[k]]
      BY <2>3
    <3> QED BY <2>1, <3>1
  <2>5. S = [k \in 1..L |-> S[k]]
    BY <1>1
  <2> QED BY <2>4, <2>5
<1>6. Walk(Afterwards(end, s)) = CHOOSE f : Is(f)
  BY <1>1 DEF Walk, Afterwards, t
<1> QED BY <1>1, <1>4, <1>5, <1>6

(* Where nothing is quoted or escaped. *)
LEMMA PlainCharIs ==
  ASSUME NEW st \in State, st.in \in {"delim", "arg"}, ~st.escaped,
         NEW c \in Character, c \notin {QUOTE, ESCAPE}, NEW d, NEW l,
         NEW r, r = Char(st, c, d, l)
  PROVE  /\ r.in \in {"delim", "arg"} /\ ~r.escaped
         /\ \/ r = st /\ (st.argc = l \/ (st.in = "delim" /\ c = d))
            \/ st.argc # l /\ c # d /\ Begun(r, st, c) /\ r.out = Append(st.out, c)
            \/ st.argc # l /\ c # d /\ More(r, st, c)
            \/ st.argc # l /\ c = d /\ Ended(r, st)
<1> DEFINE o == st.out
<1>1. o \in Seq(Text) /\ c \in Text
  BY DEF State, Text
<1>2. o \o <<c>> = Append(o, c)
  BY <1>1, TextGrows
<1>3. CASE st.argc = l
  BY <1>3 DEF Char
<1>4. CASE st.argc # l /\ st.in = "delim" /\ c = d
  BY <1>4 DEF Char, Between
<1>5. CASE st.argc # l /\ st.in = "delim" /\ c # d
  <2>1. r = NextArg(st, "arg", <<c>>, FALSE)
    BY <1>5 DEF Char, Between
  <2>2. r = [in |-> "arg", escaped |-> FALSE, argc |-> st.argc, out |-> Append(o, c),
             starts |-> Append(st.starts, Len(o) + 1)]
    BY <1>2, <2>1 DEF NextArg, State
  <2> QED BY <1>5, <2>2 DEF Begun
<1>6. CASE st.argc # l /\ st.in = "arg" /\ c = d
  <2>1. r = EndArg(st)
    BY <1>6 DEF Char, Within
  <2>2. r = [in |-> "delim", escaped |-> st.escaped, argc |-> st.argc + 1, out |-> Append(o, NUL),
             starts |-> st.starts]
    BY <2>1 DEF EndArg, State
  <2> QED BY <1>6, <2>2 DEF Ended
<1>7. CASE st.argc # l /\ st.in = "arg" /\ c # d
  <2>1. r = [st EXCEPT !.out = Append(@, c)]
    BY <1>7 DEF Char, Within
  <2>2. r = [in |-> st.in, escaped |-> st.escaped, argc |-> st.argc, out |-> Append(o, c),
             starts |-> st.starts]
    BY <2>1 DEF State
  <2> QED BY <1>7, <2>2 DEF More
<1> QED BY <1>3, <1>4, <1>5, <1>6, <1>7

(* The arguments so far are the pieces that begin at b's places, copied; the *)
(* others have ended with a delimiter, an open one reaches to the character  *)
(* read last. *)
Size(st, k) == Stop(st, k) - st.starts[k]
Copied(st, s, d, i, k) ==
  \A j \in 0..(Size(st, k) - 1) : st.out[st.starts[k] + j] = s[i + j] /\ s[i + j] # d
PieceLaid(st, s, d, n, i, k) ==
  /\ i <= n /\ Size(st, k) \in Nat \ {0} /\ Copied(st, s, d, i, k)
  /\ IF k <= st.argc THEN i + Size(st, k) <= n /\ s[i + Size(st, k)] = d
     ELSE i + Size(st, k) = n + 1
Delimited(st, s, d, n) == st.in = "delim" => n = 0 \/ s[n] = d
Pieced(st, s, d, l, n, b) ==
  /\ b \in Seq(Begins(s, d)) /\ Ascending(b) /\ Len(b) = Len(st.starts)
  /\ st.in \in {"delim", "arg"} /\ ~st.escaped
  /\ st.argc <= l /\ (st.in = "arg" => st.argc # l)
  /\ st.argc # l => Delimited(st, s, d, n)
  /\ \A i \in Begins(s, d) : i <= n =>
       (\E m \in 1..Len(b) : i = b[m]) \/ (st.argc = l /\ \A m \in 1..Len(b) : b[m] < i)
  /\ \A k \in 1..Len(b) : PieceLaid(st, s, d, n, b[k], k)

LEMMA StartPieced ==
  ASSUME NEW s \in Seq(Character), NEW d, NEW l \in Nat \ {0}
  PROVE  Pieced(Start, s, d, l, 0, <<>>)
<1>1. <<>> \in Seq(Begins(s, d)) /\ Len(<<>>) = 0
  OBVIOUS
<1>2. /\ Start.starts = <<>> /\ Start.in = "delim" /\ Start.argc = 0 /\ Start.escaped = FALSE
  BY DEF Start
<1>3. \A i \in Begins(s, d) : ~(i <= 0)
  <2>1. Len(s) \in Nat
    BY LenProperties
  <2> QED BY <2>1 DEF Begins
<1>4. Ascending(<<>>)
  BY DEF Ascending
<1>5. \A k \in 1..Len(<<>>) : PieceLaid(Start, s, d, 0, <<>>[k], k)
  OBVIOUS
<1> QED BY <1>1, <1>2, <1>3, <1>4, <1>5 DEF Pieced, Delimited

(* The k-th of the arguments so far: its place in the line afterwards x, its *)
(* size p and its place in the line before i. *)
PieceIs(st, s, d, n, k, x, p, i) ==
  /\ x = st.starts[k] /\ Stop(st, k) = x + p
  /\ x >= 1 /\ i >= 1 /\ i <= n
  /\ \A j \in 0..(p - 1) : x + j \in 1..Len(st.out) /\ st.out[x + j] = s[i + j] /\ s[i + j] # d
  /\ IF k <= st.argc THEN i + p <= n /\ s[i + p] = d /\ x + p <= Len(st.out)
     ELSE i + p = n + 1 /\ x + p = Len(st.out) + 1
PieceAt(st, s, d, n, k, i) == i \in Nat /\ \E x \in Nat, p \in Nat \ {0} : PieceIs(st, s, d, n, k, x, p, i)

LEMMA PieceOf ==
  ASSUME NEW s \in Seq(Character), NEW d, NEW l, NEW n \in 0..Len(s), NEW st, NEW b,
         Laid(st, n), Pieced(st, s, d, l, n, b), NEW k \in 1..Len(b)
  PROVE  PieceAt(st, s, d, n, k, b[k])
<1>1. PICK N \in Nat, O \in Nat, L \in Nat, a \in Nat :
        /\ N = Len(s) /\ O = Len(st.out) /\ L = Len(st.starts) /\ L = Len(b) /\ n \in 0..N
        /\ a = st.argc /\ L = IF st.in = "delim" THEN a ELSE a + 1
  BY LenProperties DEF Laid, State, Pieced
<1>2. k \in 1..L
  BY <1>1
<1>3. PICK x \in 1..n, y \in Nat :
        /\ x = st.starts[k] /\ y = Stop(st, k) /\ x <= y /\ y <= O + 1 /\ (k <= a => y <= O)
  BY <1>1, <1>2 DEF Laid, ArgLaid
<1>4. b[k] \in Begins(s, d)
  BY ElementOfSeq DEF Pieced
<1>5. PICK i \in 1..N : i = b[k]
  BY <1>1, <1>4 DEF Begins
<1>6. PieceLaid(st, s, d, n, i, k)
  BY <1>5 DEF Pieced
<1>7. PICK p \in Nat \ {0} : p = Size(st, k) /\ p = y - x
  <2>1. Size(st, k) \in Nat \ {0}
    BY <1>6 DEF PieceLaid
  <2>2. Size(st, k) = y - x
    BY <1>3 DEF Size
  <2> QED BY <2>1, <2>2
<1>8. x + p = y /\ i \in 1..n
  <2>1. i <= n
    BY <1>6 DEF PieceLaid
  <2>2. n \in Nat /\ x \in Nat
    BY <1>1
  <2>3. x + p = y
    BY <1>7, <2>2
  <2>4. i \in 1..n
    BY <2>1, <2>2
  <2> QED BY <2>3, <2>4
<1>9. \A j \in 0..(p - 1) : st.out[x + j] = s[i + j] /\ s[i + j] # d
  <2>1. Copied(st, s, d, i, k)
    BY <1>6 DEF PieceLaid
  <2> QED BY <1>3, <1>7, <2>1 DEF Copied
<1>10. \A j \in 0..(p - 1) : x + j \in 1..O
  <2>1. x \in Nat /\ x >= 1 /\ x + p <= O + 1
    BY <1>1, <1>3, <1>8
  <2> QED BY <2>1
<1>11. k <= a => i + p <= n /\ s[i + p] = d /\ x + p <= O
  BY <1>1, <1>3, <1>5, <1>6, <1>7, <1>8 DEF PieceLaid
<1>12. ASSUME ~(k <= a) PROVE i + p = n + 1 /\ x + p = O + 1
  <2>1. st.in # "delim" /\ ~(k < L)
    BY <1>1, <1>2, <1>12
  <2>2. y = O + 1
    BY <1>1, <1>3, <2>1 DEF Stop
  <2> QED BY <1>1, <1>5, <1>6, <1>7, <1>8, <1>12, <2>2 DEF PieceLaid
<1>13. x \in Nat /\ i \in Nat /\ x >= 1 /\ i >= 1 /\ i <= n
  BY <1>3, <1>5, <1>8
<1>14. PieceIs(st, s, d, n, k, x, p, i)
  BY <1>1, <1>3, <1>8, <1>9, <1>10, <1>11, <1>12, <1>13 DEF PieceIs
<1> QED BY <1>5, <1>13, <1>14 DEF PieceAt

(* A piece that has ended, or ends now, stays; an open one grows. *)
LEMMA PieceStays ==
  ASSUME NEW s, NEW d, NEW n \in Nat, NEW st, NEW r, NEW k,
         NEW i, PieceAt(st, s, d, n, k, i),
         r.starts[k] = st.starts[k], Stop(r, k) = Stop(st, k),
         \A j \in 1..Len(st.out) : r.out[j] = st.out[j],
         k <= r.argc, k <= st.argc \/ s[n + 1] = d
  PROVE  PieceLaid(r, s, d, n + 1, i, k)
<1> PICK x \in Nat, p \in Nat \ {0} : i \in Nat /\ PieceIs(st, s, d, n, k, x, p, i)
  BY DEF PieceAt
<1>1. r.starts[k] = x /\ Size(r, k) = p
  BY DEF Size, PieceIs
<1>2. i <= n + 1 /\ i + p <= n + 1 /\ s[i + p] = d
  <2>1. i <= n /\ ((i + p <= n /\ s[i + p] = d) \/ (~(k <= st.argc) /\ i + p = n + 1))
    BY DEF PieceIs
  <2>2. i <= n + 1 /\ i + p <= n + 1
    BY <2>1
  <2> QED BY <2>1, <2>2
<1>3. \A j \in 0..(p - 1) : r.out[x + j] = s[i + j] /\ s[i + j] # d
  BY DEF PieceIs
<1> QED BY <1>1, <1>2, <1>3 DEF PieceLaid, Copied

LEMMA PieceGrows ==
  ASSUME NEW s, NEW d, NEW n \in Nat, NEW st, NEW r, NEW k,
         NEW i, PieceAt(st, s, d, n, k, i),
         r.starts[k] = st.starts[k], Stop(r, k) = Len(st.out) + 2,
         \A j \in 1..Len(st.out) : r.out[j] = st.out[j],
         NEW O \in Nat, O = Len(st.out), r.out[O + 1] = s[n + 1], s[n + 1] # d,
         ~(k <= r.argc), ~(k <= st.argc)
  PROVE  PieceLaid(r, s, d, n + 1, i, k)
<1> PICK x \in Nat, p \in Nat \ {0} : i \in Nat /\ PieceIs(st, s, d, n, k, x, p, i)
  BY DEF PieceAt
<1>1. x + p = O + 1 /\ i + p = n + 1 /\ i <= n + 1 /\ r.starts[k] = x
  BY DEF PieceIs
<1>2. Size(r, k) = p + 1 /\ p + 1 \in Nat \ {0}
  BY <1>1 DEF Size
<1>3. ASSUME NEW j \in 0..((p + 1) - 1) PROVE r.out[x + j] = s[i + j] /\ s[i + j] # d
  <2>1. CASE j = p
    BY <1>1, <2>1
  <2>2. CASE j # p
    <3>1. j \in 0..(p - 1)
      BY <2>2
    <3> QED BY <3>1 DEF PieceIs
  <2> QED BY <2>1, <2>2
<1>4. i + (p + 1) = (n + 1) + 1
  BY <1>1
<1> QED BY <1>1, <1>2, <1>3, <1>4 DEF PieceLaid, Copied

LEMMA BeginsGrow ==
  ASSUME NEW B \in SUBSET Nat, NEW b \in Seq(B), Ascending(b), NEW e \in B,
         \A m \in 1..Len(b) : b[m] < e
  PROVE  /\ Append(b, e) \in Seq(B) /\ Ascending(Append(b, e)) /\ Len(Append(b, e)) = Len(b) + 1
         /\ Append(b, e)[Len(b) + 1] = e /\ \A m \in 1..Len(b) : Append(b, e)[m] = b[m]
<1>1. /\ Append(b, e) \in Seq(B) /\ Len(Append(b, e)) = Len(b) + 1
      /\ Append(b, e)[Len(b) + 1] = e /\ \A m \in 1..Len(b) : Append(b, e)[m] = b[m]
  BY AppendProperties
<1>2. PICK L \in Nat : L = Len(b)
  BY LenProperties
<1>3. ASSUME NEW j \in 1..(L + 1), NEW k \in 1..(L + 1), j < k
      PROVE  Append(b, e)[j] < Append(b, e)[k]
  <2>1. j \in 1..L
    BY <1>2, <1>3
  <2>2. CASE k = L + 1
    BY <1>1, <1>2, <2>1, <2>2
  <2>3. CASE k # L + 1
    <3>1. k \in 1..L
      BY <1>2, <2>3
    <3> QED BY <1>1, <1>2, <1>3, <2>1, <3>1 DEF Ascending
  <2> QED BY <2>2, <2>3
<1> QED BY <1>1, <1>2, <1>3 DEF Ascending

LEMMA CharPieced ==
  ASSUME NEW s \in Seq(Character), NEW d, NEW l \in Nat, NEW n \in Nat, n + 1 \in 1..Len(s),
         s[n + 1] \notin {QUOTE, ESCAPE}, NEW st, NEW b,
         Laid(st, n), Pieced(st, s, d, l, n, b), NEW r, r = Char(st, s[n + 1], d, l)
  PROVE  \E e : Pieced(r, s, d, l, n + 1, e)
<1> DEFINE c == s[n + 1]
           B == Begins(s, d)
           Old(i) == (\E m \in 1..Len(b) : i = b[m]) \/ (st.argc = l /\ \A m \in 1..Len(b) : b[m] < i)
<1>1. PICK N \in Nat, O \in Nat, L \in Nat, a \in Nat :
        /\ N = Len(s) /\ n + 1 \in 1..N /\ n \in 0..N
        /\ O = Len(st.out) /\ L = Len(st.starts) /\ L = Len(b)
        /\ a = st.argc /\ L = IF st.in = "delim" THEN a ELSE a + 1
  BY LenProperties DEF Laid, State, Pieced
<1>2. c \in Character /\ c \in Text /\ NUL \in Text
  BY ElementOfSeq DEF Text
<1>3. st \in State /\ st.in \in {"delim", "arg"} /\ ~st.escaped /\ st.out \in Seq(Text)
      /\ st.starts \in Seq(Nat)
  BY DEF Laid, Pieced, State
<1>4. /\ r.in \in {"delim", "arg"} /\ ~r.escaped
      /\ \/ r = st /\ (st.argc = l \/ (st.in = "delim" /\ c = d))
         \/ st.argc # l /\ c # d /\ Begun(r, st, c) /\ r.out = Append(st.out, c)
         \/ st.argc # l /\ c # d /\ More(r, st, c)
         \/ st.argc # l /\ c = d /\ Ended(r, st)
  BY <1>2, <1>3, PlainCharIs
<1>5. ASSUME NEW k \in 1..L PROVE PieceAt(st, s, d, n, k, b[k])
  <2>1. k \in 1..Len(b) /\ n \in 0..Len(s)
    BY <1>1
  <2> QED BY <2>1, PieceOf
<1>6. /\ b \in Seq(B) /\ Ascending(b) /\ Len(b) = Len(st.starts)
      /\ st.argc <= l /\ (st.in = "arg" => st.argc # l) /\ (st.argc # l => Delimited(st, s, d, n))
      /\ \A i \in B : i <= n => Old(i)
  BY DEF Pieced
<1>7. \A m \in 1..L : b[m] \in Nat /\ b[m] <= n
  BY <1>5 DEF PieceAt, PieceIs
<1>8. B \in SUBSET Nat /\ \A i \in B : s[i] # d /\ (i = 1 \/ s[i - 1] = d)
  BY <1>1 DEF Begins
<1>9. \A i \in B : i <= n + 1 => i <= n \/ i = n + 1
  BY <1>8
<1> HIDE DEF c, B, Old
<1>10. CASE r = st /\ (st.argc = l \/ (st.in = "delim" /\ c = d))
  <2>1. ASSUME NEW k \in 1..L PROVE PieceLaid(r, s, d, n + 1, b[k], k)
    <3>1. PieceAt(st, s, d, n, k, b[k])
      BY <1>5
    <3>2. st.in = "delim"
      BY <1>3, <1>6, <1>10
    <3>3. k <= st.argc
      BY <1>1, <3>2
    <3> QED BY <1>10, <3>1, <3>3, PieceStays
  <2>2. st.argc # l => Delimited(r, s, d, n + 1)
    BY <1>10 DEF Delimited, c
  <2>3. ASSUME n + 1 \in B PROVE Old(n + 1)
    <3>1. st.argc = l
      BY <1>8, <1>10, <2>3 DEF c
    <3> QED BY <1>1, <1>7, <3>1 DEF Old
  <2>4. \A i \in B : i <= n + 1 => Old(i)
    BY <1>6, <1>9, <2>3
  <2>5. Pieced(r, s, d, l, n + 1, b)
    BY <1>1, <1>3, <1>6, <1>10, <2>1, <2>2, <2>4 DEF Pieced, B, Old
  <2> QED BY <2>5
<1>11. CASE st.argc # l /\ c # d /\ Begun(r, st, c) /\ r.out = Append(st.out, c)
  <2> DEFINE e == Append(b, n + 1)
  <2>1. st.in = "delim" /\ r.in # "delim" /\ r.argc = st.argc
    BY <1>11 DEF Begun
  <2>2. L = st.argc
    BY <1>1, <2>1
  <2>3. n + 1 \in B
    <3>1. n = 0 \/ s[n] = d
      BY <1>6, <1>11, <2>1 DEF Delimited
    <3>2. n + 1 \in DOMAIN s /\ (n + 1) - 1 = n /\ (n = 0 => n + 1 = 1)
      OBVIOUS
    <3> QED BY <1>11, <3>1, <3>2 DEF B, Begins, c
  <2>4. \A m \in 1..Len(b) : b[m] < n + 1
    BY <1>1, <1>7
  <2>5. /\ e \in Seq(B) /\ Ascending(e) /\ Len(e) = Len(b) + 1
        /\ e[Len(b) + 1] = n + 1 /\ \A m \in 1..Len(b) : e[m] = b[m]
    BY <1>6, <1>8, <2>3, <2>4, BeginsGrow
  <2> HIDE DEF e
  <2>6. /\ Len(r.starts) = L + 1 /\ r.starts[L + 1] = O + 1
        /\ \A k \in 1..L : r.starts[k] = st.starts[k]
    <3>1. r.starts = Append(st.starts, Len(st.out) + 1)
      BY <1>11 DEF Begun
    <3>2. Len(st.out) + 1 \in Nat
      BY <1>1
    <3>3. /\ Len(r.starts) = Len(st.starts) + 1 /\ r.starts[Len(st.starts) + 1] = Len(st.out) + 1
          /\ \A k \in 1..Len(st.starts) : r.starts[k] = st.starts[k]
      BY <1>3, <3>1, <3>2, StartsGrow
    <3> QED BY <1>1, <3>3
  <2>7. /\ Len(r.out) = O + 1 /\ r.out[O + 1] = c
        /\ \A j \in 1..Len(st.out) : r.out[j] = st.out[j]
    BY <1>1, <1>2, <1>3, <1>11, TextGrows
  <2>8. Stop(r, L + 1) = (O + 1) + 1 /\ \A k \in 1..L : Stop(r, k) = Stop(st, k)
    <3>1. /\ Len(r.starts) = Len(st.starts) + 1 /\ r.starts[Len(st.starts) + 1] = Len(st.out) + 1
          /\ \A k \in 1..Len(st.starts) : r.starts[k] = st.starts[k]
          /\ Len(r.out) = Len(st.out) + 1 /\ Len(st.starts) \in Nat /\ Len(st.out) \in Nat
      BY <1>1, <2>6, <2>7
    <3>2. Len(r.out) \in Nat
      BY <1>1, <3>1
    <3>3. /\ Stop(r, Len(st.starts) + 1) = Len(r.out) + 1
          /\ \A k \in 1..Len(st.starts) : Stop(r, k) = Stop(st, k)
      BY <2>1, <3>1, <3>2, StopBegun
    <3> QED BY <1>1, <3>1, <3>3
  <2>9. ASSUME NEW k \in 1..L PROVE PieceLaid(r, s, d, n + 1, e[k], k)
    <3>1. PieceAt(st, s, d, n, k, b[k])
      BY <1>5
    <3>2. k <= st.argc
      BY <2>2
    <3>3. k <= r.argc /\ r.starts[k] = st.starts[k] /\ Stop(r, k) = Stop(st, k)
      BY <2>1, <2>6, <2>8, <3>2
    <3>4. PieceLaid(r, s, d, n + 1, b[k], k)
      BY <2>7, <3>1, <3>2, <3>3, PieceStays
    <3> QED BY <1>1, <2>5, <3>4
  <2>10. PieceLaid(r, s, d, n + 1, n + 1, L + 1)
    <3>1. Size(r, L + 1) = 1
      BY <2>6, <2>8 DEF Size
    <3>2. \A j \in 0..(1 - 1) : r.out[r.starts[L + 1] + j] = s[n + 1 + j] /\ s[n + 1 + j] # d
      BY <1>11, <2>6, <2>7 DEF c
    <3>3. ~(L + 1 <= r.argc)
      BY <2>1, <2>2
    <3> QED BY <3>1, <3>2, <3>3 DEF PieceLaid, Copied
  <2>11. \A k \in 1..(L + 1) : PieceLaid(r, s, d, n + 1, e[k], k)
    <3>1. e[L + 1] = n + 1
      BY <1>1, <2>5
    <3>2. \A k \in 1..(L + 1) : k \in 1..L \/ k = L + 1
      OBVIOUS
    <3> QED BY <2>9, <2>10, <3>1, <3>2
  <2>12. \A i \in B : i <= n + 1 => \E m \in 1..(L + 1) : i = e[m]
    <3>1. ASSUME NEW i \in B, i <= n PROVE \E m \in 1..(L + 1) : i = e[m]
      <4>1. PICK m \in 1..L : i = b[m]
        BY <1>1, <1>6, <1>11, <3>1 DEF Old
      <4>2. m \in 1..(L + 1) /\ e[m] = b[m]
        BY <1>1, <2>5
      <4> QED BY <4>1, <4>2
    <3>2. L + 1 \in 1..(L + 1) /\ e[L + 1] = n + 1
      <4>1. e[L + 1] = n + 1
        BY <1>1, <2>5
      <4>2. L + 1 \in 1..(L + 1)
        OBVIOUS
      <4> QED BY <4>1, <4>2
    <3> QED BY <1>9, <3>1, <3>2
  <2>13. Delimited(r, s, d, n + 1)
    BY <2>1 DEF Delimited
  <2>14. Len(e) = L + 1
    BY <1>1, <2>5
  <2>15. Pieced(r, s, d, l, n + 1, e)
    BY <1>4, <1>6, <1>11, <2>1, <2>5, <2>6, <2>11, <2>12, <2>13, <2>14 DEF Pieced, B
  <2> QED BY <2>15
<1>12. CASE st.argc # l /\ c # d /\ More(r, st, c)
  <2>1. /\ r.argc = st.argc /\ r.in # "delim" /\ st.in # "delim" /\ r.starts = st.starts
        /\ r.out = Append(st.out, c)
    BY <1>12 DEF More
  <2>2. L = a + 1
    BY <1>1, <2>1
  <2>3. /\ Len(r.out) = O + 1 /\ r.out[O + 1] = c
        /\ \A j \in 1..Len(st.out) : r.out[j] = st.out[j]
    BY <1>1, <1>2, <1>3, <2>1, TextGrows
  <2>4. Stop(r, L) = Len(st.out) + 2 /\ \A k \in 1..(L - 1) : Stop(r, k) = Stop(st, k)
    <3>1. Len(r.out) = Len(st.out) + 1 /\ Len(st.starts) \in Nat /\ Len(st.out) \in Nat
      BY <1>1, <2>3
    <3>2. /\ Stop(r, Len(st.starts)) = Len(st.out) + 2
          /\ \A k \in 1..(Len(st.starts) - 1) : Stop(r, k) = Stop(st, k)
      BY <2>1, <3>1, StopMore
    <3> QED BY <1>1, <3>2
  <2>5. ASSUME NEW k \in 1..L PROVE PieceLaid(r, s, d, n + 1, b[k], k)
    <3>1. PieceAt(st, s, d, n, k, b[k])
      BY <1>5
    <3>2. CASE k = L
      <4>1. ~(k <= st.argc)
        BY <1>1, <2>2, <3>2
      <4>2. r.out[O + 1] = s[n + 1] /\ s[n + 1] # d
        BY <1>12, <2>3 DEF c
      <4> QED BY <1>1, <2>1, <2>3, <2>4, <3>1, <3>2, <4>1, <4>2, PieceGrows
    <3>3. CASE k # L
      <4>1. k \in 1..(L - 1)
        BY <3>3
      <4>2. k <= st.argc
        BY <1>1, <2>2, <4>1
      <4>3. k <= r.argc /\ r.starts[k] = st.starts[k] /\ Stop(r, k) = Stop(st, k)
        BY <2>1, <2>4, <4>1, <4>2
      <4> QED BY <2>3, <3>1, <4>2, <4>3, PieceStays
    <3> QED BY <3>2, <3>3
  <2>6. n + 1 \notin B
    <3>1. L \in 1..L /\ ~(L <= st.argc)
      BY <1>1, <2>2
    <3>2. PICK x \in Nat, p \in Nat \ {0}, i \in Nat : PieceIs(st, s, d, n, L, x, p, i)
      BY <1>5, <3>1 DEF PieceAt
    <3>3. i + p = n + 1 /\ i >= 1 /\ \A j \in 0..(p - 1) : s[i + j] # d
      BY <3>1, <3>2 DEF PieceIs
    <3>4. p - 1 \in 0..(p - 1) /\ i + (p - 1) = n /\ (n + 1) - 1 = n /\ n + 1 # 1
      BY <3>3
    <3>5. s[n] # d
      BY <3>3, <3>4
    <3> QED BY <1>8, <3>4, <3>5
  <2>7. Delimited(r, s, d, n + 1)
    BY <2>1 DEF Delimited
  <2>8. \A i \in B : i <= n + 1 => Old(i)
    BY <1>6, <1>9, <2>6
  <2>9. Pieced(r, s, d, l, n + 1, b)
    BY <1>1, <1>4, <1>6, <1>12, <2>1, <2>5, <2>7, <2>8 DEF Pieced, B, Old
  <2> QED BY <2>9
<1>13. CASE st.argc # l /\ c = d /\ Ended(r, st)
  <2>1. /\ r.argc = st.argc + 1 /\ r.in = "delim" /\ st.in # "delim" /\ r.starts = st.starts
        /\ r.out = Append(st.out, NUL)
    BY <1>13 DEF Ended
  <2>2. L = a + 1 /\ r.argc = L
    BY <1>1, <2>1
  <2>3. Len(r.out) = O + 1 /\ \A j \in 1..Len(st.out) : r.out[j] = st.out[j]
    BY <1>1, <1>2, <1>3, <2>1, TextGrows
  <2>4. \A k \in 1..L : Stop(r, k) = Stop(st, k)
    <3>1. Len(r.out) = Len(st.out) + 1 /\ Len(st.starts) \in Nat /\ Len(st.out) \in Nat
      BY <1>1, <2>3
    <3>2. \A k \in 1..Len(st.starts) : Stop(r, k) = Stop(st, k)
      BY <2>1, <3>1, StopEnded
    <3> QED BY <1>1, <3>2
  <2>5. ASSUME NEW k \in 1..L PROVE PieceLaid(r, s, d, n + 1, b[k], k)
    <3>1. PieceAt(st, s, d, n, k, b[k])
      BY <1>5
    <3>2. k <= r.argc /\ s[n + 1] = d
      BY <1>13, <2>2 DEF c
    <3>3. r.starts[k] = st.starts[k] /\ Stop(r, k) = Stop(st, k)
      BY <2>1, <2>4
    <3> QED BY <2>3, <3>1, <3>2, <3>3, PieceStays
  <2>6. n + 1 \notin B
    BY <1>8, <1>13 DEF c
  <2>7. Delimited(r, s, d, n + 1)
    BY <1>13 DEF Delimited, c
  <2>8. r.argc <= l
    BY <1>1, <1>6, <1>13, <2>2
  <2>9. \A i \in B : i <= n + 1 => \E m \in 1..Len(b) : i = b[m]
    BY <1>6, <1>9, <1>13, <2>6 DEF Old
  <2>10. Pieced(r, s, d, l, n + 1, b)
    BY <1>1, <1>4, <1>6, <2>1, <2>5, <2>7, <2>8, <2>9 DEF Pieced, B
  <2> QED BY <2>10
<1> QED BY <1>4, <1>10, <1>11, <1>12, <1>13

LEMMA AllPieced ==
  ASSUME NEW s \in Seq(Character), NEW d, NEW l \in Nat \ {0}, NEW g, Splits(g, s, d, l),
         \A i \in 1..Len(s) : s[i] \notin {QUOTE, ESCAPE}, NEW n \in 0..Len(s)
  PROVE  \E b : Pieced(g[n], s, d, l, n, b)
<1> DEFINE Not == {m \in 0..Len(s) : ~ \E b : Pieced(g[m], s, d, l, m, b)}
<1>1. PICK N \in Nat : N = Len(s)
  BY LenProperties
<1>2. SUFFICES ASSUME Not # {} PROVE FALSE
  OBVIOUS
<1>3. PICK m \in Not : \A k \in Not : m <= k
  <2>1. Not \in SUBSET Nat
    BY <1>1
  <2> HIDE DEF Not
  <2> QED BY <1>2, <2>1, Minimum
<1>4. m \in 0..N /\ ~ \E b : Pieced(g[m], s, d, l, m, b)
  BY <1>1
<1>5. g[m] = IF m = 0 THEN Start ELSE Char(g[m - 1], s[m], d, l)
  BY <1>1, <1>4 DEF Splits
<1>6. m # 0
  <2>1. Pieced(Start, s, d, l, 0, <<>>)
    BY StartPieced
  <2> QED BY <1>4, <1>5, <2>1
<1>7. PICK q \in Nat : m = q + 1 /\ m - 1 = q /\ q \in 0..N /\ q + 1 \in 1..N /\ ~(m <= q)
  <2>1. m - 1 \in Nat /\ m = (m - 1) + 1 /\ m - 1 \in 0..N /\ (m - 1) + 1 \in 1..N /\ ~(m <= m - 1)
    BY <1>4, <1>6
  <2> QED BY <2>1
<1>8. PICK b : Pieced(g[q], s, d, l, q, b)
  BY <1>1, <1>3, <1>7
<1>9. Laid(g[q], q)
  BY <1>1, <1>7, AllLaid
<1>10. q + 1 \in 1..Len(s) /\ s[q + 1] \notin {QUOTE, ESCAPE}
  BY <1>1, <1>7
<1>11. g[m] = Char(g[q], s[q + 1], d, l)
  BY <1>5, <1>6, <1>7
<1>12. \E e : Pieced(g[m], s, d, l, q + 1, e)
  BY <1>8, <1>9, <1>10, <1>11, CharPieced
<1> QED BY <1>4, <1>7, <1>12

SameFrom(t, x, s, i, p) == \A j \in 0..(p - 1) : t[x + j] = s[i + j] /\ s[i + j] \in Character

Sub(s, i, p) == SubSeq(s, i, (i + p) - 1)

LEMMA SameSub ==
  ASSUME NEW s, NEW t, NEW x \in Nat, NEW i \in Nat, NEW p \in Nat, p # 0,
         SameFrom(t, x, s, i, p)
  PROVE  /\ Sub(t, x, p) = Sub(s, i, p) /\ Sub(s, i, p) \in Seq(Character) /\ Len(Sub(s, i, p)) = p
         /\ \A m \in 1..p : Sub(s, i, p)[m] = s[(i + m) - 1]
<1> DEFINE u == SubSeq(t, x, (x + p) - 1)
           v == SubSeq(s, i, (i + p) - 1)
           y == (x + p) - 1
           z == (i + p) - 1
<1>1. y \in Int /\ z \in Int /\ x \in Int /\ i \in Int /\ x <= y /\ i <= z
      /\ y - x + 1 = p /\ z - i + 1 = p
  OBVIOUS
<1>2. \A m \in 1..p : m - 1 \in 0..(p - 1) /\ x + (m - 1) = x + m - 1 /\ i + (m - 1) = i + m - 1
  OBVIOUS
<1>3. \A j \in x..y : t[j] \in Character
  <2>1. ASSUME NEW j \in x..y PROVE t[j] \in Character
    <3>1. j - x \in 0..(p - 1) /\ x + (j - x) = j
      OBVIOUS
    <3> QED BY <3>1 DEF SameFrom
  <2> QED BY <2>1
<1>4. \A j \in i..z : s[j] \in Character
  <2>1. ASSUME NEW j \in i..z PROVE s[j] \in Character
    <3>1. j - i \in 0..(p - 1) /\ i + (j - i) = j
      OBVIOUS
    <3> QED BY <3>1 DEF SameFrom
  <2> QED BY <2>1
<1> HIDE DEF y, z
<1>5. /\ SubSeq(t, x, y) \in Seq(Character)
      /\ Len(SubSeq(t, x, y)) = IF x <= y THEN y - x + 1 ELSE 0
      /\ \A m \in 1..(y - x + 1) : SubSeq(t, x, y)[m] = t[x + m - 1]
  BY <1>1, <1>3, SubSeqProperties
<1>6. /\ SubSeq(s, i, z) \in Seq(Character)
      /\ Len(SubSeq(s, i, z)) = IF i <= z THEN z - i + 1 ELSE 0
      /\ \A m \in 1..(z - i + 1) : SubSeq(s, i, z)[m] = s[i + m - 1]
  BY <1>1, <1>4, SubSeqProperties
<1>7. /\ u \in Seq(Character) /\ Len(u) = p /\ \A m \in 1..p : u[m] = t[x + m - 1]
      /\ v \in Seq(Character) /\ Len(v) = p /\ \A m \in 1..p : v[m] = s[i + m - 1]
  BY <1>1, <1>5, <1>6 DEF y, z
<1> HIDE DEF u, v
<1>8. \A m \in 1..p : u[m] = v[m]
  <2>1. ASSUME NEW m \in 1..p PROVE u[m] = v[m]
    <3>1. t[x + (m - 1)] = s[i + (m - 1)]
      BY <1>2 DEF SameFrom
    <3> QED BY <1>2, <1>7, <3>1
  <2> QED BY <2>1
<1>9. u = v
  BY <1>7, <1>8, SeqEqual
<1> QED BY <1>7, <1>9 DEF u, v, Sub

(* An argument at the end of the line is the piece it was copied from. *)
LEMMA PieceIsArg ==
  ASSUME NEW s \in Seq(Character), NEW d, NEW end, Laid(end, Len(s)), NEW k \in 1..Len(end.starts),
         NEW x \in Nat, NEW p \in Nat, p # 0, NEW i \in Nat, PieceIs(end, s, d, Len(s), k, x, p, i)
  PROVE  /\ StringAt(Afterwards(end, s).text, end.starts[k]) = Piece(s, d, i)
         /\ Piece(s, d, i) \in Seq(Character) /\ Len(Piece(s, d, i)) = p
         /\ \A m \in 1..p : Piece(s, d, i)[m] = s[(i + m) - 1] /\ (i + m) - 1 \in 1..Len(s)
<1> DEFINE t == Afterwards(end, s).text
<1>1. PICK N \in Nat, O \in Nat : N = Len(s) /\ O = Len(end.out)
  BY LenProperties DEF Laid, State
<1>2. /\ x = end.starts[k] /\ Stop(end, k) = x + p /\ i >= 1
      /\ \A j \in 0..(p - 1) : x + j \in 1..O /\ end.out[x + j] = s[i + j] /\ s[i + j] # d
      /\ i + p <= N + 1
      /\ i + p <= N => s[i + p] = d
  <2>1. (i + p <= N /\ s[i + p] = d) \/ i + p = N + 1
    BY <1>1 DEF PieceIs
  <2>2. i + p <= N + 1 /\ (i + p <= N => s[i + p] = d)
    BY <2>1
  <2> QED BY <1>1, <2>2 DEF PieceIs
<1>3. EndOf(t, x) = x + p /\ \A j \in 1..O : t[j] = end.out[j]
  BY <1>1, <1>2, EndOfArg
<1>4. StringAt(t, x) = Sub(t, x, p)
  BY <1>3 DEF StringAt, Sub
<1>5. \A j \in 0..(p - 1) : i + j \in 1..N
  BY <1>2
<1>6. SameFrom(t, x, s, i, p)
  <2>1. \A j \in 1..N : s[j] \in Character
    BY <1>1, ElementOfSeq
  <2> HIDE DEF t
  <2> QED BY <1>2, <1>3, <1>5, <2>1 DEF SameFrom
<1> HIDE DEF t
<1>7. /\ Sub(t, x, p) = Sub(s, i, p) /\ Sub(s, i, p) \in Seq(Character) /\ Len(Sub(s, i, p)) = p
      /\ \A m \in 1..p : Sub(s, i, p)[m] = s[(i + m) - 1]
  BY <1>6, SameSub
<1>8. LeastOf({j \in i..Len(s) : j = Len(s) \/ s[j + 1] = d}) = (i + p) - 1
  <2> DEFINE S == {j \in i..Len(s) : j = Len(s) \/ s[j + 1] = d}
             e == (i + p) - 1
  <2>1. e \in i..N /\ e + 1 = i + p /\ (e = N \/ i + p <= N)
    BY <1>2
  <2>2. e \in S
    <3> HIDE DEF e
    <3> QED BY <1>1, <1>2, <2>1
  <2>3. ASSUME NEW j \in S PROVE e <= j
    <3>1. j \in i..N /\ (j = N \/ s[j + 1] = d)
      BY <1>1
    <3>2. ASSUME ~(e <= j) PROVE FALSE
      <4>1. (j + 1) - i \in 0..(p - 1) /\ i + ((j + 1) - i) = j + 1 /\ j # N
        BY <1>2, <3>1, <3>2
      <4>2. s[j + 1] # d
        BY <1>2, <4>1
      <4> QED BY <3>1, <4>1, <4>2
    <3> QED BY <3>2
  <2>4. S \in SUBSET Nat /\ e \in Nat
    BY <1>1, <2>1
  <2>5. \A q \in S : (\A j \in S : q <= j) => q = e
    <3> HIDE DEF S, e
    <3> QED BY <2>2, <2>3, <2>4
  <2>6. LeastOf(S) = e
    <3> HIDE DEF S, e
    <3> QED BY <2>2, <2>3, <2>5 DEF LeastOf
  <2> QED BY <2>6
<1>9. Piece(s, d, i) = Sub(s, i, p)
  BY <1>8 DEF Piece, Sub
<1>10. \A m \in 1..p : (i + m) - 1 \in 1..N
  BY <1>2
<1>11. StringAt(t, end.starts[k]) = StringAt(t, x)
  BY <1>2
<1> QED BY <1>1, <1>4, <1>7, <1>9, <1>10, <1>11 DEF t

PlainText(s) == \A i \in 1..Len(s) : s[i] \notin {QUOTE, ESCAPE}

LEMMA InOrderDomain ==
  ASSUME NEW S, Cardinality(S) \in Nat
  PROVE  DOMAIN InOrder(S) = 1..Cardinality(S) /\ Len(InOrder(S)) = Cardinality(S)
BY DEF InOrder

(* Without quotes and backslashes the arguments are the pieces between the  *)
(* delimiters, and none of them is empty. *)
LEMMA ArgsArePieces ==
  ASSUME NEW s \in Seq(Character), NEW d, NEW l \in Nat \ {0}, PlainText(s)
  PROVE  /\ Args(s, d, l) = Pieces(s, d, l)
         /\ \E m \in Nat : DOMAIN Pieces(s, d, l) = 1..m /\ m <= l
         /\ \A k \in DOMAIN Pieces(s, d, l) :
              LET q == Pieces(s, d, l)[k] IN q \in Seq(Character) /\ q # <<>> /\ PlainText(q)
<1>1. PICK N \in Nat : N = Len(s) /\ N \in 0..Len(s)
  BY LenProperties
<1>2. PICK g : Splits(g, s, d, l) /\ at_split_args(s, d, l) = Afterwards(g[Len(s)], s)
  BY <1>1, SplitIs
<1>3. PICK end : end = g[N]
  OBVIOUS
<1>4. Laid(end, N)
  BY <1>1, <1>2, <1>3, AllLaid
<1>5. PICK b : Pieced(end, s, d, l, N, b)
  BY <1>1, <1>2, <1>3, AllPieced DEF PlainText
<1> DEFINE B == Begins(s, d)
           t == Afterwards(end, s).text
<1>6. PICK L \in Nat, a \in Nat :
        /\ L = Len(end.starts) /\ L = Len(b) /\ a = end.argc /\ DOMAIN end.starts = 1..L
        /\ L = IF end.in = "delim" THEN a ELSE a + 1
  BY <1>4, <1>5, LenProperties DEF Laid, State, Pieced
<1>7. ASSUME NEW k \in 1..L
      PROVE  /\ StringAt(t, end.starts[k]) = Piece(s, d, b[k])
             /\ Piece(s, d, b[k]) \in Seq(Character) /\ Piece(s, d, b[k]) # <<>>
             /\ PlainText(Piece(s, d, b[k]))
  <2>1. k \in 1..Len(b) /\ Laid(end, Len(s)) /\ k \in 1..Len(end.starts)
        /\ Pieced(end, s, d, l, Len(s), b) /\ Len(s) \in 0..Len(s)
    BY <1>1, <1>4, <1>5, <1>6
  <2>2. PICK x \in Nat, p \in Nat \ {0}, i \in Nat :
          i = b[k] /\ PieceIs(end, s, d, Len(s), k, x, p, i)
    BY <2>1, PieceOf DEF PieceAt
  <2>3. /\ StringAt(t, end.starts[k]) = Piece(s, d, i)
        /\ Piece(s, d, i) \in Seq(Character) /\ Len(Piece(s, d, i)) = p
        /\ \A m \in 1..p : Piece(s, d, i)[m] = s[(i + m) - 1] /\ (i + m) - 1 \in 1..Len(s)
    <3>1. p \in Nat /\ p # 0 /\ PieceIs(end, s, d, Len(s), k, x, p, i)
      BY <2>2
    <3> QED BY <2>1, <3>1, PieceIsArg DEF t
  <2>4. PlainText(Piece(s, d, i))
    BY <2>3 DEF PlainText
  <2>5. Piece(s, d, i) # <<>>
    BY <2>3
  <2> QED BY <2>2, <2>3, <2>4, <2>5
<1> HIDE DEF t
<1>8. B \in SUBSET Nat /\ IsFiniteSet(B)
  <2>1. B \in SUBSET (1..N)
    BY <1>1 DEF Begins
  <2>2. IsFiniteSet(1..N)
    BY FS_Interval
  <2> QED BY <2>1, <2>2, FS_Subset
<1>9. /\ b \in Seq(B) /\ Ascending(b)
      /\ end.argc <= l /\ (end.in = "arg" => end.argc # l) /\ end.in \in {"delim", "arg"}
      /\ \A i \in B : i <= N =>
           (\E m \in 1..Len(b) : i = b[m]) \/ (end.argc = l /\ \A m \in 1..Len(b) : b[m] < i)
  BY <1>5 DEF Pieced
<1>10. \A i \in B : i <= N
  BY <1>1 DEF Begins
<1> HIDE DEF B
<1>11. \A i \in B : (\E m \in 1..Len(b) : i = b[m]) \/ (\A m \in 1..Len(b) : b[m] < i)
  BY <1>9, <1>10
<1>12. /\ Cardinality(B) \in Nat /\ Len(b) <= Cardinality(B)
       /\ (\A i \in B : \E m \in 1..Len(b) : i = b[m]) => Len(b) = Cardinality(B)
       /\ \A k \in 1..Len(b) : InOrder(B)[k] = b[k]
  BY <1>8, <1>9, <1>11, InOrderIs
<1>13. PICK C \in Nat : C = Cardinality(B)
  BY <1>12
<1>14. L = (IF C < l THEN C ELSE l) /\ L <= l
  <2>1. CASE a = l
    <3>1. L = l
      BY <1>6, <1>9, <2>1
    <3> QED BY <1>6, <1>12, <1>13, <3>1
  <2>2. CASE a # l
    <3>1. L = C
      BY <1>6, <1>9, <1>10, <1>12, <1>13, <2>2
    <3>2. L <= l
      BY <1>6, <1>9, <2>2
    <3> QED BY <3>1, <3>2
  <2> QED BY <2>1, <2>2
<1>15. Len(InOrder(B)) = C /\ \A k \in 1..L : InOrder(B)[k] = b[k]
  BY <1>6, <1>12, <1>13, InOrderDomain
<1>16. Pieces(s, d, l) = [k \in 1..L |-> Piece(s, d, InOrder(B)[k])]
  BY <1>14, <1>15 DEF Pieces, B
<1>17. Args(s, d, l) = [k \in 1..L |-> StringAt(t, end.starts[k])]
  <2>1. at_split_args(s, d, l) = Afterwards(end, s)
    BY <1>1, <1>2, <1>3
  <2>2. Afterwards(end, s).starts = end.starts
    BY DEF Afterwards
  <2>3. DOMAIN end.starts = 1..L
    BY <1>6
  <2> QED BY <2>1, <2>2, <2>3 DEF Args, t
<1>18. \A k \in 1..L : /\ StringAt(t, end.starts[k]) = Piece(s, d, InOrder(B)[k])
                       /\ Piece(s, d, InOrder(B)[k]) \in Seq(Character)
                       /\ Piece(s, d, InOrder(B)[k]) # <<>> /\ PlainText(Piece(s, d, InOrder(B)[k]))
  BY <1>7, <1>15
<1>19. Args(s, d, l) = Pieces(s, d, l)
  BY <1>16, <1>17, <1>18
<1>20. DOMAIN Pieces(s, d, l) = 1..L /\ L <= l
  BY <1>14, <1>16
<1>21. \A k \in 1..L : Pieces(s, d, l)[k] = Piece(s, d, InOrder(B)[k])
  BY <1>16
<1> QED BY <1>18, <1>19, <1>20, <1>21

LEMMA RestOfLine ==
  ASSUME NEW s \in Seq(Character), NEW n \in Nat \ {0}, PlainText(s)
  PROVE  /\ SubSeq(s, n, Len(s)) \in Seq(Character) /\ PlainText(SubSeq(s, n, Len(s)))
         /\ n <= Len(s) + 1 => Len(SubSeq(s, n, Len(s))) = Len(s) - n + 1
<1>1. PICK N \in Nat : N = Len(s)
  BY LenProperties
<1>2. N \in Int /\ n \in Int /\ \A i \in n..N : i \in 1..N /\ s[i] \in Character
  BY <1>1, ElementOfSeq
<1>3. /\ SubSeq(s, n, N) \in Seq(Character)
      /\ Len(SubSeq(s, n, N)) = IF n <= N THEN N - n + 1 ELSE 0
      /\ \A i \in 1..(N - n + 1) : SubSeq(s, n, N)[i] = s[n + i - 1]
  BY <1>2, SubSeqProperties
<1>4. PICK r : r = SubSeq(s, n, N)
  OBVIOUS
<1>5. ASSUME NEW i \in 1..Len(r) PROVE r[i] \notin {QUOTE, ESCAPE}
  <2>1. Len(r) = IF n <= N THEN N - n + 1 ELSE 0
    BY <1>3, <1>4
  <2>2. i \in 1..(N - n + 1) /\ n + i - 1 \in 1..N
    BY <2>1
  <2>3. r[i] = s[n + i - 1]
    BY <1>3, <1>4, <2>2
  <2> QED BY <1>1, <2>2, <2>3 DEF PlainText
<1>6. n <= N + 1 => Len(r) = N - n + 1
  BY <1>3, <1>4
<1> QED BY <1>1, <1>3, <1>4, <1>5, <1>6 DEF PlainText

PiecesBehind(q) == Pieces(Behind(q), ",", MaxParams)

LEMMA ParseSame ==
  ASSUME NEW q \in Seq(Character), PlainText(q)
  PROVE  at_cmd_parse(q) = Parse(q, PiecesBehind(q))
<1>1. CASE Equals(q) # {}
  <2>1. Equals(q) \in SUBSET Nat /\ \A i \in Equals(q) : i \in Nat \ {0}
    <3>1. Len(q) \in Nat
      BY LenProperties
    <3> QED BY <3>1 DEF Equals
  <2>2. \E i \in Equals(q) : \A j \in Equals(q) : i <= j
    BY <1>1, <2>1, Minimum
  <2>3. LeastOf(Equals(q)) \in Equals(q)
    BY <2>2 DEF LeastOf
  <2>4. PICK n \in Nat \ {0} : n = LeastOf(Equals(q)) + 1
    BY <2>1, <2>3
  <2>5. Behind(q) \in Seq(Character) /\ PlainText(Behind(q))
    BY <2>4, RestOfLine DEF Behind
  <2>6. MaxParams \in Nat \ {0}
    BY ArgcAssumption
  <2>7. Args(Behind(q), ",", MaxParams) = PiecesBehind(q)
    BY <2>5, <2>6, ArgsArePieces DEF PiecesBehind
  <2> QED BY <2>7 DEF at_cmd_parse
<1>2. CASE Equals(q) = {}
  BY <1>2, Zenon DEF at_cmd_parse, Parse
<1> QED BY <1>1, <1>2

(* A line's characters behind the AT. *)
LEMMA BehindAT ==
  ASSUME NEW line \in Seq(Character), IsCommandLine(line), NEW s, s = SubSeq(line, 3, Len(line))
  PROVE  s \in Seq(Character) /\ Len(s) = Len(line) - 2 /\ (Plain(line) => PlainText(s))
<1>1. PICK N \in Nat : N = Len(line) /\ N > 2
  BY LenProperties DEF IsCommandLine
<1>2. \A i \in 3..N : line[i] \in Character
  BY <1>1, ElementOfSeq
<1>3. /\ s \in Seq(Character)
      /\ Len(s) = IF 3 <= N THEN N - 3 + 1 ELSE 0
  BY <1>1, <1>2, SubSeqProperties
<1>4. ASSUME Plain(line) PROVE PlainText(s)
  <2>1. PlainText(line)
    <3>1. DOMAIN line = 1..N
      BY <1>1
    <3>2. ASSUME NEW i \in 1..N PROVE line[i] \notin {QUOTE, ESCAPE}
      BY <1>4, <3>1 DEF Plain
    <3> QED BY <1>1, <3>2 DEF PlainText
  <2> QED BY <2>1, RestOfLine
<1> QED BY <1>1, <1>3, <1>4

LEMMA LineAligned ==
  ASSUME NEW line \in Seq(Character), IsCommandLine(line)
  PROVE  Aligned(line)
<1>1. PICK s : s = SubSeq(line, 3, Len(line))
  OBVIOUS
<1>2. s \in Seq(Character) /\ Len(s) = Len(line) - 2
  BY <1>1, BehindAT
<1>3. Len(s) \in Nat /\ Len(s) \in 0..Len(s)
  BY <1>2, LenProperties
<1>4. PICK g : /\ Splits(g, s, ";", MaxCommands)
               /\ at_split_args(s, ";", MaxCommands) = Afterwards(g[Len(s)], s)
  BY <1>3, SplitIs
<1>5. PICK end : end = g[Len(s)]
  OBVIOUS
<1>6. Laid(end, Len(s))
  BY <1>2, <1>3, <1>4, <1>5, AllLaid
<1>7. Walk(Afterwards(end, s)) = end.starts
  BY <1>2, <1>6, Walked
<1>8. DOMAIN end.starts = 1..Len(end.starts)
  BY <1>6, LenProperties DEF Laid, State
<1>9. \A k \in 1..Len(end.starts) : end.starts[k] \in 1..Len(s)
  BY <1>2, <1>6, EndOfArg
<1>10. Afterwards(end, s).starts = end.starts
  BY DEF Afterwards
<1>11. \A k \in DOMAIN end.starts : end.starts[k] <= Len(line) - 2
  BY <1>2, <1>3, <1>8, <1>9
<1> QED BY <1>1, <1>4, <1>5, <1>7, <1>10, <1>11 DEF Aligned

LEMMA InOrderOfAll ==
  ASSUME NEW m \in Nat
  PROVE  DOMAIN InOrder(1..m) = 1..m /\ \A k \in 1..m : InOrder(1..m)[k] = k
<1> DEFINE b == [k \in 1..m |-> k]
           S == 1..m
<1>1. S \in SUBSET Nat /\ IsFiniteSet(S) /\ Cardinality(S) = m
  BY FS_Interval
<1>2. b \in Seq(S) /\ Len(b) = m /\ \A k \in 1..m : b[k] = k
  OBVIOUS
<1> HIDE DEF b
<1>3. Ascending(b)
  BY <1>2 DEF Ascending
<1>4. \A i \in S : \E j \in 1..Len(b) : i = b[j]
  BY <1>2
<1> HIDE DEF S
<1>5. \A k \in 1..Len(b) : InOrder(S)[k] = b[k]
  BY <1>1, <1>2, <1>3, <1>4, InOrderIs
<1>6. DOMAIN InOrder(S) = 1..m
  BY <1>1, InOrderDomain
<1> QED BY <1>2, <1>5, <1>6 DEF S

LEMMA RunAsWritten ==
  ASSUME NEW line \in Seq(Character), IsCommandLine(line), Plain(line)
  PROVE  Commands(line) = Written(line)
<1>1. PICK s : s = SubSeq(line, 3, Len(line))
  OBVIOUS
<1>2. s \in Seq(Character) /\ PlainText(s)
  BY <1>1, BehindAT
<1> DEFINE split == at_split_args(s, ";", MaxCommands)
           pieces == Pieces(s, ";", MaxCommands)
           walked == [k \in DOMAIN split.starts |-> StringAt(split.text, Walk(split)[k])]
<1>3. PICK m \in Nat :
        /\ Args(s, ";", MaxCommands) = pieces /\ DOMAIN pieces = 1..m
        /\ \A k \in 1..m : pieces[k] \in Seq(Character) /\ pieces[k] # <<>> /\ PlainText(pieces[k])
  <2>1. MaxCommands \in Nat \ {0}
    BY ArgcAssumption
  <2> QED BY <1>2, <2>1, ArgsArePieces
<1>4. Walk(split) = split.starts
  BY <1>1, LineAligned DEF Aligned
<1>5. walked = Args(s, ";", MaxCommands)
  <2> HIDE DEF split
  <2> QED BY <1>4 DEF Args, split
<1> DEFINE some == InOrder({k \in DOMAIN walked : walked[k] # <<>>})
<1>6. Commands(line) = [n \in DOMAIN some |-> at_cmd_parse(walked[some[n]])]
  BY <1>1 DEF Commands
<1> HIDE DEF walked, pieces
<1>7. {k \in DOMAIN walked : walked[k] # <<>>} = 1..m
  BY <1>3, <1>5
<1>8. DOMAIN some = 1..m /\ \A n \in 1..m : some[n] = n
  BY <1>7, InOrderOfAll
<1> HIDE DEF some
<1>9. Commands(line) = [n \in 1..m |-> at_cmd_parse(pieces[n])]
  BY <1>3, <1>5, <1>6, <1>8
<1>10. Written(line) = [n \in 1..m |-> Parse(pieces[n], PiecesBehind(pieces[n]))]
  BY <1>1, <1>3 DEF Written, pieces, PiecesBehind
<1>11. \A n \in 1..m : at_cmd_parse(pieces[n]) = Parse(pieces[n], PiecesBehind(pieces[n]))
  BY <1>3, ParseSame
<1> QED BY <1>9, <1>10, <1>11

(* Every line the reader hands over is walked as it was cut, and run as it  *)
(* was written. *)
THEOREM CommandsRunAsWritten == Spec => []CommandsAsWritten
<1>1. PppGetsAll => CommandsAsWritten
  <2> SUFFICES ASSUME PppGetsAll, NEW n \in DOMAIN lines, IsCommandLine(lines[n])
               PROVE  Aligned(lines[n]) /\ (Plain(lines[n]) => Commands(lines[n]) = Written(lines[n]))
    BY DEF CommandsAsWritten
  <2>1. lines[n] \in Seq(Character)
    <3>1. lines \in Seq(Seq(Character))
      BY DEF PppGetsAll, TypeOK
    <3>2. n \in 1..Len(lines)
      BY <3>1, LenProperties
    <3> QED BY <3>1, <3>2, ElementOfSeq
  <2> QED BY <2>1, LineAligned, RunAsWritten
<1> QED BY <1>1, NothingKeptFromPppd, PTL
=============================================================================
