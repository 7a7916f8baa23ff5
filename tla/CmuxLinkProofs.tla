--------------------------- MODULE CmuxLinkProofs ---------------------------
(***************************************************************************)
(* CmuxLink implements ChannelStreams, for every size of a byte and of a   *)
(* frame, every payload, every check value and all noise between frames.   *)
(***************************************************************************)
EXTENDS CmuxLink, Integers, SequenceTheorems, FiniteSetTheorems, WellFoundedInduction, TLAPS

-----------------------------------------------------------------------------
(* Sequences of bytes, one behind the other. *)

LEMMA BytesJoined ==
  ASSUME NEW a \in Seq(Bytes), NEW b \in Seq(Bytes)
  PROVE  /\ a \o b \in Seq(Bytes) /\ Len(a \o b) = Len(a) + Len(b)
         /\ \A i \in 1..(Len(a) + Len(b)) :
              (a \o b)[i] = IF i <= Len(a) THEN a[i] ELSE b[i - Len(a)]
BY ConcatProperties

LEMMA BytesGrouped ==
  ASSUME NEW a \in Seq(Bytes), NEW b \in Seq(Bytes), NEW e \in Seq(Bytes)
  PROVE  (a \o b) \o e = a \o (b \o e)
BY ConcatAssociative

-----------------------------------------------------------------------------
(* Numbers: how a length is written and read again. *)

LEMMA Numbers ==
  /\ Base \in Nat /\ Base >= 8 /\ SOF_MARKER \in Bytes /\ FrameSize \in Nat /\ FrameSize > 0
  /\ ShortMax \in Nat /\ ShortMax > 0 /\ 2 * ShortMax + 2 = Base
<1>1. Base \div 2 \in Nat /\ Base = 2 * (Base \div 2)
  BY ByteAssumption
<1> QED BY <1>1, ByteAssumption, FrameAssumption DEF ShortMax

LEMMA ShortLength ==
  ASSUME NEW n \in Nat, n <= ShortMax
  PROVE  /\ LengthField(n) = <<2 * n + 1>> /\ 2 * n + 1 \in Bytes
         /\ (2 * n + 1) % 2 = 1 /\ (2 * n + 1) \div 2 = n
<1>1. 2 * n + 1 \in 0..(Base - 1)
  BY Numbers
<1>2. (2 * n + 1) % Base = 2 * n + 1
  BY <1>1, Numbers
<1>3. (2 * n + 1) % 2 = 1 /\ (2 * n + 1) \div 2 = n
  OBVIOUS
<1> QED BY <1>1, <1>2, <1>3 DEF LengthField, Bytes

LEMMA LongLength ==
  ASSUME NEW n \in Nat, n > ShortMax, n <= FrameSize
  PROVE  \E lo, hi \in Bytes :
           /\ LengthField(n) = <<lo, hi>>
           /\ lo % 2 = 0 /\ (lo + hi * Base) \div 2 = n
<1> DEFINE lo == (2 * n) % Base
           hi == (2 * n) \div Base
<1>1. Base \in Nat /\ Base > 0 /\ 2 * n \in Nat
  BY Numbers
<1>2. lo \in 0..(Base - 1) /\ hi \in Nat /\ 2 * n = Base * hi + lo
  BY <1>1
<1>3. hi < Base
  <2>1. 2 * n < Base * Base
    BY Numbers, FrameAssumption
  <2>2. CASE hi >= Base
    <3>1. Base * hi >= Base * Base
      BY <1>1, <1>2, <2>2
    <3> QED BY <1>1, <1>2, <2>1, <3>1
  <2> QED BY <1>1, <1>2, <2>2
<1>4. PICK h \in Nat : Base = 2 * h
  <2>1. ShortMax + 1 \in Nat /\ Base = 2 * (ShortMax + 1)
    BY Numbers
  <2> QED BY <2>1
<1>5. lo % 2 = 0
  <2>1. Base * hi = 2 * (h * hi) /\ h * hi \in Nat
    BY <1>2, <1>4
  <2>2. PICK q \in Nat : Base * hi = 2 * q
    BY <2>1
  <2> HIDE DEF lo, hi
  <2>3. lo = 2 * (n - q)
    BY <1>2, <2>2
  <2> QED BY <1>2, <2>2, <2>3
<1>6. lo + hi * Base = 2 * n
  BY <1>1, <1>2
<1>7. (lo + hi * Base) \div 2 = n
  BY <1>6
<1>8. LengthField(n) = <<lo, hi>>
  BY Numbers DEF LengthField
<1>9. lo \in Bytes /\ hi \in Bytes
  BY <1>1, <1>2, <1>3 DEF Bytes
<1> QED BY <1>5, <1>7, <1>8, <1>9

-----------------------------------------------------------------------------
(* Frames: what is written and what is read of them. *)

Piece == {d \in Seq(Bytes) : Len(d) \in 1..FrameSize}

LEMMA AddressIs ==
  ASSUME NEW c \in Channels
  PROVE  Address(c) \in Bytes /\ Address(c) # SOF_MARKER /\ Address(c) \div 4 = c /\ c \in Nat
<1>1. c \in 1..(Base \div 4 - 1)
  BY ChannelAssumption
<1>2. 4 * (Base \div 4) <= Base /\ Base \div 4 \in Nat
  BY Numbers
<1>3. c \in Nat /\ 4 * c + 3 \in 0..(Base - 1)
  BY <1>1, <1>2, Numbers
<1>4. (4 * c + 3) % 4 = 3 /\ (4 * c + 3) \div 4 = c
  BY <1>3
<1> QED BY <1>3, <1>4, ByteAssumption DEF Address, Bytes

LEMMA LengthIs ==
  ASSUME NEW n \in 1..FrameSize
  PROVE  /\ LengthField(n) \in Seq(Bytes) /\ Len(LengthField(n)) \in {1, 2}
         /\ Len(LengthField(n)) \in Nat /\ Len(LengthField(n)) >= 1 /\ Len(LengthField(n)) <= 2
         /\ Len(LengthField(n)) = 1 =>
              LengthField(n)[1] % 2 = 1 /\ LengthField(n)[1] \div 2 = n
         /\ Len(LengthField(n)) = 2 =>
              /\ LengthField(n)[1] % 2 = 0
              /\ (LengthField(n)[1] + LengthField(n)[2] * Base) \div 2 = n
<1>1. n \in Nat /\ n <= FrameSize
  BY Numbers
<1>2. CASE n <= ShortMax
  <2>1. PICK b \in Bytes : LengthField(n) = <<b>> /\ b % 2 = 1 /\ b \div 2 = n
    BY <1>1, <1>2, ShortLength
  <2> QED BY <2>1
<1>3. CASE n > ShortMax
  <2>1. PICK lo, hi \in Bytes :
          LengthField(n) = <<lo, hi>> /\ lo % 2 = 0 /\ (lo + hi * Base) \div 2 = n
    BY <1>1, <1>3, LongLength
  <2>2. lo % 2 # 1
    BY <2>1
  <2> QED BY <2>1, <2>2
<1> QED BY <1>1, <1>2, <1>3, Numbers

LEMMA FrameIs ==
  ASSUME NEW c \in Channels, NEW d \in Piece, NEW fcs \in Fcs
  PROVE  LET F == Frame(c, d, fcs)
             L == LengthField(Len(d))
         IN  /\ F \in Seq(Bytes) /\ Len(F) = 5 + Len(L) + Len(d)
             /\ F[1] = SOF_MARKER /\ F[2] = Address(c) /\ F[Len(F)] = SOF_MARKER
             /\ \A i \in 1..Len(L) : F[3 + i] = L[i]
             /\ \A i \in 1..Len(d) : F[3 + Len(L) + i] = d[i]
<1> DEFINE L == LengthField(Len(d))
           A == <<SOF_MARKER, Address(c), UIH>>
           Z == <<fcs, SOF_MARKER>>
           F == Frame(c, d, fcs)
<1>1. /\ d \in Seq(Bytes) /\ Len(d) \in 1..FrameSize /\ L \in Seq(Bytes) /\ Len(L) \in {1, 2}
      /\ FrameSize \in Nat /\ Len(d) \in Nat /\ Len(d) <= FrameSize /\ Len(L) \in Nat
  BY LengthIs, Numbers DEF Piece
<1>2. UIH \in Bytes /\ fcs \in Bytes /\ SOF_MARKER \in Bytes /\ Address(c) \in Bytes
  BY Numbers, AddressIs, DataAssumption DEF UIH, Bytes
<1>3. /\ A \in Seq(Bytes) /\ Len(A) = 3 /\ A[1] = SOF_MARKER /\ A[2] = Address(c)
      /\ Z \in Seq(Bytes) /\ Len(Z) = 2 /\ Z[2] = SOF_MARKER
  BY <1>2
<1>4. F = ((A \o L) \o d) \o Z
  BY DEF Frame
<1> HIDE DEF A, L, Z, F
<1>5. /\ A \o L \in Seq(Bytes) /\ Len(A \o L) = 3 + Len(L)
      /\ \A i \in 1..(3 + Len(L)) : (A \o L)[i] = IF i <= 3 THEN A[i] ELSE L[i - 3]
  <2>1. Len(A) + Len(L) = 3 + Len(L)
    BY <1>3
  <2>2. A \o L \in Seq(Bytes) /\ Len(A \o L) = Len(A) + Len(L)
    BY <1>1, <1>3, BytesJoined
  <2>3. \A i \in 1..(Len(A) + Len(L)) : (A \o L)[i] = IF i <= Len(A) THEN A[i] ELSE L[i - Len(A)]
    BY <1>1, <1>3, BytesJoined
  <2> QED BY <1>1, <1>3, <2>1, <2>2, <2>3
<1>6. /\ (A \o L) \o d \in Seq(Bytes) /\ Len((A \o L) \o d) = 3 + Len(L) + Len(d)
      /\ \A i \in 1..(3 + Len(L) + Len(d)) :
           ((A \o L) \o d)[i] = IF i <= 3 + Len(L) THEN (A \o L)[i] ELSE d[i - (3 + Len(L))]
  <2>1. PICK s \in Seq(Bytes) : s = A \o L /\ Len(s) = 3 + Len(L)
    BY <1>5
  <2>2. /\ s \o d \in Seq(Bytes) /\ Len(s \o d) = Len(s) + Len(d)
        /\ \A i \in 1..(Len(s) + Len(d)) : (s \o d)[i] = IF i <= Len(s) THEN s[i] ELSE d[i - Len(s)]
    BY <1>1, BytesJoined
  <2> QED BY <2>1, <2>2
<1> DEFINE M == (A \o L) \o d
           m == 3 + Len(L) + Len(d)
<1>7. m \in Nat /\ m >= 5
  BY <1>1, Numbers
<1> HIDE DEF M
<1>8. /\ F \in Seq(Bytes) /\ Len(F) = m + 2
      /\ \A i \in 1..(m + 2) : F[i] = IF i <= m THEN M[i] ELSE Z[i - m]
  <2>1. M \in Seq(Bytes) /\ Len(M) = m
    BY <1>6 DEF M
  <2>2. F = M \o Z
    BY <1>4 DEF M
  <2>3. Len(M) + Len(Z) = m + 2
    BY <1>3, <2>1
  <2>4. M \o Z \in Seq(Bytes) /\ Len(M \o Z) = Len(M) + Len(Z)
    BY <1>3, <2>1, BytesJoined
  <2>5. \A i \in 1..(Len(M) + Len(Z)) : (M \o Z)[i] = IF i <= Len(M) THEN M[i] ELSE Z[i - Len(M)]
    BY <1>3, <2>1, BytesJoined
  <2> QED BY <2>1, <2>2, <2>3, <2>4, <2>5
<1>9. F[1] = SOF_MARKER /\ F[2] = Address(c)
  <2>1. F[1] = M[1] /\ F[2] = M[2]
    BY <1>7, <1>8
  <2>2. M[1] = (A \o L)[1] /\ M[2] = (A \o L)[2]
    BY <1>1, <1>6 DEF M
  <2>3. (A \o L)[1] = A[1] /\ (A \o L)[2] = A[2]
    BY <1>1, <1>5
  <2> QED BY <1>3, <2>1, <2>2, <2>3
<1>10. F[Len(F)] = SOF_MARKER
  <2>1. m + 2 \in 1..(m + 2) /\ ~(m + 2 <= m) /\ (m + 2) - m = 2
    BY <1>7
  <2> QED BY <1>3, <1>8, <2>1
<1>11. ASSUME NEW i \in 1..Len(L) PROVE F[3 + i] = L[i]
  <2>1. 3 + i \in 1..m /\ 3 + i <= 3 + Len(L) /\ ~(3 + i <= 3) /\ (3 + i) - 3 = i
    BY <1>1
  <2>2. F[3 + i] = M[3 + i]
    BY <1>7, <1>8, <2>1
  <2>3. M[3 + i] = (A \o L)[3 + i]
    BY <1>6, <2>1 DEF M
  <2>4. (A \o L)[3 + i] = L[i]
    BY <1>1, <1>5, <2>1
  <2> QED BY <2>2, <2>3, <2>4
<1>12. ASSUME NEW i \in 1..Len(d) PROVE F[3 + Len(L) + i] = d[i]
  <2> DEFINE j == 3 + Len(L) + i
  <2>1. j \in 1..m /\ ~(j <= 3 + Len(L)) /\ j - (3 + Len(L)) = i
    BY <1>1
  <2> HIDE DEF j
  <2>2. F[j] = M[j]
    BY <1>7, <1>8, <2>1
  <2>3. M[j] = d[i]
    BY <1>6, <2>1 DEF M
  <2> QED BY <2>2, <2>3 DEF j
<1>13. Len(F) = 5 + Len(L) + Len(d)
  BY <1>1, <1>8
<1> QED BY <1>8, <1>9, <1>10, <1>11, <1>12, <1>13 DEF F, L

(* What the receiver has collected after n bytes of a frame. *)
Got(F, n) == SubSeq(F, 2, n)

(* The receiver finds the end of a frame where the sender put it, never      *)
(* before, and in it the channel and the data. *)
LEMMA FrameRead ==
  ASSUME NEW c \in Channels, NEW d \in Piece, NEW fcs \in Fcs,
         NEW F, F = Frame(c, d, fcs), NEW n \in 2..(Len(F) - 1)
  PROVE  /\ Got(F, n) \in Seq(Bytes) /\ Len(Got(F, n)) = n - 1 /\ Len(Got(F, n)) <= LongestFrame
         /\ Complete(Got(F, n)) <=> n = Len(F) - 1
         /\ n = Len(F) - 1 => Channel(Got(F, n)) = c /\ Data(Got(F, n)) = d
<1> DEFINE L == LengthField(Len(d))
           b == Got(F, n)
<1>1. /\ d \in Seq(Bytes) /\ Len(d) \in 1..FrameSize /\ L \in Seq(Bytes) /\ Len(L) \in {1, 2}
      /\ FrameSize \in Nat /\ Len(d) \in Nat /\ Len(d) <= FrameSize
      /\ Len(L) \in Nat /\ Len(L) >= 1 /\ Len(L) <= 2
  BY LengthIs, Numbers DEF Piece
<1>b. /\ Len(L) = 1 => L[1] % 2 = 1 /\ L[1] \div 2 = Len(d)
      /\ Len(L) = 2 => L[1] % 2 = 0 /\ (L[1] + L[2] * Base) \div 2 = Len(d)
  BY LengthIs DEF Piece
<1>2. /\ F \in Seq(Bytes) /\ Len(F) = 5 + Len(L) + Len(d) /\ F[2] = Address(c)
      /\ \A i \in 1..Len(L) : F[3 + i] = L[i]
      /\ \A i \in 1..Len(d) : F[3 + Len(L) + i] = d[i]
  BY FrameIs
<1> HIDE DEF L
<1> HIDE DEF b
<1>a. n \in Nat /\ n >= 2 /\ n <= 4 + Len(L) + Len(d)
  BY <1>1, <1>2
<1>3. /\ b \in Seq(Bytes) /\ Len(b) = n - 1 /\ \A i \in 1..(n - 1) : b[i] = F[i + 1]
  <2>1. \A i \in 2..n : F[i] \in Bytes
    BY <1>1, <1>2, ElementOfSeq
  <2>2. \A i \in 1..(n - 1) : (2 + i) - 1 = i + 1
    OBVIOUS
  <2>3. /\ SubSeq(F, 2, n) \in Seq(Bytes)
        /\ Len(SubSeq(F, 2, n)) = IF 2 <= n THEN (n - 2) + 1 ELSE 0
        /\ \A i \in 1..((n - 2) + 1) : SubSeq(F, 2, n)[i] = F[(2 + i) - 1]
    BY <1>1, <1>2, <2>1, SubSeqProperties
  <2> QED BY <1>1, <1>2, <1>a, <2>2, <2>3 DEF b, Got
<1>c. /\ Len(L) \in Nat /\ Len(L) >= 1 /\ Len(L) <= 2 /\ Len(d) \in Nat
      /\ n \in Nat /\ n >= 2 /\ n <= 4 + Len(L) + Len(d)
      /\ Len(b) = n - 1 /\ Len(F) = 5 + Len(L) + Len(d) /\ FrameSize \in Nat /\ Len(d) <= FrameSize
  BY <1>1, <1>2, <1>a, <1>3
<1>4. n - 1 >= 3 => b[3] = L[1]
  BY <1>1, <1>2, <1>3
<1>5. n - 1 >= 4 /\ Len(L) = 2 => b[4] = L[2]
  BY <1>1, <1>2, <1>3
<1>6. n - 1 >= 3 => HeaderLen(b) = 2 + Len(L)
  <2>1. CASE Len(L) = 1
    BY <1>b, <1>4, <2>1 DEF HeaderLen
  <2>2. CASE Len(L) = 2
    <3>1. L[1] % 2 # 1
      BY <1>b, <2>2
    <3> QED BY <1>4, <2>2, <3>1 DEF HeaderLen
  <2> QED BY <1>1, <2>1, <2>2
<1>7. n - 1 >= 2 + Len(L) => DataLen(b) = Len(d)
  <2>1. CASE Len(L) = 1
    BY <1>b, <1>4, <2>1 DEF DataLen
  <2>2. CASE Len(L) = 2
    BY <1>b, <1>4, <1>5, <2>2 DEF DataLen
  <2> QED BY <1>1, <2>1, <2>2
<1>8. Complete(b) <=> n = Len(F) - 1
  <2>1. CASE n - 1 < 2 + Len(L)
    BY <1>c, <1>6, <2>1 DEF Complete
  <2>2. CASE n - 1 >= 2 + Len(L)
    <3>1. HeaderLen(b) = 2 + Len(L) /\ DataLen(b) = Len(d) /\ Len(b) = n - 1
      BY <1>c, <1>6, <1>7, <2>2
    <3>2. Len(b) >= 3 /\ Len(b) >= HeaderLen(b)
      BY <1>c, <2>2, <3>1
    <3>3. HeaderLen(b) + DataLen(b) + 1 = 3 + Len(L) + Len(d) /\ Len(F) - 1 = 4 + Len(L) + Len(d)
      BY <1>c, <3>1
    <3>4. Len(b) = HeaderLen(b) + DataLen(b) + 1 <=> n = Len(F) - 1
      BY <1>c, <3>1, <3>3
    <3> QED BY <3>2, <3>4 DEF Complete
  <2> QED BY <1>c, <2>1, <2>2
<1>9. ASSUME n = Len(F) - 1 PROVE Channel(b) = c /\ Data(b) = d
  <2>1. b[1] = Address(c)
    BY <1>1, <1>2, <1>3, <1>9
  <2> DEFINE h == 2 + Len(L)
             D == SubSeq(b, h + 1, h + Len(d))
  <2>2. HeaderLen(b) = h /\ DataLen(b) = Len(d) /\ n - 1 = 3 + Len(L) + Len(d)
    BY <1>1, <1>2, <1>6, <1>7, <1>9
  <2>3. \A i \in (h + 1)..(h + Len(d)) : b[i] \in Bytes
    BY <1>1, <1>3, <2>2, ElementOfSeq
  <2>4. h + 1 \in Int /\ h + Len(d) \in Int /\ h + 1 <= h + Len(d) /\ (h + Len(d)) - (h + 1) + 1 = Len(d)
    BY <1>1
  <2>5. /\ D \in Seq(Bytes) /\ Len(D) = Len(d)
        /\ \A i \in 1..Len(d) : D[i] = b[(h + 1) + i - 1]
    <3>1. /\ D \in Seq(Bytes)
          /\ Len(D) = IF h + 1 <= h + Len(d) THEN (h + Len(d)) - (h + 1) + 1 ELSE 0
          /\ \A i \in 1..((h + Len(d)) - (h + 1) + 1) : D[i] = b[(h + 1) + i - 1]
      <4> DEFINE x == h + 1
                 y == h + Len(d)
      <4>1. x \in Int /\ y \in Int /\ \A i \in x..y : b[i] \in Bytes
        BY <1>c, <2>3
      <4> HIDE DEF x, y
      <4>2. /\ SubSeq(b, x, y) \in Seq(Bytes)
            /\ Len(SubSeq(b, x, y)) = IF x <= y THEN y - x + 1 ELSE 0
            /\ \A i \in 1..(y - x + 1) : SubSeq(b, x, y)[i] = b[x + i - 1]
        BY <4>1, SubSeqProperties
      <4> QED BY <4>2 DEF x, y
    <3> HIDE DEF h, D
    <3> QED BY <2>4, <3>1
  <2>6. ASSUME NEW i \in 1..Len(d) PROVE D[i] = d[i]
    <3>1. (h + 1) + i - 1 = h + i /\ h + i \in 1..(n - 1) /\ (h + i) + 1 = 3 + Len(L) + i
      BY <1>1, <2>2
    <3>2. D[i] = b[h + i]
      BY <2>5, <3>1
    <3>3. b[h + i] = F[3 + Len(L) + i]
      BY <1>3, <3>1
    <3> QED BY <1>2, <3>2, <3>3
  <2>7. D = d
    BY <1>1, <2>5, <2>6, SeqEqual
  <2>8. Channel(b) = c
    BY <2>1, AddressIs DEF Channel
  <2>9. Data(b) = D
    BY <2>2 DEF Data
  <2> QED BY <2>7, <2>8, <2>9
<1>10. Len(b) <= LongestFrame
  BY <1>c DEF LongestFrame
<1> QED BY <1>3, <1>8, <1>9, <1>10 DEF b

-----------------------------------------------------------------------------
(* What is on a line: bytes, and the data in them for each channel.  Carried *)
(* is the least set of such pairs that has the empty line and, with a line, *)
(* that line behind another byte of noise and behind another frame.         *)

Contents == [Channels -> Seq(Bytes)]
Nothing == [c \in Channels |-> <<>>]
Before(w, c, d) == [w EXCEPT ![c] = d \o @]
After(w, c, d) == [w EXCEPT ![c] = @ \o d]

Line == Seq(Bytes) \X Contents
Closed(X) ==
  /\ <<<<>>, Nothing>> \in X
  /\ \A l, w : <<l, w>> \in X => \A b \in Noise : <<<<b>> \o l, w>> \in X
  /\ \A l, w : <<l, w>> \in X => \A c \in Channels, d \in Piece, fcs \in Fcs :
       <<Frame(c, d, fcs) \o l, Before(w, c, d)>> \in X
Carried == {p \in Line : \A X \in SUBSET Line : Closed(X) => p \in X}

LEMMA ContentsAre ==
  ASSUME NEW w \in Contents, NEW c \in Channels, NEW d \in Seq(Bytes)
  PROVE  Before(w, c, d) \in Contents /\ After(w, c, d) \in Contents
<1>1. w[c] \in Seq(Bytes)
  BY DEF Contents
<1>2. d \o w[c] \in Seq(Bytes) /\ w[c] \o d \in Seq(Bytes)
  BY <1>1, BytesJoined
<1> QED BY <1>2 DEF Contents, Before, After

LEMMA NoiseIs ==
  ASSUME NEW b \in Noise
  PROVE  <<b>> \in Seq(Bytes) /\ b \in Bytes /\ b # SOF_MARKER
BY DataAssumption

LEMMA CarriedIsLine ==
  ASSUME NEW l, NEW w, <<l, w>> \in Carried
  PROVE  l \in Seq(Bytes) /\ w \in Contents
BY DEF Carried, Line

LEMMA CarriedClosed == Closed(Carried)
<1>1. <<<<>>, Nothing>> \in Carried
  <2>1. <<<<>>, Nothing>> \in Line
    BY EmptySeq DEF Line, Nothing, Contents
  <2> QED BY <2>1 DEF Carried, Closed
<1>2. ASSUME NEW l, NEW w, <<l, w>> \in Carried, NEW b \in Noise
      PROVE  <<<<b>> \o l, w>> \in Carried
  <2>1. <<<<b>> \o l, w>> \in Line
    BY <1>2, CarriedIsLine, NoiseIs, BytesJoined DEF Line
  <2>2. ASSUME NEW X \in SUBSET Line, Closed(X) PROVE <<<<b>> \o l, w>> \in X
    <3>1. <<l, w>> \in X
      BY <1>2, <2>2 DEF Carried
    <3> QED BY <2>2, <3>1 DEF Closed
  <2> QED BY <2>1, <2>2 DEF Carried
<1>3. ASSUME NEW l, NEW w, <<l, w>> \in Carried, NEW c \in Channels, NEW d \in Piece, NEW fcs \in Fcs
      PROVE  <<Frame(c, d, fcs) \o l, Before(w, c, d)>> \in Carried
  <2>1. <<Frame(c, d, fcs) \o l, Before(w, c, d)>> \in Line
    <3>1. Frame(c, d, fcs) \in Seq(Bytes) /\ d \in Seq(Bytes)
      BY FrameIs DEF Piece
    <3>2. l \in Seq(Bytes) /\ w \in Contents
      BY <1>3, CarriedIsLine
    <3> QED BY <3>1, <3>2, ContentsAre, BytesJoined DEF Line
  <2>2. ASSUME NEW X \in SUBSET Line, Closed(X)
        PROVE  <<Frame(c, d, fcs) \o l, Before(w, c, d)>> \in X
    <3>1. <<l, w>> \in X
      BY <1>3, <2>2 DEF Carried
    <3> QED BY <2>2, <3>1 DEF Closed
  <2> QED BY <2>1, <2>2 DEF Carried
<1> QED BY <1>1, <1>2, <1>3 DEF Closed

LEMMA CarriedLeast ==
  ASSUME NEW X \in SUBSET Line, Closed(X)
  PROVE  Carried \subseteq X
BY DEF Carried

(* A line that is not empty begins with noise or with a frame. *)
Begins(l, w) ==
  \/ l = <<>> /\ w = Nothing
  \/ \E r : \E b \in Noise : l = <<b>> \o r /\ <<r, w>> \in Carried
  \/ \E r, v : \E c \in Channels, d \in Piece, fcs \in Fcs :
       l = Frame(c, d, fcs) \o r /\ w = Before(v, c, d) /\ <<r, v>> \in Carried

LEMMA CarriedBegins ==
  ASSUME NEW l, NEW w, <<l, w>> \in Carried
  PROVE  Begins(l, w)
<1> DEFINE X == {p \in Carried : Begins(p[1], p[2])}
<1>1. X \in SUBSET Line
  BY DEF Carried
<1>2. Closed(X)
  <2>1. <<<<>>, Nothing>> \in X
    BY CarriedClosed DEF Closed, Begins
  <2>2. ASSUME NEW r, NEW v, <<r, v>> \in X, NEW b \in Noise PROVE <<<<b>> \o r, v>> \in X
    <3>1. <<r, v>> \in Carried
      BY <2>2
    <3>2. <<<<b>> \o r, v>> \in Carried
      BY <3>1, CarriedClosed DEF Closed
    <3>3. Begins(<<b>> \o r, v)
      BY <3>1 DEF Begins
    <3> QED BY <3>2, <3>3
  <2>3. ASSUME NEW r, NEW v, <<r, v>> \in X, NEW c \in Channels, NEW d \in Piece, NEW fcs \in Fcs
        PROVE  <<Frame(c, d, fcs) \o r, Before(v, c, d)>> \in X
    <3>1. <<r, v>> \in Carried
      BY <2>3
    <3>2. <<Frame(c, d, fcs) \o r, Before(v, c, d)>> \in Carried
      BY <3>1, CarriedClosed DEF Closed
    <3>3. Begins(Frame(c, d, fcs) \o r, Before(v, c, d))
      BY <3>1 DEF Begins
    <3> QED BY <3>2, <3>3
  <2> HIDE DEF X
  <2> QED BY <2>1, <2>2, <2>3 DEF Closed
<1>3. <<l, w>> \in X
  <2> HIDE DEF X
  <2> QED BY <1>1, <1>2, CarriedLeast
<1> QED BY <1>3

(* Noise and frames may as well be added at the end. *)
LEMMA NoiseLast ==
  ASSUME NEW l, NEW w, <<l, w>> \in Carried, NEW b \in Noise
  PROVE  <<l \o <<b>>, w>> \in Carried
<1> DEFINE X == {p \in Carried : <<p[1] \o <<b>>, p[2]>> \in Carried}
<1>1. X \in SUBSET Line
  BY DEF Carried
<1>2. <<b>> \in Seq(Bytes)
  BY NoiseIs
<1>3. Closed(X)
  <2>1. <<<<>>, Nothing>> \in X
    <3>1. <<>> \o <<b>> = <<b>> \o <<>>
      BY <1>2, ConcatEmptySeq
    <3>2. <<<<>>, Nothing>> \in Carried /\ <<<<b>> \o <<>>, Nothing>> \in Carried
      BY CarriedClosed DEF Closed
    <3> QED BY <3>1, <3>2
  <2>2. ASSUME NEW r, NEW v, <<r, v>> \in X, NEW a \in Noise PROVE <<<<a>> \o r, v>> \in X
    <3>1. <<r, v>> \in Carried /\ <<r \o <<b>>, v>> \in Carried
      BY <2>2
    <3>2. (<<a>> \o r) \o <<b>> = <<a>> \o (r \o <<b>>)
      BY <1>2, <3>1, CarriedIsLine, NoiseIs, BytesGrouped
    <3>3. <<<<a>> \o r, v>> \in Carried /\ <<<<a>> \o (r \o <<b>>), v>> \in Carried
      BY <3>1, CarriedClosed DEF Closed
    <3> QED BY <3>2, <3>3
  <2>3. ASSUME NEW r, NEW v, <<r, v>> \in X, NEW c \in Channels, NEW d \in Piece, NEW fcs \in Fcs
        PROVE  <<Frame(c, d, fcs) \o r, Before(v, c, d)>> \in X
    <3> DEFINE F == Frame(c, d, fcs)
    <3>1. <<r, v>> \in Carried /\ <<r \o <<b>>, v>> \in Carried
      BY <2>3
    <3>2. F \in Seq(Bytes) /\ r \in Seq(Bytes)
      BY <3>1, CarriedIsLine, FrameIs
    <3>3. <<F \o r, Before(v, c, d)>> \in Carried /\ <<F \o (r \o <<b>>), Before(v, c, d)>> \in Carried
      BY <3>1, CarriedClosed DEF Closed
    <3> HIDE DEF F
    <3>4. (F \o r) \o <<b>> = F \o (r \o <<b>>)
      BY <1>2, <3>2, BytesGrouped
    <3> QED BY <3>3, <3>4 DEF F
  <2> HIDE DEF X
  <2> QED BY <2>1, <2>2, <2>3 DEF Closed
<1>4. <<l, w>> \in X
  <2> HIDE DEF X
  <2> QED BY <1>1, <1>3, CarriedLeast
<1> QED BY <1>4

LEMMA BeforeAfter ==
  ASSUME NEW w \in Contents, NEW c \in Channels, NEW e \in Channels,
         NEW d \in Seq(Bytes), NEW g \in Seq(Bytes)
  PROVE  After(Before(w, e, g), c, d) = Before(After(w, c, d), e, g)
<1> DEFINE L == After(Before(w, e, g), c, d)
           R == Before(After(w, c, d), e, g)
<1>1. L \in Contents /\ R \in Contents
  BY ContentsAre
<1>2. w[c] \in Seq(Bytes)
  BY DEF Contents
<1>3. (g \o w[c]) \o d = g \o (w[c] \o d)
  <2>1. PICK s \in Seq(Bytes) : s = w[c]
    BY <1>2
  <2>2. (g \o s) \o d = g \o (s \o d)
    BY BytesGrouped
  <2> QED BY <2>1, <2>2
<1>4. ASSUME NEW x \in Channels PROVE L[x] = R[x]
  BY <1>3 DEF Before, After, Contents
<1> QED BY <1>1, <1>4 DEF Contents

LEMMA FrameLast ==
  ASSUME NEW l, NEW w, <<l, w>> \in Carried, NEW c \in Channels, NEW d \in Piece, NEW fcs \in Fcs
  PROVE  <<l \o Frame(c, d, fcs), After(w, c, d)>> \in Carried
<1> DEFINE F == Frame(c, d, fcs)
           X == {p \in Carried : <<p[1] \o F, After(p[2], c, d)>> \in Carried}
<1>1. X \in SUBSET Line
  BY DEF Carried
<1>2. F \in Seq(Bytes) /\ d \in Seq(Bytes)
  BY FrameIs DEF Piece
<1>3. Closed(X)
  <2>1. <<<<>>, Nothing>> \in X
    <3>1. <<<<>>, Nothing>> \in Carried /\ <<F \o <<>>, Before(Nothing, c, d)>> \in Carried
      BY CarriedClosed DEF Closed
    <3> HIDE DEF F
    <3>2. <<>> \o F = F \o <<>> /\ <<>> \o d = d \o <<>>
      BY <1>2, ConcatEmptySeq
    <3>3. After(Nothing, c, d) = Before(Nothing, c, d)
      BY <3>2 DEF After, Before, Nothing
    <3> QED BY <3>1, <3>2, <3>3
  <2>2. ASSUME NEW r, NEW v, <<r, v>> \in X, NEW a \in Noise PROVE <<<<a>> \o r, v>> \in X
    <3>1. <<r, v>> \in Carried /\ <<r \o F, After(v, c, d)>> \in Carried
      BY <2>2
    <3> HIDE DEF F
    <3>2. (<<a>> \o r) \o F = <<a>> \o (r \o F)
      BY <1>2, <3>1, CarriedIsLine, NoiseIs, BytesGrouped
    <3>3. <<<<a>> \o r, v>> \in Carried /\ <<<<a>> \o (r \o F), After(v, c, d)>> \in Carried
      BY <3>1, CarriedClosed DEF Closed
    <3> QED BY <3>2, <3>3
  <2>3. ASSUME NEW r, NEW v, <<r, v>> \in X, NEW e \in Channels, NEW g \in Piece, NEW y \in Fcs
        PROVE  <<Frame(e, g, y) \o r, Before(v, e, g)>> \in X
    <3> DEFINE G == Frame(e, g, y)
    <3>1. <<r, v>> \in Carried /\ <<r \o F, After(v, c, d)>> \in Carried
      BY <2>3
    <3>2. G \in Seq(Bytes) /\ r \in Seq(Bytes) /\ v \in Contents /\ g \in Seq(Bytes)
      BY <3>1, CarriedIsLine, FrameIs DEF Piece
    <3>3. /\ <<G \o r, Before(v, e, g)>> \in Carried
          /\ <<G \o (r \o F), Before(After(v, c, d), e, g)>> \in Carried
      BY <3>1, CarriedClosed DEF Closed
    <3> HIDE DEF F, G
    <3>4. (G \o r) \o F = G \o (r \o F)
      BY <1>2, <3>2, BytesGrouped
    <3>5. After(Before(v, e, g), c, d) = Before(After(v, c, d), e, g)
      BY <1>2, <3>2, BeforeAfter
    <3> QED BY <3>3, <3>4, <3>5 DEF G
  <2> HIDE DEF X
  <2> QED BY <2>1, <2>2, <2>3 DEF Closed
<1>4. <<l, w>> \in X
  <2> HIDE DEF X
  <2> QED BY <1>1, <1>3, CarriedLeast
<1> QED BY <1>4

-----------------------------------------------------------------------------
(* What is written at once: the frames of its pieces, one behind the other. *)

(* A set of numbers has a least one; this is induction by a least counter-  *)
(* example. *)
LEMMA Minimum ==
  ASSUME NEW S \in SUBSET Nat, S # {}
  PROVE  \E m \in S : \A n \in S : m <= n
<1> DEFINE Below == {1..n : n \in S}
           R == StrictSubsetOrdering(Nat)
<1>1. Below \subseteq FiniteSubsetsOf(Nat) /\ Below # {}
  <2>1. \A n \in S : IsFiniteSet(1..n) /\ 1..n \in SUBSET Nat
    BY FS_Interval
  <2> QED BY <2>1 DEF FiniteSubsetsOf
<1>2. \E x \in Below : \A y \in Below : <<y, x>> \notin R
  <2>1. IsWellFoundedOn(R, FiniteSubsetsOf(Nat))
    BY FS_StrictSubsetOrderingWellFounded
  <2> HIDE DEF Below, R
  <2> QED BY <1>1, <2>1, WFMin
<1>3. PICK m \in S : \A n \in S : <<1..n, 1..m>> \notin R
  BY <1>2
<1>4. ASSUME NEW n \in S, n < m PROVE FALSE
  <2>1. 1..n \subseteq 1..m /\ m \in 1..m /\ m \notin 1..n
    BY <1>4
  <2>2. <<1..n, 1..m>> \in R
    BY <2>1 DEF StrictSubsetOrdering
  <2> QED BY <1>3, <2>2
<1> QED BY <1>3, <1>4

(* The recursion of FlattenSeq, up to the n-th sequence. *)
Flattens(f, s, n) == f = [i \in 1..n |-> IF i = 1 THEN s[i] ELSE f[i - 1] \o s[i]]

LEMMA FlattensExists ==
  ASSUME NEW s, NEW N \in Nat
  PROVE  \E f : Flattens(f, s, N)
<1> DEFINE Without == {n \in Nat : ~ \E f : Flattens(f, s, n)}
<1>1. SUFFICES ASSUME Without # {} PROVE FALSE
  OBVIOUS
<1>2. PICK m \in Without : \A n \in Without : m <= n
  <2>1. Without \in SUBSET Nat
    OBVIOUS
  <2> HIDE DEF Without
  <2> QED BY <1>1, <2>1, Minimum
<1>3. m # 0
  <2> DEFINE e == [i \in 1..0 |-> s[i]]
  <2>1. e = [i \in 1..0 |-> IF i = 1 THEN s[i] ELSE e[i - 1] \o s[i]]
    OBVIOUS
  <2>2. Flattens(e, s, 0)
    BY <2>1 DEF Flattens
  <2> QED BY <2>2
<1>4. m \in Nat /\ m - 1 \in Nat /\ m - 1 \notin Without
  BY <1>2, <1>3
<1>5. PICK f : Flattens(f, s, m - 1)
  BY <1>4
<1> DEFINE g == [i \in 1..m |-> IF i < m THEN f[i] ELSE IF i = 1 THEN s[i] ELSE f[i - 1] \o s[i]]
           h == [i \in 1..m |-> IF i = 1 THEN s[i] ELSE g[i - 1] \o s[i]]
<1>6. ASSUME NEW i \in 1..m PROVE g[i] = IF i = 1 THEN s[i] ELSE g[i - 1] \o s[i]
  <2>1. i # 1 => i - 1 \in 1..m /\ i - 1 < m
    BY <1>4
  <2>2. i # 1 => g[i - 1] = f[i - 1]
    BY <2>1
  <2>3. CASE i < m
    <3>1. i \in 1..(m - 1)
      BY <1>4, <2>3
    <3>2. f[i] = IF i = 1 THEN s[i] ELSE f[i - 1] \o s[i]
      BY <1>5, <3>1 DEF Flattens
    <3>3. g[i] = f[i]
      BY <2>3
    <3> HIDE DEF g
    <3> QED BY <2>2, <3>2, <3>3
  <2>4. CASE ~(i < m)
    <3>1. g[i] = IF i = 1 THEN s[i] ELSE f[i - 1] \o s[i]
      BY <2>4
    <3> HIDE DEF g
    <3> QED BY <2>2, <3>1
  <2> QED BY <2>3, <2>4
<1>7. g = h
  <2>1. \A i \in 1..m : g[i] = h[i]
    BY <1>6
  <2> QED BY <2>1
<1>8. Flattens(g, s, m)
  BY <1>7 DEF Flattens
<1> QED BY <1>2, <1>8

LEMMA FlattenSeqIs ==
  ASSUME NEW s, Len(s) \in Nat
  PROVE  /\ Len(s) = 0 => FlattenSeq(s) = s
         /\ Len(s) # 0 => \E f : Flattens(f, s, Len(s)) /\ FlattenSeq(s) = f[Len(s)]
<1>1. PICK f : Flattens(f, s, Len(s))
  BY FlattensExists
<1> DEFINE g == CHOOSE f_1 : f_1 = [i \in 1..Len(s) |-> IF i = 1 THEN s[i] ELSE f_1[i - 1] \o s[i]]
<1>2. Flattens(g, s, Len(s))
  BY <1>1 DEF Flattens
<1>3. Len(s) # 0 => FlattenSeq(s) = g[Len(s)]
  BY DEF FlattenSeq
<1>4. Len(s) = 0 => FlattenSeq(s) = s
  BY DEF FlattenSeq
<1> HIDE DEF g
<1> QED BY <1>2, <1>3, <1>4

LEMMA PieceNumbers ==
  ASSUME NEW n \in Nat, NEW N, N = (n + FrameSize - 1) \div FrameSize
  PROVE  /\ N \in Nat /\ N * FrameSize \in Nat /\ n <= N * FrameSize
         /\ \A k \in 1..N : /\ (k - 1) * FrameSize \in Nat /\ (k - 1) * FrameSize < n
                            /\ k * FrameSize = (k - 1) * FrameSize + FrameSize
<1>1. FrameSize \in Nat /\ FrameSize > 0 /\ n + FrameSize - 1 \in Nat
  BY Numbers
<1>2. N \in Nat /\ \E r \in 0..(FrameSize - 1) : n + FrameSize - 1 = N * FrameSize + r
  <2> DEFINE r == (n + FrameSize - 1) % FrameSize
  <2>1. r \in 0..(FrameSize - 1) /\ N \in Nat
    BY <1>1
  <2>2. n + FrameSize - 1 = N * FrameSize + r
    BY <1>1
  <2> QED BY <2>1, <2>2
<1>3. PICK m \in Nat : m = N * FrameSize
  BY <1>1, <1>2
<1>4. n <= m /\ m <= n + FrameSize - 1
  BY <1>1, <1>2, <1>3
<1>5. ASSUME NEW k \in 1..N
      PROVE  /\ (k - 1) * FrameSize \in Nat /\ (k - 1) * FrameSize < n
             /\ k * FrameSize = (k - 1) * FrameSize + FrameSize
  <2>1. k \in Nat /\ k - 1 \in Nat /\ N - k \in Nat
    BY <1>2
  <2>2. k * FrameSize = (k - 1) * FrameSize + FrameSize
    BY <1>1, <2>1
  <2>3. N * FrameSize = k * FrameSize + (N - k) * FrameSize
    BY <1>1, <1>2, <2>1
  <2>4. (k - 1) * FrameSize \in Nat /\ (N - k) * FrameSize \in Nat
    BY <1>1, <2>1
  <2> QED BY <1>1, <1>3, <1>4, <2>2, <2>3, <2>4
<1> QED BY <1>2, <1>3, <1>4, <1>5

(* Where the k-th piece of n bytes ends. *)
EndOf(k, n) == IF k * FrameSize < n THEN k * FrameSize ELSE n

(* The pieces of what is written are not empty, none is longer than a frame *)
(* may be, and each goes on where the one before it ends. *)
LEMMA PiecesAre ==
  ASSUME NEW d \in Seq(Bytes), NEW k \in DOMAIN Pieces(d)
  PROVE  /\ Pieces(d)[k] \in Piece
         /\ k = 1 => Pieces(d)[k] = SubSeq(d, 1, EndOf(k, Len(d)))
         /\ k # 1 => k - 1 \in DOMAIN Pieces(d)
                     /\ SubSeq(d, 1, EndOf(k - 1, Len(d))) \o Pieces(d)[k]
                          = SubSeq(d, 1, EndOf(k, Len(d)))
<1> DEFINE n == Len(d)
           N == (n + FrameSize - 1) \div FrameSize
           a == (k - 1) * FrameSize
           z == EndOf(k, n)
<1>1. DOMAIN Pieces(d) = 1..N /\ Pieces(d)[k] = SubSeq(d, a + 1, z)
  BY DEF Pieces, EndOf
<1>2. n \in Nat /\ FrameSize \in Nat /\ FrameSize > 0
  BY Numbers
<1>3. N \in Nat /\ k \in 1..N
  BY <1>1, <1>2, PieceNumbers
<1>4. a \in Nat /\ a < n /\ k * FrameSize = a + FrameSize
  BY <1>1, <1>2, PieceNumbers
<1>5. z \in Nat /\ a < z /\ z <= n /\ z - a <= FrameSize
  BY <1>2, <1>4 DEF EndOf
<1>6. k = 1 => a = 0 /\ a + 1 = 1
  BY <1>2
<1>7. k # 1 => k - 1 \in 1..N /\ EndOf(k - 1, n) = a
  BY <1>3, <1>4 DEF EndOf
<1> HIDE DEF n, N, a, z
<1>8. Pieces(d)[k] \in Piece
  <2>1. \A i \in (a + 1)..z : d[i] \in Bytes
    BY <1>4, <1>5, ElementOfSeq DEF n
  <2>2. a + 1 \in Int /\ z \in Int /\ a + 1 <= z /\ z - (a + 1) + 1 \in 1..FrameSize
    BY <1>2, <1>4, <1>5
  <2>3. SubSeq(d, a + 1, z) \in Seq(Bytes) /\ Len(SubSeq(d, a + 1, z)) = z - (a + 1) + 1
    BY <2>1, <2>2, SubSeqProperties
  <2> QED BY <1>1, <2>2, <2>3 DEF Piece
<1>9. k = 1 => Pieces(d)[k] = SubSeq(d, 1, z)
  BY <1>1, <1>6
<1>10. SubSeq(d, 1, a) \o SubSeq(d, a + 1, z) = SubSeq(d, 1, z)
  <2>1. 1 \in 1..(Len(d) + 1) /\ a \in (1 - 1)..Len(d) /\ z \in a..Len(d)
    BY <1>2, <1>4, <1>5 DEF n
  <2> QED BY <2>1, ConcatAdjacentSubSeq
<1> QED BY <1>1, <1>7, <1>8, <1>9, <1>10 DEF n, z

LEMMA AfterAfter ==
  ASSUME NEW w \in Contents, NEW c \in Channels, NEW d \in Seq(Bytes), NEW g \in Seq(Bytes)
  PROVE  After(After(w, c, d), c, g) = After(w, c, d \o g)
<1> DEFINE L == After(After(w, c, d), c, g)
           R == After(w, c, d \o g)
<1>1. d \o g \in Seq(Bytes)
  BY BytesJoined
<1>2. L \in Contents /\ R \in Contents
  BY <1>1, ContentsAre
<1>3. (w[c] \o d) \o g = w[c] \o (d \o g)
  <2>1. PICK s \in Seq(Bytes) : s = w[c]
    BY DEF Contents
  <2>2. (s \o d) \o g = s \o (d \o g)
    BY BytesGrouped
  <2> QED BY <2>1, <2>2
<1>4. ASSUME NEW x \in Channels PROVE L[x] = R[x]
  BY <1>3 DEF After, Contents
<1> QED BY <1>2, <1>4 DEF Contents

(* What cmux_ch_input() writes comes behind the rest of the line, and the   *)
(* data behind the data. *)
Written(c, d, fcs) == FlattenSeq([i \in DOMAIN Pieces(d) |-> Frame(c, Pieces(d)[i], fcs)])

LEMMA WriteLast ==
  ASSUME NEW l, NEW w, <<l, w>> \in Carried,
         NEW c \in Channels, NEW d \in Payloads, NEW fcs \in Fcs
  PROVE  /\ Written(c, d, fcs) \in Seq(Bytes)
         /\ <<l \o Written(c, d, fcs), After(w, c, d)>> \in Carried
<1> DEFINE n == Len(d)
           N == (n + FrameSize - 1) \div FrameSize
           s == [i \in DOMAIN Pieces(d) |-> Frame(c, Pieces(d)[i], fcs)]
<1>1. d \in Seq(Bytes) /\ n \in Nat /\ l \in Seq(Bytes) /\ w \in Contents
  BY DataAssumption, CarriedIsLine
<1>2. N \in Nat /\ n <= N * FrameSize /\ FrameSize \in Nat
  BY <1>1, PieceNumbers, Numbers
<1>3. DOMAIN Pieces(d) = 1..N
  BY DEF Pieces
<1>4. s = [i \in 1..N |-> Frame(c, Pieces(d)[i], fcs)] /\ Len(s) = N
  BY <1>2, <1>3
<1>5. CASE N = 0
  <2>1. n = 0 /\ d = <<>>
    BY <1>1, <1>2, <1>5
  <2>2. FlattenSeq(s) = s
    <3> HIDE DEF s, N
    <3> QED BY <1>4, <1>5, FlattenSeqIs
  <2>3. s = <<>>
    BY <1>4, <1>5
  <2>4. l \o <<>> = l
    BY <1>1, ConcatEmptySeq
  <2>5. After(w, c, <<>>) = w
    <3>1. w[c] \o <<>> = w[c]
      BY <1>1, ConcatEmptySeq DEF Contents
    <3> QED BY <1>1, <3>1 DEF After, Contents
  <2> QED BY <2>1, <2>2, <2>3, <2>4, <2>5, EmptySeq DEF Written
<1>6. CASE N # 0
  <2>1. PICK f : Flattens(f, s, N) /\ FlattenSeq(s) = f[N]
    <3> HIDE DEF s, N
    <3> QED BY <1>2, <1>4, <1>6, FlattenSeqIs
  <2> DEFINE Upto(k) == SubSeq(d, 1, EndOf(k, n))
             Wrong == {k \in 1..N : ~ /\ f[k] \in Seq(Bytes) /\ Upto(k) \in Seq(Bytes)
                                      /\ <<l \o f[k], After(w, c, Upto(k))>> \in Carried}
  <2>2. ASSUME NEW k \in 1..N
        PROVE  f[k] = IF k = 1 THEN Frame(c, Pieces(d)[k], fcs)
                      ELSE f[k - 1] \o Frame(c, Pieces(d)[k], fcs)
    BY <1>4, <2>1 DEF Flattens
  <2>3. ASSUME Wrong # {} PROVE FALSE
    <3>1. PICK k \in Wrong : \A i \in Wrong : k <= i
      <4>1. Wrong \in SUBSET Nat
        OBVIOUS
      <4> HIDE DEF Wrong
      <4> QED BY <2>3, <4>1, Minimum
    <3> DEFINE F == Frame(c, Pieces(d)[k], fcs)
    <3>2. k \in 1..N /\ k \in DOMAIN Pieces(d) /\ k \in Nat
      BY <1>3
    <3>3. Pieces(d)[k] \in Piece /\ Pieces(d)[k] \in Seq(Bytes)
      BY <1>1, <3>2, PiecesAre DEF Piece
    <3>4. F \in Seq(Bytes)
      BY <3>3, FrameIs
    <3>5. CASE k = 1
      <4>1. Upto(k) = Pieces(d)[k] /\ f[k] = F
        BY <1>1, <2>2, <3>2, <3>5, PiecesAre
      <4>2. <<l \o F, After(w, c, Pieces(d)[k])>> \in Carried
        BY <3>3, FrameLast
      <4> HIDE DEF F
      <4>3. k \notin Wrong
        BY <3>3, <3>4, <4>1, <4>2
      <4> QED BY <4>3
    <3>6. CASE k # 1
      <4>1. k - 1 \in 1..N /\ Upto(k - 1) \o Pieces(d)[k] = Upto(k)
        BY <1>1, <1>3, <3>2, <3>6, PiecesAre
      <4>2. k - 1 \notin Wrong
        <5> HIDE DEF Wrong
        <5> QED BY <3>1, <3>2
      <4>3. /\ f[k - 1] \in Seq(Bytes) /\ Upto(k - 1) \in Seq(Bytes)
            /\ <<l \o f[k - 1], After(w, c, Upto(k - 1))>> \in Carried
        BY <4>1, <4>2
      <4>4. f[k] = f[k - 1] \o F
        BY <2>2, <3>2, <3>6
      <4>5. <<(l \o f[k - 1]) \o F, After(After(w, c, Upto(k - 1)), c, Pieces(d)[k])>> \in Carried
        BY <3>3, <4>3, FrameLast
      <4> HIDE DEF F, Upto
      <4>6. (l \o f[k - 1]) \o F = l \o f[k]
        <5>1. PICK g \in Seq(Bytes) : g = f[k - 1]
          BY <4>3
        <5>2. (l \o g) \o F = l \o (g \o F)
          BY <1>1, <3>4, BytesGrouped
        <5> QED BY <4>4, <5>1, <5>2
      <4>7. After(After(w, c, Upto(k - 1)), c, Pieces(d)[k]) = After(w, c, Upto(k))
        <5>1. PICK u \in Seq(Bytes) : u = Upto(k - 1)
          BY <4>3
        <5>2. PICK v \in Seq(Bytes) : v = Pieces(d)[k]
          BY <3>3
        <5>3. After(After(w, c, u), c, v) = After(w, c, u \o v)
          BY <1>1, AfterAfter
        <5> QED BY <4>1, <5>1, <5>2, <5>3
      <4>8. f[k] \in Seq(Bytes) /\ Upto(k) \in Seq(Bytes)
        <5>1. PICK g \in Seq(Bytes) : g = f[k - 1]
          BY <4>3
        <5>2. PICK u \in Seq(Bytes) : u = Upto(k - 1)
          BY <4>3
        <5>3. PICK v \in Seq(Bytes) : v = Pieces(d)[k]
          BY <3>3
        <5>4. g \o F \in Seq(Bytes) /\ u \o v \in Seq(Bytes)
          BY <3>4, BytesJoined
        <5> QED BY <4>1, <4>4, <5>1, <5>2, <5>3, <5>4
      <4> QED BY <4>5, <4>6, <4>7, <4>8
    <3> QED BY <3>5, <3>6
  <2>4. EndOf(N, n) = n /\ SubSeq(d, 1, n) = d
    <3>1. EndOf(N, n) = n
      <4>1. PICK m : m = N * FrameSize
        OBVIOUS
      <4>2. m \in Nat /\ n <= m
        BY <1>1, <4>1, PieceNumbers
      <4>3. ~(N * FrameSize < n)
        BY <1>1, <4>1, <4>2
      <4> HIDE DEF n, N
      <4> QED BY <4>3 DEF EndOf
    <3>2. SubSeq(d, 1, n) = d
      BY <1>1, SubSeqFull
    <3> QED BY <3>1, <3>2
  <2>5. N \notin Wrong /\ N \in 1..N
    <3> HIDE DEF N, Wrong
    <3> QED BY <1>2, <1>6, <2>3
  <2>6. f[N] \in Seq(Bytes) /\ <<l \o f[N], After(w, c, Upto(N))>> \in Carried
    BY <2>5
  <2> HIDE DEF n, N, s
  <2> QED BY <2>1, <2>4, <2>6 DEF Written, n, s
<1> QED BY <1>5, <1>6

-----------------------------------------------------------------------------
(* The inductive invariant: what a channel was given is what it has put out *)
(* and, behind that, what is on the line for it, where a frame that has     *)
(* begun to arrive counts with all its data.                                *)

Joined(r, w) == [c \in Channels |-> r[c] \o w[c]]

(* Between two frames. *)
Ground(w) ==
  /\ ~recving /\ buff = <<>>
  /\ <<line, w>> \in Carried
  /\ written = Joined(read, w)

(* After n bytes of a frame, with the lines l behind it. *)
InFrame(c, d, fcs, n, l, w) ==
  LET F == Frame(c, d, fcs)
  IN  /\ line = SubSeq(F, n + 1, Len(F)) \o l
      /\ <<l, w>> \in Carried
      /\ recving <=> n # Len(F) - 1
      /\ buff = Got(F, n)
      /\ written = Joined(read, Before(w, c, d))

Link ==
  \/ \E w \in Contents : Ground(w)
  \/ \E c \in Channels, d \in Piece, fcs \in Fcs, w \in Contents, l \in Seq(Bytes) :
       \E n \in 1..(Len(Frame(c, d, fcs)) - 1) : InFrame(c, d, fcs, n, l, w)

LinkInv ==
  /\ read \in Contents /\ writes \in 0..MaxWrites /\ recving \in BOOLEAN
  /\ Link

(* Joining and adding at the end of what is on the line. *)
LEMMA JoinedAfter ==
  ASSUME NEW r \in Contents, NEW w \in Contents, NEW c \in Channels, NEW d \in Seq(Bytes)
  PROVE  Joined(r, After(w, c, d)) = After(Joined(r, w), c, d)
<1>1. r[c] \o (w[c] \o d) = (r[c] \o w[c]) \o d
  <2>1. PICK s, t \in Seq(Bytes) : s = r[c] /\ t = w[c]
    BY DEF Contents
  <2>2. s \o (t \o d) = (s \o t) \o d
    BY BytesGrouped
  <2> QED BY <2>1, <2>2
<1>2. \A x \in Channels : Joined(r, After(w, c, d))[x] = After(Joined(r, w), c, d)[x]
  BY <1>1 DEF Joined, After, Contents
<1> QED BY <1>2 DEF Joined, After

(* Joining and passing a piece from the line to the reader. *)
LEMMA JoinedRead ==
  ASSUME NEW r \in Contents, NEW w \in Contents, NEW c \in Channels, NEW d \in Seq(Bytes)
  PROVE  Joined(After(r, c, d), w) = Joined(r, Before(w, c, d))
<1>1. (r[c] \o d) \o w[c] = r[c] \o (d \o w[c])
  <2>1. PICK s, t \in Seq(Bytes) : s = r[c] /\ t = w[c]
    BY DEF Contents
  <2>2. (s \o d) \o t = s \o (d \o t)
    BY BytesGrouped
  <2> QED BY <2>1, <2>2
<1>2. \A x \in Channels : Joined(After(r, c, d), w)[x] = Joined(r, Before(w, c, d))[x]
  BY <1>1 DEF Joined, After, Before, Contents
<1> QED BY <1>2 DEF Joined

LEMMA JoinedIs ==
  ASSUME NEW r \in Contents, NEW w \in Contents
  PROVE  Joined(r, w) \in Contents
<1>1. ASSUME NEW c \in Channels PROVE r[c] \o w[c] \in Seq(Bytes)
  <2>1. r[c] \in Seq(Bytes) /\ w[c] \in Seq(Bytes)
    BY DEF Contents
  <2> QED BY <2>1, BytesJoined
<1> QED BY <1>1 DEF Joined, Contents

LEMMA FirstByte ==
  ASSUME NEW b \in Bytes, NEW s \in Seq(Bytes)
  PROVE  /\ <<b>> \o s \in Seq(Bytes) /\ <<b>> \o s # <<>>
         /\ Head(<<b>> \o s) = b /\ Tail(<<b>> \o s) = s
<1> DEFINE t == <<b>> \o s
<1>1. <<b>> \in Seq(Bytes) /\ Len(<<b>>) = 1 /\ <<b>>[1] = b /\ Len(s) \in Nat
  OBVIOUS
<1>2. /\ t \in Seq(Bytes) /\ Len(t) = 1 + Len(s)
      /\ \A i \in 1..(1 + Len(s)) : t[i] = IF i <= 1 THEN <<b>>[i] ELSE s[i - 1]
  <2>1. /\ t \in Seq(Bytes) /\ Len(t) = Len(<<b>>) + Len(s)
        /\ \A i \in 1..(Len(<<b>>) + Len(s)) :
             t[i] = IF i <= Len(<<b>>) THEN <<b>>[i] ELSE s[i - Len(<<b>>)]
    BY <1>1, BytesJoined
  <2> HIDE DEF t
  <2> QED BY <1>1, <2>1
<1> HIDE DEF t
<1>3. t # <<>> /\ t[1] = b
  BY <1>1, <1>2
<1>4. Head(t) = b
  <2>1. 1 \in 1..Len(t) /\ Len(t) \in 1..Len(t)
    BY <1>1, <1>2
  <2>2. Head(SubSeq(t, 1, Len(t))) = t[1]
    BY <1>2, <2>1, HeadTailOfSubSeq
  <2> QED BY <1>2, <1>3, <2>2, SubSeqFull
<1>5. /\ Tail(t) \in Seq(Bytes) /\ Len(Tail(t)) = Len(t) - 1
      /\ \A i \in 1..Len(Tail(t)) : Tail(t)[i] = t[i + 1]
  BY <1>2, <1>3, HeadTailProperties
<1>6. Tail(t) = s
  <2>1. Len(Tail(t)) = Len(s)
    BY <1>1, <1>2, <1>5
  <2>2. ASSUME NEW i \in 1..Len(s) PROVE Tail(t)[i] = s[i]
    <3>1. i + 1 \in 1..(1 + Len(s)) /\ ~(i + 1 <= 1) /\ (i + 1) - 1 = i
      BY <1>1
    <3> QED BY <1>2, <1>5, <2>1, <3>1
  <2> QED BY <1>5, <2>1, <2>2, SeqEqual
<1> QED BY <1>2, <1>3, <1>4, <1>6 DEF t

(* The next byte of a frame that has begun, and the line behind it. *)
LEMMA NextByte ==
  ASSUME NEW F \in Seq(Bytes), NEW k \in 1..Len(F), NEW l \in Seq(Bytes)
  PROVE  LET L == SubSeq(F, k, Len(F)) \o l
         IN  /\ L \in Seq(Bytes) /\ L # <<>> /\ F[k] \in Bytes
             /\ Head(L) = F[k] /\ Tail(L) = SubSeq(F, k + 1, Len(F)) \o l
<1> DEFINE m == Len(F)
           T == SubSeq(F, k + 1, m)
<1>1. m \in Nat /\ m \in k..m /\ F[k] \in Bytes
  BY ElementOfSeq
<1>2. T \in Seq(Bytes)
  <2>1. \A i \in (k + 1)..m : F[i] \in Bytes
    BY <1>1, ElementOfSeq
  <2>2. k + 1 \in Int /\ m \in Int
    BY <1>1
  <2> QED BY <2>1, <2>2, SubSeqProperties
<1>3. SubSeq(F, k, m) = <<F[k]>> \o T
  BY <1>1, SubSeqRecursiveFirst
<1> HIDE DEF T, m
<1>4. (<<F[k]>> \o T) \o l = <<F[k]>> \o (T \o l) /\ T \o l \in Seq(Bytes)
  <2>1. <<F[k]>> \in Seq(Bytes)
    BY <1>1
  <2> QED BY <1>2, <2>1, BytesGrouped, BytesJoined
<1>5. SubSeq(F, k, m) \o l = <<F[k]>> \o (T \o l)
  BY <1>3, <1>4
<1> QED BY <1>1, <1>4, <1>5, FirstByte DEF T, m

LEMMA FrameBounds ==
  ASSUME NEW c \in Channels, NEW d \in Piece, NEW fcs \in Fcs, NEW F, F = Frame(c, d, fcs)
  PROVE  /\ F \in Seq(Bytes) /\ Len(F) \in Nat /\ Len(F) >= 7
         /\ F[1] = SOF_MARKER /\ F[2] # SOF_MARKER /\ F[Len(F)] = SOF_MARKER
<1>1. Len(d) \in Nat /\ Len(d) >= 1
  BY Numbers DEF Piece
<1>2. Len(LengthField(Len(d))) \in Nat /\ Len(LengthField(Len(d))) >= 1
  BY LengthIs DEF Piece
<1>3. /\ F \in Seq(Bytes) /\ Len(F) \in Nat
      /\ Len(F) = 5 + Len(LengthField(Len(d))) + Len(d) /\ Len(F) >= 7
  <2>1. Len(F) = 5 + Len(LengthField(Len(d))) + Len(d) /\ F \in Seq(Bytes)
    BY FrameIs
  <2> QED BY <1>1, <1>2, <2>1
<1> QED BY <1>3, FrameIs, AddressIs

(* One more byte of a frame is collected. *)
LEMMA GotMore ==
  ASSUME NEW F \in Seq(Bytes), NEW n \in 1..(Len(F) - 1)
  PROVE  /\ Got(F, n + 1) = Append(Got(F, n), F[n + 1])
         /\ n = 1 => Got(F, n) = <<>>
         /\ n # 1 => Got(F, n) # <<>>
         /\ Got(F, n) \in Seq(Bytes)
<1>1. n \in Nat /\ Len(F) \in Nat /\ n + 1 \in 2..Len(F) /\ 2 \in 1..Len(F)
  BY LenProperties
<1>2. /\ SubSeq(F, 2, n) \in Seq(Bytes)
      /\ Len(SubSeq(F, 2, n)) = IF 2 <= n THEN n - 2 + 1 ELSE 0
  <2>1. \A i \in 2..n : F[i] \in Bytes
    BY <1>1, ElementOfSeq
  <2> QED BY <1>1, <2>1, SubSeqProperties
<1>3. F[n + 1] \in Bytes
  BY <1>1, ElementOfSeq
<1>4. SubSeq(F, 2, n + 1) = SubSeq(F, 2, (n + 1) - 1) \o <<F[n + 1]>>
  BY <1>1, SubSeqRecursiveSecond
<1>5. (n + 1) - 1 = n
  BY <1>1
<1>6. Append(SubSeq(F, 2, n), F[n + 1]) = SubSeq(F, 2, n) \o <<F[n + 1]>>
  BY <1>2, <1>3, AppendIsConcat
<1>7. n = 1 => SubSeq(F, 2, n) = <<>>
  <2>1. n = 1 => Len(SubSeq(F, 2, n)) = 0
    BY <1>2
  <2> QED BY <1>2, <2>1, EmptySeq
<1>8. n # 1 => SubSeq(F, 2, n) # <<>>
  <2>1. n # 1 => Len(SubSeq(F, 2, n)) # 0
    BY <1>1, <1>2
  <2> QED BY <2>1, EmptySeq
<1> QED BY <1>2, <1>4, <1>5, <1>6, <1>7, <1>8 DEF Got

LEMMA NothingIs == Nothing \in Contents /\ Joined(Nothing, Nothing) = Nothing
<1>1. <<>> \in Seq(Bytes) /\ <<>> \o <<>> = <<>>
  BY EmptySeq, ConcatEmptySeq
<1> QED BY <1>1 DEF Nothing, Contents, Joined

LEMMA LinkInit == Init => LinkInv
<1> SUFFICES ASSUME Init PROVE LinkInv
  OBVIOUS
<1>1. <<line, Nothing>> \in Carried
  BY CarriedClosed DEF Init, Closed
<1>2. written = Nothing /\ read = Nothing
  BY DEF Init, Nothing
<1>3. Ground(Nothing)
  BY <1>1, <1>2, NothingIs DEF Ground, Init
<1>4. writes \in 0..MaxWrites
  BY DataAssumption DEF Init
<1> QED BY <1>2, <1>3, <1>4, NothingIs DEF LinkInv, Link, Init

(* Writing leaves the receiver where it is. *)
LEMMA LinkWrite ==
  ASSUME LinkInv, NEW c \in Channels, cmux_ch_input(c)
  PROVE  LinkInv' /\ read' = read /\ \E d \in Payloads : written' = After(written, c, d)
<1>1. PICK d \in Payloads, fcs \in Fcs :
        line' = line \o Written(c, d, fcs) /\ written' = [written EXCEPT ![c] = @ \o d]
  BY DEF cmux_ch_input, Written
<1>2. read' = read /\ written' = After(written, c, d) /\ d \in Seq(Bytes)
  BY <1>1, DataAssumption DEF cmux_ch_input, After
<1>3. read \in Contents /\ recving' = recving /\ buff' = buff
  BY DEF LinkInv, cmux_ch_input
<1>4. writes' \in 0..MaxWrites /\ recving' \in BOOLEAN /\ read' \in Contents
  BY DataAssumption DEF LinkInv, cmux_ch_input
<1>5. ASSUME NEW w \in Contents, Ground(w) PROVE Ground(After(w, c, d))'
  <2>1. <<line \o Written(c, d, fcs), After(w, c, d)>> \in Carried
    BY <1>5, WriteLast DEF Ground
  <2>2. After(written, c, d) = Joined(read, After(w, c, d))
    BY <1>2, <1>3, <1>5, JoinedAfter DEF Ground
  <2> QED BY <1>1, <1>2, <1>3, <1>5, <2>1, <2>2 DEF Ground
<1>6. ASSUME NEW e \in Channels, NEW g \in Piece, NEW y \in Fcs,
             NEW w \in Contents, NEW l \in Seq(Bytes),
             NEW n \in 1..(Len(Frame(e, g, y)) - 1), InFrame(e, g, y, n, l, w)
      PROVE  InFrame(e, g, y, n, l \o Written(c, d, fcs), After(w, c, d))'
  <2> DEFINE F == Frame(e, g, y)
             W == Written(c, d, fcs)
             S == SubSeq(F, n + 1, Len(F))
  <2>1. <<l \o W, After(w, c, d)>> \in Carried /\ W \in Seq(Bytes)
    BY <1>6, WriteLast DEF InFrame
  <2>2. S \in Seq(Bytes)
    <3>1. F \in Seq(Bytes) /\ Len(F) \in Nat
      BY FrameBounds
    <3> HIDE DEF F
    <3>2. \A i \in (n + 1)..Len(F) : F[i] \in Bytes
      BY <3>1, ElementOfSeq
    <3>3. n + 1 \in Int /\ Len(F) \in Int
      BY <3>1
    <3> QED BY <3>2, <3>3, SubSeqProperties
  <2>3. line = S \o l
    BY <1>6 DEF InFrame
  <2> HIDE DEF F, W, S
  <2>4. line \o W = S \o (l \o W)
    BY <2>1, <2>2, <2>3, BytesGrouped
  <2>5. g \in Seq(Bytes)
    BY DEF Piece
  <2>6. After(written, c, d) = Joined(read, Before(After(w, c, d), e, g))
    <3>1. Before(w, e, g) \in Contents /\ written = Joined(read, Before(w, e, g))
      BY <1>6, <2>5, ContentsAre DEF InFrame
    <3>2. Joined(read, After(Before(w, e, g), c, d)) = After(written, c, d)
      BY <1>2, <1>3, <3>1, JoinedAfter
    <3>3. After(Before(w, e, g), c, d) = Before(After(w, c, d), e, g)
      BY <1>2, <2>5, BeforeAfter
    <3> QED BY <3>2, <3>3
  <2>7. line' = S \o (l \o W)
    BY <1>1, <2>4 DEF W
  <2>8. (recving <=> n # Len(F) - 1) /\ buff = Got(F, n)
    BY <1>6 DEF InFrame, F
  <2> QED BY <1>2, <1>3, <2>1, <2>6, <2>7, <2>8 DEF InFrame, F, W, S
<1>7. ASSUME NEW l, NEW w \in Contents, <<l, w>> \in Carried
      PROVE  l \o Written(c, d, fcs) \in Seq(Bytes) /\ After(w, c, d) \in Contents
  BY <1>7, WriteLast, CarriedIsLine
<1>8. Link'
  <2>1. CASE \E w \in Contents : Ground(w)
    <3>1. PICK w \in Contents : Ground(w)
      BY <2>1
    <3>2. After(w, c, d) \in Contents
      BY <3>1, <1>7 DEF Ground
    <3> QED BY <1>5, <3>1, <3>2 DEF Link
  <2>2. CASE \E e \in Channels, g \in Piece, y \in Fcs, w \in Contents, l \in Seq(Bytes) :
               \E n \in 1..(Len(Frame(e, g, y)) - 1) : InFrame(e, g, y, n, l, w)
    <3>1. PICK e \in Channels, g \in Piece, y \in Fcs, w \in Contents, l \in Seq(Bytes) :
               \E n \in 1..(Len(Frame(e, g, y)) - 1) : InFrame(e, g, y, n, l, w)
      BY <2>2
    <3>2. PICK n \in 1..(Len(Frame(e, g, y)) - 1) : InFrame(e, g, y, n, l, w)
      BY <3>1
    <3>3. l \o Written(c, d, fcs) \in Seq(Bytes) /\ After(w, c, d) \in Contents
      BY <3>2, <1>7 DEF InFrame
    <3>4. InFrame(e, g, y, n, l \o Written(c, d, fcs), After(w, c, d))'
      BY <1>6, <3>2
    <3> QED BY <3>3, <3>4 DEF Link
  <2> QED BY <2>1, <2>2 DEF LinkInv, Link
<1> QED BY <1>2, <1>4, <1>8 DEF LinkInv

(* Between two frames the next byte is noise and dropped, or a flag with    *)
(* its frame behind it. *)
LEMMA LinkBetween ==
  ASSUME LinkInv, NEW w \in Contents, Ground(w), cmux_tp_input
  PROVE  LinkInv' /\ written' = written /\ read' = read
<1>1. /\ written' = written /\ writes' = writes
      /\ line # <<>> /\ line' = Tail(line) /\ ~recving /\ buff = <<>>
      /\ Inside(Head(line)) \/ Flag(Head(line)) \/ Between(Head(line))
  BY DEF cmux_tp_input, Ground
<1>2. read \in Contents /\ written = Joined(read, w)
  BY DEF LinkInv, Ground
<1>3. Begins(line, w)
  BY CarriedBegins DEF Ground
<1>4. CASE \E r : \E b \in Noise : line = <<b>> \o r /\ <<r, w>> \in Carried
  <2>1. PICK r : \E b \in Noise : line = <<b>> \o r /\ <<r, w>> \in Carried
    BY <1>4
  <2>2. PICK b \in Noise : line = <<b>> \o r /\ <<r, w>> \in Carried
    BY <2>1
  <2>3. b \in Bytes /\ b # SOF_MARKER /\ r \in Seq(Bytes)
    BY <2>2, NoiseIs, CarriedIsLine
  <2>4. Head(line) = b /\ Tail(line) = r
    BY <2>2, <2>3, FirstByte
  <2>5. read' = read /\ recving' = recving /\ buff' = buff
    BY <1>1, <2>3, <2>4 DEF Inside, Flag, Between
  <2>6. Ground(w)'
    BY <1>1, <1>2, <2>2, <2>4, <2>5 DEF Ground
  <2> QED BY <1>1, <2>5, <2>6 DEF LinkInv, Link
<1>5. CASE \E r, v : \E c \in Channels, d \in Piece, fcs \in Fcs :
             line = Frame(c, d, fcs) \o r /\ w = Before(v, c, d) /\ <<r, v>> \in Carried
  <2>1. PICK r, v : \E c \in Channels, d \in Piece, fcs \in Fcs :
             line = Frame(c, d, fcs) \o r /\ w = Before(v, c, d) /\ <<r, v>> \in Carried
    BY <1>5
  <2>2. PICK c \in Channels, d \in Piece, fcs \in Fcs :
             line = Frame(c, d, fcs) \o r /\ w = Before(v, c, d) /\ <<r, v>> \in Carried
    BY <2>1
  <2> DEFINE F == Frame(c, d, fcs)
  <2>3. r \in Seq(Bytes) /\ v \in Contents
    BY <2>2, CarriedIsLine
  <2>4. F \in Seq(Bytes) /\ Len(F) \in Nat /\ Len(F) >= 7 /\ F[1] = SOF_MARKER
    BY FrameBounds
  <2>5. line = F \o r
    BY <2>2
  <2> HIDE DEF F
  <2>6. SubSeq(F, 1, Len(F)) = F /\ 1 \in 1..Len(F) /\ 1 + 1 = 2
    BY <2>4, SubSeqFull
  <2>7. Head(line) = SOF_MARKER /\ Tail(line) = SubSeq(F, 2, Len(F)) \o r
    BY <2>3, <2>4, <2>5, <2>6, NextByte
  <2>8. recving' = TRUE /\ read' = read /\ buff' = <<>>
    BY <1>1, <2>7 DEF Inside, Flag, Between
  <2>9. 1 \in 1..(Len(F) - 1) /\ 1 # Len(F) - 1 /\ Got(F, 1) = <<>>
    BY <2>4, GotMore
  <2>10. InFrame(c, d, fcs, 1, r, v)'
    BY <1>1, <1>2, <2>2, <2>6, <2>7, <2>8, <2>9 DEF InFrame, F
  <2>11. Link'
    BY <2>3, <2>9, <2>10 DEF Link, F
  <2> QED BY <1>1, <2>8, <2>11 DEF LinkInv
<1> QED BY <1>1, <1>3, <1>4, <1>5 DEF Begins

(* In a frame the next byte belongs to it; its last one hands over the data *)
(* and leaves nothing of it behind. *)
LEMMA LinkInside ==
  ASSUME LinkInv, cmux_tp_input,
         NEW c \in Channels, NEW d \in Piece, NEW fcs \in Fcs,
         NEW w \in Contents, NEW l \in Seq(Bytes),
         NEW n \in 1..(Len(Frame(c, d, fcs)) - 1), InFrame(c, d, fcs, n, l, w)
  PROVE  /\ LinkInv' /\ written' = written
         /\ \/ read' = read
            \/ /\ read' = After(read, c, d)
               /\ written = Joined(After(read, c, d), w)
<1> DEFINE F == Frame(c, d, fcs)
<1>1. /\ written' = written /\ writes' = writes /\ line' = Tail(line)
      /\ Inside(Head(line)) \/ Flag(Head(line)) \/ Between(Head(line))
  BY DEF cmux_tp_input
<1>2. read \in Contents /\ writes \in 0..MaxWrites
  BY DEF LinkInv
<1>3. /\ line = SubSeq(F, n + 1, Len(F)) \o l /\ <<l, w>> \in Carried
      /\ recving <=> n # Len(F) - 1
      /\ buff = Got(F, n) /\ written = Joined(read, Before(w, c, d))
  BY DEF InFrame
<1>4. /\ F \in Seq(Bytes) /\ Len(F) \in Nat /\ Len(F) >= 7
      /\ F[2] # SOF_MARKER /\ F[Len(F)] = SOF_MARKER
  BY FrameBounds
<1>5. n \in 1..(Len(F) - 1) /\ d \in Seq(Bytes)
  BY DEF Piece
<1>6. ASSUME NEW k \in 2..(Len(F) - 1)
      PROVE  /\ Complete(Got(F, k)) <=> k = Len(F) - 1
             /\ k = Len(F) - 1 => Channel(Got(F, k)) = c /\ Data(Got(F, k)) = d
  BY FrameRead
<1> HIDE DEF F
<1>7. Head(line) = F[n + 1] /\ Tail(line) = SubSeq(F, (n + 1) + 1, Len(F)) \o l
  <2>1. n + 1 \in 1..Len(F)
    BY <1>4, <1>5
  <2> QED BY <1>3, <1>4, <2>1, NextByte
<1>8. CASE n # Len(F) - 1
  <2>1. n + 1 \in 2..(Len(F) - 1) /\ n + 1 \in 1..(Len(F) - 1)
    BY <1>4, <1>5, <1>8
  <2>2. ~(buff = <<>> /\ F[n + 1] = SOF_MARKER)
    BY <1>3, <1>4, <1>5, GotMore
  <2>3. read' = read /\ buff' = Append(buff, F[n + 1]) /\ recving' = ~Complete(buff')
    BY <1>1, <1>3, <1>7, <1>8, <2>2 DEF Inside, Flag, Between
  <2>4. buff' = Got(F, n + 1)
    BY <1>3, <1>4, <1>5, <2>3, GotMore
  <2>5. recving' <=> n + 1 # Len(F) - 1
    BY <1>6, <2>1, <2>3, <2>4
  <2>6. InFrame(c, d, fcs, n + 1, l, w)'
    BY <1>1, <1>3, <1>7, <2>3, <2>4, <2>5 DEF InFrame, F
  <2>7. Link'
    BY <2>1, <2>6 DEF Link, F
  <2> QED BY <1>1, <1>2, <2>3, <2>7 DEF LinkInv
<1>9. CASE n = Len(F) - 1
  <2>1. n + 1 = Len(F) /\ n # 1 /\ n \in 2..(Len(F) - 1)
    BY <1>4, <1>5, <1>9
  <2>2. Head(line) = SOF_MARKER /\ buff # <<>> /\ ~recving
    BY <1>3, <1>4, <1>5, <1>7, <1>9, <2>1, GotMore
  <2>3. Received(buff) /\ recving' = recving /\ buff' = <<>>
    BY <1>1, <2>2 DEF Inside, Flag, Between
  <2>4. Channel(buff) = c /\ Data(buff) = d
    BY <1>3, <1>6, <1>9, <2>1
  <2>5. read' = After(read, c, d)
    BY <2>3, <2>4 DEF Received, After
  <2>6. Tail(line) = l
    <3>1. Tail(line) = SubSeq(F, Len(F) + 1, Len(F)) \o l
      BY <1>7, <2>1
    <3>2. SubSeq(F, Len(F) + 1, Len(F)) = <<>>
      BY <1>4, SubSeqEmpty
    <3> QED BY <3>1, <3>2, ConcatEmptySeq
  <2>7. written = Joined(After(read, c, d), w)
    BY <1>2, <1>3, <1>5, JoinedRead
  <2>8. Ground(w)'
    BY <1>1, <1>3, <2>2, <2>3, <2>5, <2>6, <2>7 DEF Ground
  <2>9. read' \in Contents
    BY <1>2, <1>5, <2>5, ContentsAre
  <2> QED BY <1>1, <1>2, <2>2, <2>3, <2>5, <2>7, <2>8, <2>9 DEF LinkInv, Link
<1> QED BY <1>8, <1>9

LEMMA LinkStray ==
  ASSUME LinkInv, Stray
  PROVE  LinkInv'
<1>1. PICK b \in Noise : line' = Append(line, b)
  BY DEF Stray
<1>2. /\ recving' = recving /\ buff' = buff /\ written' = written /\ read' = read
      /\ writes' \in 0..MaxWrites /\ recving' \in BOOLEAN /\ read' \in Contents
  BY DataAssumption DEF Stray, LinkInv
<1>3. ASSUME NEW s \in Seq(Bytes) PROVE Append(s, b) = s \o <<b>>
  BY NoiseIs, AppendIsConcat
<1>4. ASSUME NEW w \in Contents, Ground(w) PROVE Ground(w)'
  <2>1. line \in Seq(Bytes) /\ <<line \o <<b>>, w>> \in Carried
    BY <1>4, NoiseLast, CarriedIsLine DEF Ground
  <2>2. line' = line \o <<b>>
    BY <1>1, <1>3, <2>1
  <2> QED BY <1>2, <1>4, <2>1, <2>2 DEF Ground
<1>5. ASSUME NEW c \in Channels, NEW d \in Piece, NEW fcs \in Fcs,
             NEW w \in Contents, NEW l \in Seq(Bytes),
             NEW n \in 1..(Len(Frame(c, d, fcs)) - 1), InFrame(c, d, fcs, n, l, w)
      PROVE  InFrame(c, d, fcs, n, l \o <<b>>, w)' /\ l \o <<b>> \in Seq(Bytes)
  <2> DEFINE F == Frame(c, d, fcs)
             S == SubSeq(F, n + 1, Len(F))
  <2>1. <<l \o <<b>>, w>> \in Carried /\ <<b>> \in Seq(Bytes)
    BY <1>5, NoiseLast, NoiseIs DEF InFrame
  <2>2. S \in Seq(Bytes)
    <3>1. F \in Seq(Bytes) /\ Len(F) \in Nat
      BY FrameBounds
    <3> HIDE DEF F
    <3>2. \A i \in (n + 1)..Len(F) : F[i] \in Bytes
      BY <3>1, ElementOfSeq
    <3>3. n + 1 \in Int /\ Len(F) \in Int
      BY <3>1
    <3> QED BY <3>2, <3>3, SubSeqProperties
  <2>3. line = S \o l
    BY <1>5 DEF InFrame
  <2> HIDE DEF F, S
  <2>4. line' = S \o (l \o <<b>>)
    <3>1. S \o l \in Seq(Bytes)
      BY <2>2, BytesJoined
    <3>2. line' = (S \o l) \o <<b>>
      BY <1>1, <1>3, <2>3, <3>1
    <3> QED BY <2>1, <2>2, <3>2, BytesGrouped
  <2>5. /\ recving <=> n # Len(F) - 1
        /\ buff = Got(F, n) /\ written = Joined(read, Before(w, c, d))
    BY <1>5 DEF InFrame, F
  <2> QED BY <1>2, <2>1, <2>4, <2>5, BytesJoined DEF InFrame, F, S
<1>6. Link'
  <2>1. CASE \E w \in Contents : Ground(w)
    BY <1>4, <2>1 DEF Link
  <2>2. CASE \E e \in Channels, g \in Piece, y \in Fcs, w \in Contents, l \in Seq(Bytes) :
               \E n \in 1..(Len(Frame(e, g, y)) - 1) : InFrame(e, g, y, n, l, w)
    <3>1. PICK e \in Channels, g \in Piece, y \in Fcs, w \in Contents, l \in Seq(Bytes) :
               \E n \in 1..(Len(Frame(e, g, y)) - 1) : InFrame(e, g, y, n, l, w)
      BY <2>2
    <3>2. PICK n \in 1..(Len(Frame(e, g, y)) - 1) : InFrame(e, g, y, n, l, w)
      BY <3>1
    <3>3. InFrame(e, g, y, n, l \o <<b>>, w)' /\ l \o <<b>> \in Seq(Bytes)
      BY <1>5, <3>2
    <3> QED BY <3>3 DEF Link
  <2> QED BY <2>1, <2>2 DEF LinkInv, Link
<1> QED BY <1>2, <1>6 DEF LinkInv

(* What a receive does: nothing that a channel sees, or the end of a frame. *)
LEMMA LinkReceive ==
  ASSUME LinkInv, cmux_tp_input
  PROVE  /\ LinkInv' /\ written' = written
         /\ \/ read' = read
            \/ \E c \in Channels, d \in Piece, w \in Contents :
                 read' = After(read, c, d) /\ written = Joined(After(read, c, d), w)
<1>1. CASE \E w \in Contents : Ground(w)
  BY <1>1, LinkBetween
<1>2. CASE \E c \in Channels, d \in Piece, fcs \in Fcs, w \in Contents, l \in Seq(Bytes) :
             \E n \in 1..(Len(Frame(c, d, fcs)) - 1) : InFrame(c, d, fcs, n, l, w)
  <2>1. PICK c \in Channels, d \in Piece, fcs \in Fcs, w \in Contents, l \in Seq(Bytes) :
             \E n \in 1..(Len(Frame(c, d, fcs)) - 1) : InFrame(c, d, fcs, n, l, w)
    BY <1>2
  <2>2. PICK n \in 1..(Len(Frame(c, d, fcs)) - 1) : InFrame(c, d, fcs, n, l, w)
    BY <2>1
  <2>3. /\ LinkInv' /\ written' = written
        /\ \/ read' = read
           \/ read' = After(read, c, d) /\ written = Joined(After(read, c, d), w)
    BY <2>2, LinkInside
  <2> QED BY <2>3
<1> QED BY <1>1, <1>2 DEF LinkInv, Link

LEMMA LinkStep == LinkInv /\ [Next]_vars => LinkInv'
<1> SUFFICES ASSUME LinkInv, [Next]_vars PROVE LinkInv'
  OBVIOUS
<1>1. CASE \E c \in Channels : cmux_ch_input(c)
  BY <1>1, LinkWrite
<1>2. CASE Stray
  BY <1>2, LinkStray
<1>3. CASE cmux_tp_input
  BY <1>3, LinkReceive
<1>4. CASE UNCHANGED vars
  <2>1. /\ line' = line /\ recving' = recving /\ buff' = buff /\ writes' = writes
        /\ written' = written /\ read' = read
    BY <1>4 DEF vars
  <2>2. ASSUME NEW w \in Contents, Ground(w) PROVE Ground(w)'
    BY <2>1, <2>2 DEF Ground
  <2>3. ASSUME NEW c \in Channels, NEW d \in Piece, NEW fcs \in Fcs,
               NEW w \in Contents, NEW l \in Seq(Bytes),
               NEW n \in 1..(Len(Frame(c, d, fcs)) - 1), InFrame(c, d, fcs, n, l, w)
        PROVE  InFrame(c, d, fcs, n, l, w)'
    BY <2>1, <2>3 DEF InFrame
  <2>4. CASE \E w \in Contents : Ground(w)
    BY <2>1, <2>2, <2>4 DEF LinkInv, Link
  <2>5. CASE \E c \in Channels, d \in Piece, fcs \in Fcs, w \in Contents, l \in Seq(Bytes) :
               \E n \in 1..(Len(Frame(c, d, fcs)) - 1) : InFrame(c, d, fcs, n, l, w)
    <3>1. PICK c \in Channels, d \in Piece, fcs \in Fcs, w \in Contents, l \in Seq(Bytes) :
               \E n \in 1..(Len(Frame(c, d, fcs)) - 1) : InFrame(c, d, fcs, n, l, w)
      BY <2>5
    <3>2. PICK n \in 1..(Len(Frame(c, d, fcs)) - 1) : InFrame(c, d, fcs, n, l, w)
      BY <3>1
    <3>3. InFrame(c, d, fcs, n, l, w)'
      BY <2>3, <3>2
    <3>4. Link'
      BY <3>3 DEF Link
    <3> QED BY <2>1, <3>4 DEF LinkInv
  <2> QED BY <2>4, <2>5 DEF LinkInv, Link
<1> QED BY <1>1, <1>2, <1>3, <1>4 DEF Next, Done

LEMMA LinkAlways == Spec => []LinkInv
BY LinkInit, LinkStep, PTL DEF Spec

-----------------------------------------------------------------------------
(* Everything on the line is a byte, and the receiver never collects more   *)
(* than the longest frame: cmux_tp_input() may do without a look at the end *)
(* of its buffer. *)
THEOREM LinkTyped == Spec => []TypeOK
<1>1. ASSUME LinkInv PROVE TypeOK
  <2>1. LongestFrame \in Nat
    BY Numbers DEF LongestFrame
  <2>2. CASE \E w \in Contents : Ground(w)
    <3>1. PICK w \in Contents : Ground(w)
      BY <2>2
    <3>2. line \in Seq(Bytes) /\ buff = <<>> /\ written \in Contents
      BY <1>1, <3>1, CarriedIsLine, JoinedIs DEF Ground, LinkInv
    <3>3. Len(<<>>) = 0 /\ <<>> \in Seq(Bytes)
      BY EmptySeq
    <3> QED BY <1>1, <2>1, <3>2, <3>3 DEF TypeOK, LinkInv, Contents
  <2>3. CASE \E c \in Channels, d \in Piece, fcs \in Fcs, w \in Contents, l \in Seq(Bytes) :
               \E n \in 1..(Len(Frame(c, d, fcs)) - 1) : InFrame(c, d, fcs, n, l, w)
    <3>1. PICK c \in Channels, d \in Piece, fcs \in Fcs, w \in Contents, l \in Seq(Bytes) :
               \E n \in 1..(Len(Frame(c, d, fcs)) - 1) : InFrame(c, d, fcs, n, l, w)
      BY <2>3
    <3> DEFINE F == Frame(c, d, fcs)
    <3>2. PICK n \in 1..(Len(F) - 1) : InFrame(c, d, fcs, n, l, w)
      BY <3>1
    <3>3. F \in Seq(Bytes) /\ Len(F) \in Nat /\ Len(F) >= 7 /\ d \in Seq(Bytes)
      BY FrameBounds DEF Piece
    <3>4. line = SubSeq(F, n + 1, Len(F)) \o l /\ buff = Got(F, n)
      BY <3>2 DEF InFrame
    <3>5. written \in Contents
      BY <1>1, <3>2, <3>3, ContentsAre, JoinedIs DEF InFrame, LinkInv
    <3>6. n # 1 => Len(Got(F, n)) <= LongestFrame
      <4>1. n # 1 => n \in 2..(Len(F) - 1)
        BY <3>3
      <4> QED BY <4>1, FrameRead
    <3> HIDE DEF F
    <3>7. line \in Seq(Bytes)
      <4>1. n + 1 \in 1..Len(F)
        BY <3>3
      <4> QED BY <3>3, <3>4, <4>1, NextByte
    <3>8. buff \in Seq(Bytes) /\ Len(buff) <= LongestFrame
      <4>1. CASE n = 1
        <5>1. buff = <<>>
          BY <3>3, <3>4, <4>1, GotMore
        <5>2. Len(<<>>) = 0 /\ <<>> \in Seq(Bytes)
          BY EmptySeq
        <5> QED BY <2>1, <5>1, <5>2
      <4>2. CASE n # 1
        BY <3>3, <3>4, <3>6, <4>2, GotMore
      <4> QED BY <4>1, <4>2
    <3> QED BY <1>1, <3>5, <3>7, <3>8 DEF TypeOK, LinkInv, Contents
  <2> QED BY <1>1, <2>2, <2>3 DEF LinkInv, Link
<1> QED BY <1>1, LinkAlways, PTL

(* When the line is empty the receiver is between two frames and has        *)
(* nothing in its buffer: no frame leaves something behind that the next    *)
(* one would be read with. *)
THEOREM GroundAtRest == Spec => []GroundState
<1>1. ASSUME LinkInv PROVE GroundState
  <2>1. CASE \E w \in Contents : Ground(w)
    BY <2>1 DEF Ground, GroundState
  <2>2. CASE \E c \in Channels, d \in Piece, fcs \in Fcs, w \in Contents, l \in Seq(Bytes) :
               \E n \in 1..(Len(Frame(c, d, fcs)) - 1) : InFrame(c, d, fcs, n, l, w)
    <3>1. PICK c \in Channels, d \in Piece, fcs \in Fcs, w \in Contents, l \in Seq(Bytes) :
               \E n \in 1..(Len(Frame(c, d, fcs)) - 1) : InFrame(c, d, fcs, n, l, w)
      BY <2>2
    <3> DEFINE F == Frame(c, d, fcs)
    <3>2. PICK n \in 1..(Len(F) - 1) : InFrame(c, d, fcs, n, l, w)
      BY <3>1
    <3>3. F \in Seq(Bytes) /\ Len(F) \in Nat /\ Len(F) >= 7
      BY FrameBounds
    <3>4. line = SubSeq(F, n + 1, Len(F)) \o l
      BY <3>2 DEF InFrame
    <3> HIDE DEF F
    <3>5. n + 1 \in 1..Len(F)
      BY <3>3
    <3>6. line # <<>>
      BY <3>3, <3>4, <3>5, NextByte
    <3> QED BY <3>6 DEF GroundState
  <2> QED BY <1>1, <2>1, <2>2 DEF LinkInv, Link
<1> QED BY <1>1, LinkAlways, PTL

LEMMA StartOf ==
  ASSUME NEW s \in Seq(Bytes), NEW t \in Seq(Bytes)
  PROVE  SubSeq(s \o t, 1, Len(s)) = s
<1>1. Len(s) \in Nat
  OBVIOUS
<1>2. CASE s = <<>>
  <2>1. s \o t = t /\ Len(s) = 0
    BY <1>2, ConcatEmptySeq
  <2>2. SubSeq(t, 1, 0) = <<>>
    BY SubSeqEmpty
  <2> QED BY <1>2, <2>1, <2>2
<1>3. CASE s # <<>>
  <2>1. Len(s) # 0
    BY <1>3, EmptySeq
  <2>2. 1 \in 1..Len(s) /\ Len(s) \in 1..Len(s)
    BY <1>1, <2>1
  <2>3. SubSeq(s \o t, 1, Len(s)) = SubSeq(s, 1, Len(s))
    BY <2>2, SubSeqOfConcat1
  <2> QED BY <2>3, SubSeqFull
<1> QED BY <1>2, <1>3

(* Adding to a channel's data is a write of its stream. *)
LEMMA WriteStep ==
  ASSUME written \in Contents, NEW c \in Channels, NEW d \in Seq(Bytes),
         written' = After(written, c, d), read' = read
  PROVE  [Streams!Next]_<<written, read>>
<1>1. PICK s \in Seq(Bytes) : s = written[c]
  BY DEF Contents
<1>2. written'[c] = s \o d /\ written' = [written EXCEPT ![c] = s \o d]
  BY <1>1 DEF After, Contents
<1>3. CASE d = <<>>
  <2>1. s \o d = s
    BY <1>3, ConcatEmptySeq
  <2>2. written' = written
    BY <1>1, <1>2, <2>1 DEF Contents
  <2> QED BY <2>2
<1>4. CASE d # <<>>
  <2>1. PICK t \in Seq(Bytes) : t = s \o d
    BY BytesJoined
  <2>2. SubSeq(t, 1, Len(s)) = s
    BY <2>1, StartOf
  <2>3. SubSeq(s, 1, Len(s)) = s
    BY SubSeqFull
  <2>4. t # s
    BY <1>4, <2>1, ConcatEqualIffEmpty
  <2>5. Len(s) <= Len(t)
    <3>1. Len(t) = Len(s) + Len(d)
      BY <2>1, BytesJoined
    <3> QED BY <3>1
  <2>6. Streams!IsStrictPrefix(s, t)
    BY <2>2, <2>3, <2>4, <2>5 DEF Streams!IsStrictPrefix, Streams!IsPrefix
  <2>7. Streams!Write(c)
    <3>1. written'[c] = t /\ written' = [written EXCEPT ![c] = t]
      BY <1>2, <2>1
    <3>2. Streams!IsStrictPrefix(written[c], written'[c])
      BY <1>1, <2>6, <3>1
    <3> QED BY <3>1, <3>2 DEF Streams!Write
  <2> QED BY <2>7 DEF Streams!Next
<1> QED BY <1>3, <1>4

(* Handing over the data of a frame is a read of its stream. *)
LEMMA ReadStep ==
  ASSUME read \in Contents, NEW c \in Channels, NEW d \in Piece, NEW w \in Contents,
         read' = After(read, c, d), written = Joined(After(read, c, d), w), written' = written
  PROVE  [Streams!Next]_<<written, read>>
<1>1. PICK s \in Seq(Bytes) : s = read[c]
  BY DEF Contents
<1>2. PICK t \in Seq(Bytes) : t = w[c]
  BY DEF Contents
<1>3. d \in Seq(Bytes) /\ Len(d) \in Nat /\ Len(d) >= 1
  BY Numbers DEF Piece
<1>4. read' = [read EXCEPT ![c] = s \o d] /\ written[c] = (s \o d) \o t
  BY <1>1, <1>2 DEF After, Joined, Contents
<1>5. s \o d \in Seq(Bytes) /\ Len(s \o d) = Len(s) + Len(d)
  BY <1>3, BytesJoined
<1>6. SubSeq((s \o d) \o t, 1, Len(s \o d)) = s \o d
  BY <1>5, StartOf
<1>7. Len((s \o d) \o t) = Len(s \o d) + Len(t)
  BY <1>5, BytesJoined
<1>8. Len(s \o d) \in (Len(s) + 1)..Len((s \o d) \o t)
  <2>1. Len(s) \in Nat /\ Len(t) \in Nat
    OBVIOUS
  <2> QED BY <1>3, <1>5, <1>7, <2>1
<1>9. Streams!Read(c)
  BY <1>1, <1>4, <1>6, <1>8 DEF Streams!Read
<1> QED BY <1>9 DEF Streams!Next

(* Every step of the link is a step of the byte streams or leaves them as   *)
(* they are: whatever the payload, its pieces and the noise between them,   *)
(* no channel puts out a byte that it was not given, in another order, or   *)
(* one of another channel. *)
THEOREM LinkIsStreams == Spec => Streams!Init /\ [][Streams!Next]_<<written, read>>
<1>1. Init => Streams!Init
  BY DEF Init, Streams!Init
<1>2. ASSUME LinkInv, TypeOK, [Next]_vars PROVE [Streams!Next]_<<written, read>>
  <2>1. written \in Contents /\ read \in Contents
    BY <1>2 DEF TypeOK, Contents
  <2>2. CASE \E c \in Channels : cmux_ch_input(c)
    <3>1. PICK c \in Channels : cmux_ch_input(c)
      BY <2>2
    <3>2. PICK d \in Payloads : written' = After(written, c, d) /\ read' = read
      BY <1>2, <3>1, LinkWrite
    <3>3. d \in Seq(Bytes)
      BY DataAssumption
    <3> QED BY <2>1, <3>2, <3>3, WriteStep
  <2>3. CASE Stray
    BY <2>3 DEF Stray
  <2>4. CASE cmux_tp_input
    BY <1>2, <2>1, <2>4, LinkReceive, ReadStep
  <2>5. CASE UNCHANGED vars
    BY <2>5 DEF vars
  <2> QED BY <1>2, <2>2, <2>3, <2>4, <2>5 DEF Next, Done
<1> QED BY <1>1, <1>2, LinkAlways, LinkTyped, PTL DEF Spec
=============================================================================
