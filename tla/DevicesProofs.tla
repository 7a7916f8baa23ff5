---------------------------- MODULE DevicesProofs ---------------------------
(***************************************************************************)
(* What the simulated devices promise, one after the other: the receiver,  *)
(* NmeaGenerator, for every set of constellations and every plan of a      *)
(* round, and the modem, AtCommands, for whatever numbers and names arrive *)
(* and however long the lines are.                                         *)
(***************************************************************************)
EXTENDS NmeaGenerator, AtCommands, SequenceTheorems, FiniteSetTheorems, WellFoundedInduction, TLAPS

(* A set of numbers has a least one; this is induction by a least counter-  *)
(* example. *)
LEMMA Minimum ==
  ASSUME NEW S \in SUBSET Nat, S # {}
  PROVE  \E m \in S : \A n \in S : m <= n
<1> DEFINE Below == {1..n : n \in S}
           R == StrictSubsetOrdering(Nat)
<1>1. Below \subseteq FiniteSubsetsOf(Nat) /\ Below # {}
  <2>1. \A n \in S : IsFiniteSet(1..n) /\ 1..n \in SUBSET Nat
    BY FS_Interval
  <2> QED BY <2>1 DEF FiniteSubsetsOf
<1>2. \E x \in Below : \A y \in Below : <<y, x>> \notin R
  <2>1. IsWellFoundedOn(R, FiniteSubsetsOf(Nat))
    BY FS_StrictSubsetOrderingWellFounded
  <2> HIDE DEF Below, R
  <2> QED BY <1>1, <2>1, WFMin
<1>3. PICK m \in S : \A n \in S : <<1..n, 1..m>> \notin R
  BY <1>2
<1>4. ASSUME NEW n \in S, n < m PROVE FALSE
  <2>1. 1..n \subseteq 1..m /\ m \in 1..m /\ m \notin 1..n
    BY <1>4
  <2>2. <<1..n, 1..m>> \in R
    BY <2>1 DEF StrictSubsetOrdering
  <2> QED BY <1>3, <2>2
<1> QED BY <1>3, <1>4

LEMMA SameLength ==
  ASSUME NEW m \in Nat, NEW n \in Nat, 1..m = 1..n
  PROVE  m = n
<1>1. ~(m > n) /\ ~(n > m)
  OBVIOUS
<1> QED BY <1>1

LEMMA GreatestPlace ==
  ASSUME NEW n \in Nat, NEW S \in SUBSET (1..n), S # {}
  PROVE  Max(S) \in S
<1> DEFINE Left == {n - j : j \in S}
<1>1. Left \in SUBSET Nat /\ Left # {}
  <2>1. \A j \in S : n - j \in Nat
    OBVIOUS
  <2> QED BY <2>1
<1>2. \E m \in Left : \A k \in Left : m <= k
  <2> HIDE DEF Left
  <2> QED BY <1>1, Minimum
<1>3. PICK x \in S : \A j \in S : n - x <= n - j
  BY <1>2
<1>4. \A j \in S : x >= j
  BY <1>3
<1> QED BY <1>3, <1>4 DEF Max

-----------------------------------------------------------------------------
(* The satellites of a talker and what the printers make of them. *)

LEMMA Constellation ==
  ASSUME NEW t \in Talkers
  PROVE  /\ InView(t) \in Nat /\ MaxCount[t] \in Nat /\ MaxCount[t] > 0 /\ InView(t) <= MaxCount[t]
         /\ Sats(t) = 1..InView(t) /\ \A j \in 1..InView(t) : Prns[t][j] \in Nat
<1>1. /\ MaxCount[t] \in Nat \ {0} /\ Prns[t] \in Seq(Nat \ {0}) /\ Len(Prns[t]) <= MaxCount[t]
  BY GroupAssumption
<1>2. /\ Len(Prns[t]) \in Nat /\ DOMAIN Prns[t] = 1..Len(Prns[t])
      /\ \A j \in 1..Len(Prns[t]) : Prns[t][j] \in Nat \ {0}
  BY <1>1, LenProperties
<1> QED BY <1>1, <1>2 DEF InView, Sats

(* The rows of a group, as long as the cursor stands among the satellites. *)
LEMMA RowIs ==
  ASSUME NEW t \in Talkers, NEW c \in Nat, c <= InView(t)
  PROVE  LET e == IF c + 4 <= InView(t) THEN c + 4 ELSE InView(t) IN
         /\ Row(t, c) \in Seq(Nat) /\ e \in Nat /\ c <= e /\ Len(Row(t, c)) = e - c
         /\ \A k \in 1..(e - c) : Row(t, c)[k] = Prns[t][c + k]
<1> DEFINE e == IF c + 4 <= InView(t) THEN c + 4 ELSE InView(t)
<1>1. InView(t) \in Nat /\ \A j \in 1..InView(t) : Prns[t][j] \in Nat
  BY Constellation
<1>2. e \in Nat /\ c <= e /\ e <= InView(t) /\ c + 1 \in Nat
  BY <1>1
<1>3. Row(t, c) = SubSeq(Prns[t], c + 1, e)
  BY DEF Row
<1> HIDE DEF e
<1>4. \A i \in (c + 1)..e : Prns[t][i] \in Nat
  <2>1. (c + 1)..e \subseteq 1..InView(t)
    BY <1>1, <1>2
  <2> QED BY <1>1, <2>1
<1>5. c + 1 \in Int /\ e \in Int
  BY <1>2
<1>6. /\ SubSeq(Prns[t], c + 1, e) \in Seq(Nat)
      /\ Len(SubSeq(Prns[t], c + 1, e)) = IF c + 1 <= e THEN e - (c + 1) + 1 ELSE 0
      /\ \A i \in 1..(e - (c + 1) + 1) : SubSeq(Prns[t], c + 1, e)[i] = Prns[t][(c + 1) + i - 1]
  BY <1>4, <1>5, SubSeqProperties
<1>7. Len(SubSeq(Prns[t], c + 1, e)) = e - c
  BY <1>2, <1>6
<1>8. \A i \in 1..(e - c) : SubSeq(Prns[t], c + 1, e)[i] = Prns[t][c + i]
  <2> TAKE i \in 1..(e - c)
  <2>1. i \in 1..(e - (c + 1) + 1) /\ (c + 1) + i - 1 = c + i
    BY <1>2
  <2> QED BY <1>6, <2>1
<1>9. Row(t, c) \in Seq(Nat)
  BY <1>3, <1>6
<1> QED BY <1>2, <1>3, <1>7, <1>8, <1>9 DEF e

LEMMA UsedIs ==
  ASSUME NEW t \in Talkers, NEW c \in Nat
  PROVE  /\ Used(t) \subseteq 1..InView(t) /\ track(t, c) \in SUBSET (1..InView(t))
         /\ IsFiniteSet(Used(t)) /\ IsFiniteSet(track(t, c))
<1>1. InView(t) \in Nat /\ Sats(t) = 1..InView(t)
  BY Constellation
<1>2. Used(t) \subseteq 1..InView(t) /\ track(t, c) \subseteq Used(t)
  BY <1>1 DEF Used, track
<1>3. IsFiniteSet(1..InView(t))
  BY <1>1, FS_Interval
<1> QED BY <1>2, <1>3, FS_Subset

LEMMA TrackEnd ==
  ASSUME NEW t \in Talkers, NEW c \in Nat, Cardinality(track(t, c)) = 12
  PROVE  Max(track(t, c)) \in 1..InView(t)
<1>1. /\ track(t, c) \in SUBSET (1..InView(t)) /\ IsFiniteSet(track(t, c))
      /\ InView(t) \in Nat
  BY UsedIs, Constellation
<1>2. track(t, c) # {}
  BY <1>1, FS_EmptySet
<1>3. Max(track(t, c)) \in track(t, c)
  BY <1>1, <1>2, GreatestPlace
<1> QED BY <1>1, <1>3

(* With at most twelve satellites a GSA has room for all that are used. *)
LEMMA TracksAll ==
  ASSUME NEW t \in Talkers, InView(t) <= 12
  PROVE  track(t, 0) = Used(t)
<1>1. /\ Used(t) \subseteq 1..InView(t) /\ IsFiniteSet(Used(t)) /\ InView(t) \in Nat
  <2>1. Used(t) \subseteq 1..InView(t) /\ IsFiniteSet(Used(t))
    BY UsedIs, 0 \in Nat
  <2>2. InView(t) \in Nat
    BY Constellation
  <2> QED BY <2>1, <2>2
<1>2. IsFiniteSet(1..InView(t)) /\ Cardinality(1..InView(t)) <= 12
  <2>1. 1 \in Int /\ InView(t) \in Int
    BY <1>1
  <2>2. /\ IsFiniteSet(1..InView(t))
        /\ Cardinality(1..InView(t)) = IF 1 > InView(t) THEN 0 ELSE InView(t) - 1 + 1
    BY <2>1, FS_Interval
  <2> QED BY <1>1, <2>2
<1>3. ASSUME NEW j \in Used(t)
      PROVE  Cardinality({i \in Used(t) : 0 < i /\ i <= j}) <= 12
  <2> DEFINE T == {i \in Used(t) : 0 < i /\ i <= j}
  <2>1. T \in SUBSET (1..InView(t))
    BY <1>1
  <2> HIDE DEF T
  <2>2. IsFiniteSet(T) /\ Cardinality(T) <= Cardinality(1..InView(t))
    BY <1>2, <2>1, FS_Subset
  <2>3. Cardinality(T) \in Nat /\ Cardinality(1..InView(t)) \in Nat
    BY <1>2, <2>2, FS_CardinalityType
  <2>4. Cardinality(T) <= 12
    BY <1>2, <2>2, <2>3
  <2> QED BY <2>4 DEF T
<1>4. \A j \in Used(t) : j > 0
  BY <1>1
<1> QED BY <1>3, <1>4 DEF track

LEMMA PlacesFinite == IsFiniteSet(Places)
<1> DEFINE Of(t) == {<<t, j>> : j \in Sats(t)}
           All == {Of(t) : t \in Talkers}
           f == [t \in Talkers |-> Of(t)]
<1>1. ASSUME NEW t \in Talkers PROVE IsFiniteSet(Of(t))
  <2> DEFINE g == [j \in Sats(t) |-> <<t, j>>]
  <2>1. IsFiniteSet(Sats(t))
    BY Constellation, FS_Interval
  <2>2. g \in Surjection(Sats(t), Of(t))
    BY DEF Surjection
  <2> HIDE DEF g, Of
  <2> QED BY <2>1, <2>2, FS_Surjection
<1>2. f \in Surjection(Talkers, All)
  <2> HIDE DEF Of
  <2> QED BY DEF Surjection
<1>3. IsFiniteSet(All)
  <2> HIDE DEF f, All
  <2> QED BY <1>2, GroupAssumption, FS_Surjection
<1>4. \A T \in All : IsFiniteSet(T)
  <2> HIDE DEF Of
  <2> QED BY <1>1
<1>5. IsFiniteSet(UNION All)
  <2> HIDE DEF All
  <2> QED BY <1>3, <1>4, FS_UNION
<1> QED BY <1>5 DEF Places

LEMMA SattTyped == satt \in Nat
<1>1. {p \in Places : p[2] \in Used(p[1])} \in SUBSET Places
  OBVIOUS
<1>2. IsFiniteSet({p \in Places : p[2] \in Used(p[1])})
  BY <1>1, PlacesFinite, FS_Subset
<1> QED BY <1>2, FS_CardinalityType DEF satt

(* The numbers of a group's sentences. *)
LEMMA NumberIs ==
  ASSUME NEW t \in Talkers, NEW m \in Nat, 4 * m <= InView(t)
  PROVE  curr(t, 4 * m) = m + 1
BY Constellation DEF curr, Quarters

LEMMA TotalTyped ==
  ASSUME NEW t \in Talkers
  PROVE  trow(t) \in Nat
BY Constellation DEF trow, Quarters

(* Where the printers of a row leave the cursor. *)
LEMMA RowEndIs ==
  ASSUME NEW t \in Talkers, NEW m \in Nat, 4 * m <= InView(t)
  PROVE  /\ RowEnd(t, 4 * m) \in Nat /\ RowEnd(t, 4 * m) <= MaxCount[t]
         /\ RowEnd(t, 4 * m) < MaxCount[t] =>
              RowEnd(t, 4 * m) = 4 * (m + 1) /\ 4 * (m + 1) <= InView(t)
BY Constellation DEF RowEnd

-----------------------------------------------------------------------------
(* Between two sentences: the group of a talker is not begun, or it lies in *)
(* one piece and is complete, or the next sentence goes on with it; then    *)
(* the cursor has passed four places for each sentence. *)
RowLine(t, i) == [kind |-> "GSV", talker |-> t, total |-> trow(t), number |-> i,
                  inView |-> InView(t), ids |-> Row(t, 4 * (i - 1))]
Lines(t, a, n) ==
  /\ a > 0 /\ GsvOf(t) = a..(a + n - 1)
  /\ \A i \in 1..n : out[a + i - 1] = RowLine(t, i)
Open(t) == again /\ Talker = t
ToGoOn(t, a, n) == /\ a + n - 1 = Len(out) /\ cursor[t] = 4 * n
                   /\ 4 * n < MaxCount[t] /\ 4 * n <= InView(t)
Ended(t, n) == RowEnd(t, 4 * (n - 1)) = MaxCount[t]
GroupLaid(t) ==
  \/ GsvOf(t) = {}
  \/ \E a \in Nat : \E n \in Nat :
       /\ n > 0 /\ Lines(t, a, n)
       /\ 4 * (n - 1) < MaxCount[t] /\ 4 * (n - 1) <= InView(t)
       /\ IF Open(t) THEN ToGoOn(t, a, n) ELSE Ended(t, n)

(* What a sentence says of the signals holds as long as the round lasts.    *)
Truthful(s) == /\ s.kind = "GGA" => s.used = satt
               /\ s.kind \in {"GSA", "QSA"} => s.sats = track(s.talker, 0)

(* The order of a round. *)
InRound ==
  /\ again => ~Sleeping /\ Kind = "GSV" /\ out # <<>>
  /\ out = <<>> => next = 1 \/ Sleeping
  /\ ~fixed => Sleeping /\ out = <<>>
Told ==
  \A t \in Talkers :
    /\ GsvOf(t) # {} <=> Sent("GSV", t) \/ Open(t)
    /\ \A k \in {"GSA", "QSA"} :
         Sent(k, t) => \E j \in DOMAIN out : out[j].kind = k /\ out[j].talker = t
Rounds ==
  /\ TypeOK /\ InRound /\ Told
  /\ \A t \in Talkers : GroupLaid(t)
  /\ \A i \in DOMAIN out : Truthful(out[i])

LEMMA OutIs ==
  ASSUME TypeOK
  PROVE  Len(out) \in Nat /\ DOMAIN out = 1..Len(out) /\ \A i \in 1..Len(out) : out[i] \in Sentence
BY LenProperties DEF TypeOK

LEMMA PlanIs ==
  /\ Len(Plan) \in Nat /\ DOMAIN Plan = 1..Len(Plan)
  /\ \A i \in 1..Len(Plan) : /\ Plan[i] = <<Plan[i][1], Plan[i][2]>>
                             /\ Plan[i][1] \in {"RMC", "GGA", "GST", "GSA", "QSA", "GSV"}
                             /\ Plan[i][1] \in {"GSA", "QSA", "GSV"} => Plan[i][2] \in Talkers
  /\ \A i, j \in 1..Len(Plan) : Plan[i] = Plan[j] => i = j
<1>1. Len(Plan) \in Nat /\ DOMAIN Plan = 1..Len(Plan)
  BY PlanAssumption, LenProperties
<1>2. \A i \in 1..Len(Plan) : Plan[i] \in {"RMC", "GGA", "GST", "GSA", "QSA", "GSV"} \X STRING
  BY PlanAssumption, LenProperties
<1>3. \A i \in 1..Len(Plan) : /\ Plan[i] = <<Plan[i][1], Plan[i][2]>>
                              /\ Plan[i][1] \in {"RMC", "GGA", "GST", "GSA", "QSA", "GSV"}
  BY <1>2
<1> QED BY <1>1, <1>3, PlanAssumption

LEMMA OutEmpty ==
  ASSUME out = <<>>
  PROVE  /\ DOMAIN out = {}
         /\ \A t : GsvOf(t) = {} /\ \A k : ~Sent(k, t)
<1>1. DOMAIN out = {}
  BY EmptySeq
<1> QED BY <1>1 DEF GsvOf, Sent

LEMMA NextIs ==
  ASSUME Rounds, ~Sleeping
  PROVE  /\ next \in 1..Len(Plan)
         /\ Plan[next] = <<Kind, Talker>> /\ Kind \in {"RMC", "GGA", "GST", "GSA", "QSA", "GSV"}
         /\ HasGroup => Talker \in Talkers
<1>1. next \in 1..Len(Plan)
  BY PlanIs DEF Rounds, TypeOK, Sleeping
<1> QED BY <1>1, PlanIs DEF Kind, Talker, HasGroup

(* Where the cursor stands before a sentence of a GSV group, and what there *)
(* is of the group. *)
LEMMA BeforeRow ==
  ASSUME Rounds, ~Sleeping, Kind = "GSV"
  PROVE  /\ Talker \in Talkers
         /\ \E a \in Nat : \E m \in Nat :
              /\ Lines(Talker, a, m) /\ a + m - 1 = Len(out)
              /\ From = 4 * m /\ 4 * m < MaxCount[Talker] /\ 4 * m <= InView(Talker)
<1>1. Talker \in Talkers
  BY NextIs DEF HasGroup
<1>2. CASE again
  <2>1. Open(Talker)
    BY <1>2 DEF Open
  <2>2. GsvOf(Talker) # {}
    BY <1>1, <2>1 DEF Rounds, Told
  <2>3. PICK a \in Nat, n \in Nat : Lines(Talker, a, n) /\ ToGoOn(Talker, a, n)
    BY <1>1, <2>1, <2>2 DEF Rounds, GroupLaid
  <2>4. From = 4 * n
    BY <1>2, <2>3 DEF From, ToGoOn
  <2> QED BY <1>1, <2>3, <2>4 DEF ToGoOn
<1>3. CASE ~again
  <2>1. ~Open(Talker) /\ From = 0
    BY <1>3 DEF Open, From
  <2>2. ~Sent("GSV", Talker)
    <3>1. next \in 1..Len(Plan) /\ Plan[next] = <<"GSV", Talker>>
      BY NextIs
    <3>2. ASSUME NEW i \in 1..(next - 1), Plan[i] = <<"GSV", Talker>> PROVE FALSE
      <4>1. i \in 1..Len(Plan) /\ i # next
        BY <3>1, PlanIs
      <4> QED BY <3>1, <3>2, <4>1, PlanIs
    <3> QED BY <3>2 DEF Sent
  <2>3. GsvOf(Talker) = {}
    BY <1>1, <2>1, <2>2 DEF Rounds, Told
  <2>4. Len(out) \in Nat
    BY OutIs DEF Rounds
  <2>5. Lines(Talker, Len(out) + 1, 0)
    BY <2>3, <2>4 DEF Lines
  <2>6. InView(Talker) \in Nat /\ MaxCount[Talker] > 0
    BY <1>1, Constellation
  <2> QED BY <1>1, <2>1, <2>4, <2>5, <2>6
<1> QED BY <1>2, <1>3

LEMMA ContentIs ==
  ASSUME Rounds, ~Sleeping
  PROVE  /\ Content \in Sentence /\ Content.kind = Kind /\ Truthful(Content)
         /\ HasGroup => Content.talker = Talker
<1>1. Kind \in {"RMC", "GGA", "GST", "GSA", "QSA", "GSV"} /\ (HasGroup => Talker \in Talkers)
  BY NextIs
<1>2. CASE Kind = "GSV"
  <2>1. PICK m \in Nat : From = 4 * m /\ 4 * m <= InView(Talker)
    BY <1>2, BeforeRow
  <2>2. Talker \in Talkers /\ trow(Talker) \in Nat /\ InView(Talker) \in Nat
    BY <1>1, <1>2, TotalTyped, Constellation DEF HasGroup
  <2>3. curr(Talker, From) \in Nat
    BY <2>1, <2>2, NumberIs
  <2>4. Row(Talker, From) \in Seq(Nat)
    BY <2>1, <2>2, RowIs
  <2> QED BY <1>2, <2>2, <2>3, <2>4 DEF Content, Sentence, Truthful
<1>3. CASE Kind \in {"GSA", "QSA"}
  <2>1. HasGroup /\ Talker \in Talkers
    BY <1>1, <1>3 DEF HasGroup
  <2>2. From = 0
    BY <1>3 DEF Rounds, InRound, From
  <2>3. track(Talker, 0) \in SUBSET (1..InView(Talker))
    BY <2>1, UsedIs
  <2>4. track(Talker, 0) \in SUBSET Nat
    BY <2>3
  <2>5. Content = [kind |-> Kind, talker |-> Talker, sats |-> track(Talker, 0)]
    BY <1>3, <2>1, <2>2 DEF Content
  <2> QED BY <1>3, <2>1, <2>4, <2>5 DEF Sentence, Truthful
<1>4. CASE Kind = "GGA"
  BY <1>4, SattTyped DEF Content, HasGroup, Sentence, Truthful
<1>5. CASE Kind \in {"RMC", "GST"}
  BY <1>5 DEF Content, HasGroup, Sentence, Truthful
<1> QED BY <1>1, <1>2, <1>3, <1>4, <1>5

LEMMA AfterIs ==
  ASSUME Rounds, ~Sleeping, HasGroup
  PROVE  After \in Nat /\ After <= MaxCount[Talker]
<1>1. Talker \in Talkers
  BY NextIs
<1>2. InView(Talker) \in Nat /\ MaxCount[Talker] \in Nat /\ InView(Talker) <= MaxCount[Talker]
  BY <1>1, Constellation
<1>3. CASE Kind = "GSV"
  <2>1. PICK m \in Nat : From = 4 * m /\ 4 * m <= InView(Talker)
    BY <1>3, BeforeRow
  <2>2. RowEnd(Talker, From) \in Nat /\ RowEnd(Talker, From) <= MaxCount[Talker]
    BY <1>1, <2>1, RowEndIs
  <2> QED BY <1>3, <2>2 DEF After
<1>4. CASE Kind # "GSV"
  <2>1. From = 0
    BY <1>4 DEF Rounds, InRound, From
  <2>2. CASE Cardinality(track(Talker, 0)) = 12
    <3>1. Max(track(Talker, 0)) \in 1..InView(Talker)
      BY <1>1, <2>2, TrackEnd
    <3>2. After = Max(track(Talker, 0))
      BY <1>4, <2>1, <2>2 DEF After
    <3> QED BY <1>2, <3>1, <3>2
  <2>3. CASE Cardinality(track(Talker, 0)) # 12
    BY <1>2, <1>4, <2>1, <2>3 DEF After
  <2> QED BY <2>2, <2>3
<1> QED BY <1>3, <1>4

LEMMA CursorKept ==
  ASSUME Rounds, ~Sleeping, MoveCursor
  PROVE  cursor' \in [Talkers -> Nat] /\ \A t \in Talkers : cursor'[t] <= MaxCount[t]
<1>1. cursor \in [Talkers -> Nat] /\ \A t \in Talkers : cursor[t] <= MaxCount[t]
  BY DEF Rounds, TypeOK
<1>2. CASE HasGroup
  <2>1. cursor' = [cursor EXCEPT ![Talker] = After]
    BY <1>2 DEF MoveCursor
  <2>2. After \in Nat /\ After <= MaxCount[Talker]
    BY <1>2, AfterIs
  <2> QED BY <1>1, <2>1, <2>2
<1>3. CASE ~HasGroup
  BY <1>1, <1>3 DEF MoveCursor
<1> QED BY <1>2, <1>3

-----------------------------------------------------------------------------
(* One more sentence. *)

LEMMA OutSent ==
  ASSUME Rounds, Send
  PROVE  /\ Len(out') = Len(out) + 1 /\ out' # <<>> /\ out' \in Seq(Sentence)
         /\ DOMAIN out' = 1..(Len(out) + 1)
         /\ out'[Len(out) + 1] = Content /\ \A i \in 1..Len(out) : out'[i] = out[i]
<1>1. out' = Append(out, Content) /\ Content \in Sentence /\ out \in Seq(Sentence)
  BY ContentIs DEF Send, Rounds, TypeOK
<1>2. /\ Append(out, Content) \in Seq(Sentence) /\ Append(out, Content) # <<>>
      /\ Len(Append(out, Content)) = Len(out) + 1
      /\ \A i \in 1..Len(out) : Append(out, Content)[i] = out[i]
      /\ Append(out, Content)[Len(out) + 1] = Content
  BY <1>1, AppendProperties
<1>3. DOMAIN Append(out, Content) = 1..Len(Append(out, Content))
  BY <1>2, LenProperties
<1> QED BY <1>1, <1>2, <1>3

LEMMA GsvSent ==
  ASSUME Rounds, Send, NEW t \in Talkers
  PROVE  GsvOf(t)' = IF Kind = "GSV" /\ Talker = t THEN GsvOf(t) \cup {Len(out) + 1} ELSE GsvOf(t)
<1>1. /\ Len(out) \in Nat /\ DOMAIN out = 1..Len(out) /\ DOMAIN out' = 1..(Len(out) + 1)
      /\ \A i \in 1..Len(out) : out'[i] = out[i]
  BY OutIs, OutSent DEF Rounds
<1>2. /\ out'[Len(out) + 1].kind = Kind
      /\ Kind = "GSV" => out'[Len(out) + 1].talker = Talker
  BY OutSent, ContentIs DEF Send, HasGroup
<1>3. DOMAIN out' = DOMAIN out \cup {Len(out) + 1} /\ Len(out) + 1 \notin DOMAIN out
  BY <1>1
<1>4. \A i \in DOMAIN out : out'[i] = out[i]
  BY <1>1
<1> QED BY <1>2, <1>3, <1>4 DEF GsvOf

LEMMA LinesKept ==
  ASSUME Rounds, Send, NEW t \in Talkers, NEW a \in Nat, NEW n \in Nat, Lines(t, a, n)
  PROVE  \A i \in 1..n : out'[a + i - 1] = RowLine(t, i)'
<1> TAKE i \in 1..n
<1>1. a + i - 1 \in a..(a + n - 1)
  OBVIOUS
<1>2. a + i - 1 \in 1..Len(out)
  BY <1>1, OutIs DEF Lines, GsvOf, Rounds
<1>3. out'[a + i - 1] = out[a + i - 1]
  BY <1>2, OutSent
<1>4. RowLine(t, i)' = RowLine(t, i)
  BY DEF RowLine
<1> QED BY <1>3, <1>4 DEF Lines

LEMMA RowAdded ==
  ASSUME Rounds, Send, NEW t \in Talkers, Kind = "GSV", Talker = t
  PROVE  GroupLaid(t)'
<1>1. t \in Talkers /\ ~Sleeping
  BY DEF Send
<1>2. PICK a \in Nat, m \in Nat :
        /\ Lines(t, a, m) /\ a + m - 1 = Len(out)
        /\ From = 4 * m /\ 4 * m < MaxCount[t] /\ 4 * m <= InView(t)
  BY BeforeRow DEF Send
<1>3. /\ again' = (After < MaxCount[t]) /\ next' = (IF again' THEN next ELSE next + 1)
      /\ cursor' = [cursor EXCEPT ![t] = After]
      /\ cursor \in [Talkers -> Nat]
  BY DEF Send, MoveCursor, HasGroup, Rounds, TypeOK
<1>4. After = RowEnd(t, 4 * m)
  BY <1>2 DEF After
<1>5. /\ RowEnd(t, 4 * m) \in Nat /\ RowEnd(t, 4 * m) <= MaxCount[t] /\ MaxCount[t] \in Nat
      /\ RowEnd(t, 4 * m) < MaxCount[t] =>
           RowEnd(t, 4 * m) = 4 * (m + 1) /\ 4 * (m + 1) <= InView(t)
  BY <1>1, <1>2, RowEndIs, Constellation
<1> DEFINE n == m + 1
<1>6. n \in Nat /\ n > 0 /\ 4 * (n - 1) = 4 * m /\ a + n - 1 = Len(out) + 1
  BY <1>2
<1>7. GsvOf(t)' = a..(a + n - 1)
  <2>1. GsvOf(t)' = GsvOf(t) \cup {Len(out) + 1}
    BY <1>1, GsvSent
  <2>2. GsvOf(t) = a..(a + m - 1)
    BY <1>2 DEF Lines
  <2>3. a + n - 1 = (a + m - 1) + 1 /\ a <= a + n - 1 /\ a + m - 1 = Len(out)
    BY <1>2, <1>6
  <2> QED BY <2>1, <2>2, <2>3
<1>8. \A i \in 1..n : out'[a + i - 1] = RowLine(t, i)'
  <2>1. \A i \in 1..m : out'[a + i - 1] = RowLine(t, i)'
    BY <1>1, <1>2, LinesKept
  <2>2. out'[a + n - 1] = RowLine(t, n)
    <3>1. out'[a + n - 1] = Content
      BY <1>6, OutSent
    <3>2. curr(t, 4 * m) = m + 1
      BY <1>1, <1>2, NumberIs
    <3>3. Content = [kind |-> "GSV", talker |-> t, total |-> trow(t), number |-> curr(t, 4 * m),
                     inView |-> InView(t), ids |-> Row(t, 4 * m)]
      BY <1>2 DEF Content
    <3>4. RowLine(t, n) = [kind |-> "GSV", talker |-> t, total |-> trow(t), number |-> m + 1,
                        inView |-> InView(t), ids |-> Row(t, 4 * m)]
      BY <1>6 DEF RowLine
    <3> QED BY <3>1, <3>2, <3>3, <3>4
  <2>3. RowLine(t, n)' = RowLine(t, n)
    BY DEF RowLine
  <2>4. \A i \in 1..n : i \in 1..m \/ i = n
    BY <1>6
  <2> QED BY <2>1, <2>2, <2>3, <2>4
<1>9. Lines(t, a, n)'
  <2>1. a > 0
    BY <1>2 DEF Lines
  <2> HIDE DEF n
  <2> QED BY <1>7, <1>8, <2>1 DEF Lines
<1>10. IF Open(t)' THEN ToGoOn(t, a, n)' ELSE Ended(t, n)
  <2>1. CASE After < MaxCount[t]
    <3>1. Talker' = t /\ again'
      BY <1>3, <2>1 DEF Talker
    <3>2. cursor'[t] = 4 * n /\ 4 * n < MaxCount[t] /\ 4 * n <= InView(t)
      BY <1>1, <1>3, <1>4, <1>5, <2>1
    <3>3. a + n - 1 = Len(out')
      BY <1>6, OutSent
    <3> HIDE DEF n
    <3> QED BY <3>1, <3>2, <3>3 DEF Open, ToGoOn
  <2>2. CASE ~(After < MaxCount[t])
    <3>1. ~Open(t)'
      BY <1>3, <2>2 DEF Open
    <3>2. RowEnd(t, 4 * m) = MaxCount[t]
      BY <1>4, <1>5, <2>2
    <3> QED BY <1>6, <3>1, <3>2 DEF Ended
  <2> QED BY <2>1, <2>2
<1>11. 4 * (n - 1) < MaxCount[t] /\ 4 * (n - 1) <= InView(t)
  BY <1>2, <1>6
<1> HIDE DEF n
<1> QED BY <1>6, <1>9, <1>10, <1>11 DEF GroupLaid, Ended, RowEnd, InView

LEMMA OtherGroupKept ==
  ASSUME Rounds, Send, NEW t \in Talkers, ~(Kind = "GSV" /\ Talker = t)
  PROVE  GroupLaid(t)'
<1>1. GsvOf(t)' = GsvOf(t)
  BY GsvSent
<1>2. ~Open(t) /\ ~Open(t)'
  <2>1. again' => Kind = "GSV" /\ next' = next
    BY DEF Send
  <2>2. again' => Talker' = Talker
    BY <2>1 DEF Talker
  <2> QED BY <2>1, <2>2 DEF Open, Rounds, InRound
<1>3. CASE GsvOf(t) = {}
  BY <1>1, <1>3 DEF GroupLaid
<1>4. CASE GsvOf(t) # {}
  <2>1. PICK a \in Nat, n \in Nat :
          /\ n > 0 /\ Lines(t, a, n) /\ Ended(t, n)
          /\ 4 * (n - 1) < MaxCount[t] /\ 4 * (n - 1) <= InView(t)
    BY <1>2, <1>4 DEF Rounds, GroupLaid
  <2>2. \A i \in 1..n : out'[a + i - 1] = RowLine(t, i)'
    BY <2>1, LinesKept
  <2>3. Lines(t, a, n)'
    BY <1>1, <2>1, <2>2 DEF Lines
  <2>4. Ended(t, n)' /\ InView(t)' = InView(t)
    BY <2>1 DEF Ended, RowEnd, InView
  <2> QED BY <1>2, <2>1, <2>3, <2>4 DEF GroupLaid
<1> QED BY <1>3, <1>4

LEMMA SentNext ==
  ASSUME Rounds, Send, NEW k, NEW t
  PROVE  Sent(k, t)' <=> Sent(k, t) \/ (Kind = k /\ Talker = t /\ ~again')
<1>1. next \in 1..Len(Plan) /\ Plan[next] = <<Kind, Talker>> /\ Len(Plan) \in Nat
  BY NextIs, PlanIs DEF Send
<1>2. out' # <<>> /\ next' = IF again' THEN next ELSE next + 1
  BY OutSent DEF Send
<1>3. out = <<>> => 1..(next - 1) = {}
  BY <1>1 DEF Send, Rounds, InRound
<1>4. Sent(k, t) <=> \E i \in 1..(next - 1) : Plan[i] = <<k, t>>
  BY <1>3 DEF Sent
<1>5. Sent(k, t)' <=> \E i \in 1..(next' - 1) : Plan[i] = <<k, t>>
  BY <1>2 DEF Sent
<1>6. CASE again'
  BY <1>2, <1>4, <1>5, <1>6
<1>7. CASE ~again'
  <2>1. 1..(next' - 1) = 1..(next - 1) \cup {next}
    BY <1>1, <1>2, <1>7
  <2>2. Plan[next] = <<k, t>> <=> Kind = k /\ Talker = t
    BY <1>1
  <2> QED BY <1>4, <1>5, <1>7, <2>1, <2>2
<1> QED BY <1>6, <1>7

LEMMA ToldKept ==
  ASSUME Rounds, Send
  PROVE  Told'
<1> SUFFICES ASSUME NEW t \in Talkers
    PROVE  /\ GsvOf(t)' # {} <=> Sent("GSV", t)' \/ Open(t)'
           /\ \A k \in {"GSA", "QSA"} :
                Sent(k, t)' => \E j \in DOMAIN out' : out'[j].kind = k /\ out'[j].talker = t
  BY DEF Told
<1>1. again' => Kind = "GSV" /\ Talker' = Talker
  BY DEF Send, Talker
<1>2. GsvOf(t) # {} <=> Sent("GSV", t) \/ Open(t)
  BY DEF Rounds, Told
<1>3. Open(t) => Kind = "GSV" /\ Talker = t
  BY DEF Open, Rounds, InRound
<1>4. GsvOf(t)' # {} <=> Sent("GSV", t)' \/ Open(t)'
  <2>1. GsvOf(t)' # {} <=> GsvOf(t) # {} \/ (Kind = "GSV" /\ Talker = t)
    BY GsvSent
  <2>2. Sent("GSV", t)' <=> Sent("GSV", t) \/ (Kind = "GSV" /\ Talker = t /\ ~again')
    BY SentNext
  <2>3. Open(t)' <=> again' /\ Talker = t
    BY <1>1 DEF Open
  <2> QED BY <1>1, <1>2, <1>3, <2>1, <2>2, <2>3
<1>5. ASSUME NEW k \in {"GSA", "QSA"}, Sent(k, t)'
      PROVE  \E j \in DOMAIN out' : out'[j].kind = k /\ out'[j].talker = t
  <2>1. /\ Len(out) \in Nat /\ DOMAIN out = 1..Len(out) /\ DOMAIN out' = 1..(Len(out) + 1)
        /\ \A i \in 1..Len(out) : out'[i] = out[i]
    BY OutIs, OutSent DEF Rounds
  <2>2. CASE Sent(k, t)
    <3>1. PICK j \in DOMAIN out : out[j].kind = k /\ out[j].talker = t
      BY <2>2 DEF Rounds, Told
    <3>2. j \in DOMAIN out' /\ out'[j] = out[j]
      BY <2>1
    <3> QED BY <3>1, <3>2
  <2>3. CASE Kind = k /\ Talker = t
    <3>1. HasGroup
      BY <2>3 DEF HasGroup
    <3>2. Content.kind = k /\ Content.talker = t
      BY <2>3, <3>1, ContentIs DEF Send
    <3>3. Len(out) + 1 \in DOMAIN out' /\ out'[Len(out) + 1] = Content
      BY <2>1, OutSent
    <3> QED BY <3>2, <3>3
  <2> QED BY <1>5, <2>2, <2>3, SentNext
<1> QED BY <1>4, <1>5

LEMMA TruthKept ==
  ASSUME Rounds, Send
  PROVE  \A i \in DOMAIN out' : Truthful(out[i])'
<1>1. snr' = snr
  BY DEF Send
<1>2. satt' = satt /\ \A t : track(t, 0)' = track(t, 0)
  BY <1>1 DEF satt, track, Used
<1>3. Len(out) \in Nat /\ DOMAIN out = 1..Len(out)
  BY OutIs DEF Rounds
<1>4. DOMAIN out' = 1..(Len(out) + 1) /\ out'[Len(out) + 1] = Content
  BY OutSent
<1>5. \A i \in 1..Len(out) : out'[i] = out[i]
  BY OutSent
<1>6. Truthful(Content)
  BY ContentIs DEF Send
<1> TAKE i \in DOMAIN out'
<1>7. i \in 1..Len(out) \/ i = Len(out) + 1
  BY <1>3, <1>4
<1>8. Truthful(out'[i])
  BY <1>3, <1>4, <1>5, <1>6, <1>7 DEF Rounds
<1> QED BY <1>1, <1>2, <1>8 DEF Truthful, track, Used

LEMMA SendKeeps ==
  ASSUME Rounds, Send
  PROVE  Rounds'
<1>1. next \in 1..Len(Plan) /\ Len(Plan) \in Nat
  BY NextIs, PlanIs DEF Send
<1>2. out' # <<>> /\ out' \in Seq(Sentence)
  BY OutSent
<1>3. next' = (IF again' THEN next ELSE next + 1) /\ again' \in BOOLEAN
  BY DEF Send
<1>4. TypeOK'
  <2>1. cursor' \in [Talkers -> Nat] /\ \A t \in Talkers : cursor'[t] <= MaxCount[t]
    BY CursorKept DEF Send
  <2>2. next' \in 1..(Len(Plan) + 1)
    BY <1>1, <1>3
  <2>3. fixed' = fixed /\ snr' = snr
    BY DEF Send
  <2> QED BY <1>2, <1>3, <2>1, <2>2, <2>3 DEF Rounds, TypeOK
<1>5. InRound'
  <2>1. again' => Kind = "GSV" /\ next' = next
    BY DEF Send
  <2>2. again' => Kind' = "GSV" /\ ~Sleeping'
    BY <1>1, <2>1 DEF Kind, Sleeping
  <2>3. fixed'
    BY DEF Send, Rounds, InRound
  <2> QED BY <1>2, <2>2, <2>3 DEF InRound
<1>6. \A t \in Talkers : GroupLaid(t)'
  BY RowAdded, OtherGroupKept
<1> QED BY <1>4, <1>5, <1>6, ToldKept, TruthKept DEF Rounds

-----------------------------------------------------------------------------
(* A round that ends early, and a new one. *)

(* Before a round has sent anything nothing is owed. *)
LEMMA EmptyRound == TypeOK /\ InRound /\ out = <<>> => Rounds
<1> SUFFICES ASSUME TypeOK, InRound, out = <<>> PROVE Rounds
  OBVIOUS
<1>1. DOMAIN out = {} /\ \A t : GsvOf(t) = {} /\ \A k : ~Sent(k, t)
  BY OutEmpty
<1>2. \A t : ~Open(t)
  BY DEF InRound, Open
<1> QED BY <1>1, <1>2 DEF Rounds, Told, GroupLaid

LEMMA EmptyRoundNext == (TypeOK /\ InRound /\ out = <<>>)' => Rounds'
BY EmptyRound, PTL

LEMMA ShortKeeps ==
  ASSUME Rounds, ShortWrite
  PROVE  TypeOK' /\ InRound' /\ out' = <<>>
<1>1. cursor' \in [Talkers -> Nat] /\ \A t \in Talkers : cursor'[t] <= MaxCount[t]
  BY CursorKept DEF ShortWrite
<1>2. Len(Plan) + 1 \in 1..(Len(Plan) + 1)
  BY PlanIs
<1>3. <<>> \in Seq(Sentence)
  BY EmptySeq
<1>4. TypeOK'
  BY <1>1, <1>2, <1>3 DEF ShortWrite, Rounds, TypeOK
<1> QED BY <1>4 DEF ShortWrite, InRound, Sleeping

LEMMA SignalsTyped ==
  ASSUME TypeOK, Fetch
  PROVE  snr' \in [Talkers -> Seq(0..TopSnr)] /\ \A t \in Talkers : Len(snr'[t]) = Len(Prns[t])
<1>1. PICK C \in SUBSET Places : \E to \in [C -> 0..TopSnr] :
        snr' = [t \in Talkers |->
                  [j \in Sats(t) |-> IF <<t, j>> \in C THEN to[<<t, j>>] ELSE snr[t][j]]]
  BY DEF Fetch
<1>2. PICK to \in [C -> 0..TopSnr] :
        snr' = [t \in Talkers |->
                  [j \in Sats(t) |-> IF <<t, j>> \in C THEN to[<<t, j>>] ELSE snr[t][j]]]
  BY <1>1
<1>3. ASSUME NEW t \in Talkers
      PROVE  snr'[t] \in Seq(0..TopSnr) /\ Len(snr'[t]) = Len(Prns[t])
  <2> DEFINE n == Len(Prns[t])
             f == [j \in 1..n |-> IF <<t, j>> \in C THEN to[<<t, j>>] ELSE snr[t][j]]
  <2>1. n \in Nat /\ Sats(t) = 1..n
    BY Constellation DEF InView
  <2>2. snr[t] \in Seq(0..TopSnr) /\ Len(snr[t]) = n
    BY DEF TypeOK
  <2>3. \A j \in 1..n : snr[t][j] \in 0..TopSnr
    BY <2>2, ElementOfSeq
  <2>4. snr'[t] = f
    BY <1>2, <2>1
  <2>5. f \in [1..n -> 0..TopSnr]
    <3> HIDE DEF n
    <3> QED BY <2>3
  <2> HIDE DEF f, n
  <2>6. f \in Seq(0..TopSnr)
    BY <2>1, <2>5, SeqDef
  <2>7. Len(f) \in Nat /\ DOMAIN f = 1..Len(f) /\ DOMAIN f = 1..n
    BY <2>5, <2>6, LenProperties
  <2>8. Len(f) = n
    BY <2>1, <2>7, SameLength
  <2> QED BY <2>4, <2>6, <2>8 DEF n
<1>4. snr' = [t \in Talkers |-> snr'[t]]
  BY <1>2
<1> QED BY <1>3, <1>4

LEMMA TimerKeeps ==
  ASSUME Rounds, TimerFires
  PROVE  TypeOK' /\ InRound' /\ out' = <<>>
<1>1. snr' \in [Talkers -> Seq(0..TopSnr)] /\ \A t \in Talkers : Len(snr'[t]) = Len(Prns[t])
  BY SignalsTyped DEF TimerFires, Rounds
<1>2. /\ ~again /\ again' = again /\ cursor' = cursor /\ fixed'
      /\ ~fixed => Sleeping /\ out = <<>>
  BY DEF TimerFires, Rounds, InRound
<1>3. out' = <<>> /\ (next' = 1 \/ (next' = next /\ Sleeping))
  BY <1>2 DEF TimerFires
<1>4. 1 \in 1..(Len(Plan) + 1) /\ <<>> \in Seq(Sentence)
  BY PlanIs, EmptySeq
<1>5. TypeOK'
  BY <1>1, <1>2, <1>3, <1>4 DEF Rounds, TypeOK
<1> QED BY <1>2, <1>3, <1>5 DEF InRound, Sleeping

LEMMA RoundsInit == Init => Rounds
<1> SUFFICES ASSUME Init PROVE Rounds
  OBVIOUS
<1>1. Len(Plan) + 1 \in 1..(Len(Plan) + 1) /\ <<>> \in Seq(Sentence)
  BY PlanIs, EmptySeq
<1>2. \A t \in Talkers : MaxCount[t] \in Nat /\ 0 <= MaxCount[t]
  BY Constellation
<1>3. TypeOK
  BY <1>1, <1>2, SnrAssumption DEF Init, TypeOK
<1>4. InRound /\ out = <<>>
  BY DEF Init, InRound, Sleeping
<1> QED BY <1>3, <1>4, EmptyRound

LEMMA RoundsStep == Rounds /\ [Next]_vars => Rounds'
<1> SUFFICES ASSUME Rounds, [Next]_vars PROVE Rounds'
  OBVIOUS
<1>2. CASE TimerFires
  BY <1>2, TimerKeeps, EmptyRoundNext
<1>3. CASE Send
  BY <1>3, SendKeeps
<1>4. CASE ShortWrite
  BY <1>4, ShortKeeps, EmptyRoundNext
<1>5. CASE UNCHANGED vars
  <2>1. /\ fixed' = fixed /\ snr' = snr /\ cursor' = cursor /\ again' = again
        /\ next' = next /\ out' = out
    BY <1>5 DEF vars
  <2>2. TypeOK' /\ InRound'
    BY <2>1 DEF Rounds, TypeOK, InRound, Sleeping, Kind
  <2>3. Talker' = Talker /\ satt' = satt
    BY <2>1 DEF Talker, satt, Used
  <2>4. \A t : /\ GsvOf(t)' = GsvOf(t) /\ Open(t)' = Open(t)
               /\ \A k : Sent(k, t)' = Sent(k, t)
    BY <2>1, <2>3 DEF GsvOf, Open, Sent
  <2>5. Told'
    BY <2>1, <2>4 DEF Rounds, Told
  <2>6. ASSUME NEW t \in Talkers PROVE GroupLaid(t)'
    <3>1. \A i : RowLine(t, i)' = RowLine(t, i)
      BY DEF RowLine
    <3>2. \A a, n : /\ Lines(t, a, n)' = Lines(t, a, n) /\ ToGoOn(t, a, n)' = ToGoOn(t, a, n)
                    /\ Ended(t, n)' = Ended(t, n)
      BY <2>1, <2>4, <3>1 DEF Lines, ToGoOn, Ended, RowEnd, InView
    <3>3. GroupLaid(t)
      BY DEF Rounds
    <3> QED BY <2>4, <3>2, <3>3 DEF GroupLaid, InView
  <2>7. \A i \in DOMAIN out' : Truthful(out[i])'
    BY <2>1, <2>3 DEF Rounds, Truthful, track, Used
  <2> QED BY <2>2, <2>5, <2>6, <2>7 DEF Rounds
<1> QED BY <1>2, <1>3, <1>4, <1>5 DEF Next

-----------------------------------------------------------------------------
(* What the sentences of a group list, one behind the other. *)

(* The recursion of FlattenSeq, up to the n-th sequence. *)
Flattens(f, s, n) == f = [i \in 1..n |-> IF i = 1 THEN s[i] ELSE f[i - 1] \o s[i]]

LEMMA FlattensExists ==
  ASSUME NEW s, NEW N \in Nat
  PROVE  \E f : Flattens(f, s, N)
<1> DEFINE Without == {n \in Nat : ~ \E f : Flattens(f, s, n)}
<1>1. SUFFICES ASSUME Without # {} PROVE FALSE
  OBVIOUS
<1>2. PICK m \in Without : \A n \in Without : m <= n
  <2>1. Without \in SUBSET Nat
    OBVIOUS
  <2> HIDE DEF Without
  <2> QED BY <1>1, <2>1, Minimum
<1>3. m # 0
  <2> DEFINE e == [i \in 1..0 |-> s[i]]
  <2>1. e = [i \in 1..0 |-> IF i = 1 THEN s[i] ELSE e[i - 1] \o s[i]]
    OBVIOUS
  <2>2. Flattens(e, s, 0)
    BY <2>1 DEF Flattens
  <2> QED BY <2>2
<1>4. m \in Nat /\ m - 1 \in Nat /\ m - 1 \notin Without
  BY <1>2, <1>3
<1>5. PICK f : Flattens(f, s, m - 1)
  BY <1>4
<1> DEFINE g == [i \in 1..m |-> IF i < m THEN f[i] ELSE IF i = 1 THEN s[i] ELSE f[i - 1] \o s[i]]
           h == [i \in 1..m |-> IF i = 1 THEN s[i] ELSE g[i - 1] \o s[i]]
<1>6. ASSUME NEW i \in 1..m PROVE g[i] = IF i = 1 THEN s[i] ELSE g[i - 1] \o s[i]
  <2>1. i # 1 => i - 1 \in 1..m /\ i - 1 < m
    BY <1>4
  <2>2. i # 1 => g[i - 1] = f[i - 1]
    BY <2>1
  <2>3. CASE i < m
    <3>1. i \in 1..(m - 1)
      BY <1>4, <2>3
    <3>2. f[i] = IF i = 1 THEN s[i] ELSE f[i - 1] \o s[i]
      BY <1>5, <3>1 DEF Flattens
    <3>3. g[i] = f[i]
      BY <2>3
    <3> HIDE DEF g
    <3> QED BY <2>2, <3>2, <3>3
  <2>4. CASE ~(i < m)
    <3>1. g[i] = IF i = 1 THEN s[i] ELSE f[i - 1] \o s[i]
      BY <2>4
    <3> HIDE DEF g
    <3> QED BY <2>2, <3>1
  <2> QED BY <2>3, <2>4
<1>7. g = h
  <2>1. ASSUME NEW i \in 1..m PROVE g[i] = h[i]
    <3>1. h[i] = IF i = 1 THEN s[i] ELSE g[i - 1] \o s[i]
      <4> HIDE DEF g
      <4> QED OBVIOUS
    <3> HIDE DEF g, h
    <3> QED BY <1>6, <3>1
  <2>2. g = [i \in 1..m |-> g[i]] /\ h = [i \in 1..m |-> h[i]]
    OBVIOUS
  <2> HIDE DEF g, h
  <2> QED BY <2>1, <2>2
<1>8. Flattens(g, s, m)
  BY <1>7 DEF Flattens
<1> QED BY <1>2, <1>8

LEMMA FlattenSeqIs ==
  ASSUME NEW s, Len(s) \in Nat
  PROVE  /\ Len(s) = 0 => FlattenSeq(s) = s
         /\ Len(s) # 0 => \E f : Flattens(f, s, Len(s)) /\ FlattenSeq(s) = f[Len(s)]
<1>1. PICK f : Flattens(f, s, Len(s))
  BY FlattensExists
<1> DEFINE g == CHOOSE f_1 : f_1 = [i \in 1..Len(s) |-> IF i = 1 THEN s[i] ELSE f_1[i - 1] \o s[i]]
<1>2. Flattens(g, s, Len(s))
  BY <1>1 DEF Flattens
<1>3. Len(s) # 0 => FlattenSeq(s) = g[Len(s)]
  BY DEF FlattenSeq
<1>4. Len(s) = 0 => FlattenSeq(s) = s
  BY DEF FlattenSeq
<1> HIDE DEF g
<1> QED BY <1>2, <1>3, <1>4

(* x lists the first e satellites. *)
Lists(x, t, e) == x \in Seq(Nat) /\ Len(x) = e /\ \A k \in 1..e : x[k] = Prns[t][k]

LEMMA ListExtended ==
  ASSUME NEW t \in Talkers, NEW c \in Nat, c <= InView(t), NEW x, Lists(x, t, c)
  PROVE  Lists(x \o Row(t, c), t, IF c + 4 <= InView(t) THEN c + 4 ELSE InView(t))
<1> DEFINE e == IF c + 4 <= InView(t) THEN c + 4 ELSE InView(t)
           r == Row(t, c)
<1>1. /\ r \in Seq(Nat) /\ e \in Nat /\ c <= e /\ Len(r) = e - c
      /\ \A k \in 1..(e - c) : r[k] = Prns[t][c + k]
  BY RowIs
<1> HIDE DEF e, r
<1>2. x \in Seq(Nat) /\ Len(x) = c /\ \A k \in 1..c : x[k] = Prns[t][k]
  BY DEF Lists
<1>3. /\ x \o r \in Seq(Nat) /\ Len(x \o r) = Len(x) + Len(r)
      /\ \A k \in 1..(Len(x) + Len(r)) :
           (x \o r)[k] = IF k <= Len(x) THEN x[k] ELSE r[k - Len(x)]
  BY <1>1, <1>2, ConcatProperties
<1>4. Len(x \o r) = e
  BY <1>1, <1>2, <1>3
<1>5. ASSUME NEW k \in 1..e PROVE (x \o r)[k] = Prns[t][k]
  <2>1. CASE k <= c
    BY <1>1, <1>2, <1>3, <2>1
  <2>2. CASE ~(k <= c)
    <3>1. k - c \in 1..(e - c) /\ c + (k - c) = k /\ k \in 1..(c + (e - c))
      BY <1>1, <2>2
    <3>2. (x \o r)[k] = r[k - c]
      BY <1>1, <1>2, <1>3, <3>1
    <3> QED BY <1>1, <3>1, <3>2
  <2> QED BY <2>1, <2>2
<1>6. Lists(x \o r, t, e)
  BY <1>3, <1>4, <1>5 DEF Lists
<1> QED BY <1>6 DEF e, r

(* The rows of a group list all satellites, in order. *)
LEMMA RowsJoined ==
  ASSUME NEW t \in Talkers, NEW n \in Nat, n > 0, 4 * (n - 1) <= InView(t), InView(t) <= 4 * n
  PROVE  FlattenSeq([i \in 1..n |-> Row(t, 4 * (i - 1))]) = Prns[t]
<1> DEFINE s == [i \in 1..n |-> Row(t, 4 * (i - 1))]
           End(i) == IF 4 * i <= InView(t) THEN 4 * i ELSE InView(t)
<1>1. InView(t) \in Nat /\ InView(t) = Len(Prns[t]) /\ Prns[t] \in Seq(Nat)
  <2>1. InView(t) \in Nat /\ \A j \in 1..InView(t) : Prns[t][j] \in Nat
    BY Constellation
  <2>2. Prns[t] \in Seq(Nat \ {0})
    BY GroupAssumption
  <2>3. Prns[t] \in Seq(Nat)
    BY <2>2, SeqMonotonic
  <2> QED BY <2>1, <2>3 DEF InView
<1>2. s \in Seq(Seq(Nat)) /\ Len(s) = n
  <2>1. ASSUME NEW i \in 1..n PROVE Row(t, 4 * (i - 1)) \in Seq(Nat)
    <3>1. 4 * (i - 1) \in Nat /\ 4 * (i - 1) <= InView(t)
      BY <1>1
    <3> QED BY <3>1, RowIs
  <2>2. s \in [1..n -> Seq(Nat)] /\ DOMAIN s = 1..n
    BY <2>1
  <2> HIDE DEF s
  <2>3. s \in Seq(Seq(Nat))
    BY <2>2, SeqDef
  <2>4. Len(s) \in Nat /\ DOMAIN s = 1..Len(s)
    BY <2>3, LenProperties
  <2>5. 1..Len(s) = 1..n
    BY <2>2, <2>4
  <2> QED BY <2>3, <2>4, <2>5, SameLength
<1>3. \A i \in 1..n : s[i] = Row(t, 4 * (i - 1))
  OBVIOUS
<1> HIDE DEF s
<1>4. PICK f : Flattens(f, s, n) /\ FlattenSeq(s) = f[n]
  <2>1. Len(s) \in Nat /\ Len(s) # 0
    BY <1>2
  <2> QED BY <1>2, <2>1, FlattenSeqIs
<1>5. \A i \in 1..n : f[i] = IF i = 1 THEN s[i] ELSE f[i - 1] \o s[i]
  BY <1>4 DEF Flattens
<1> DEFINE Wrong == {i \in 1..n : ~Lists(f[i], t, End(i))}
<1>6. Wrong = {}
  <2> SUFFICES ASSUME Wrong # {} PROVE FALSE
    OBVIOUS
  <2>1. PICK m \in Wrong : \A i \in Wrong : m <= i
    <3>1. Wrong \in SUBSET Nat
      OBVIOUS
    <3> HIDE DEF Wrong
    <3> QED BY <3>1, Minimum
  <2>2. m \in 1..n /\ ~Lists(f[m], t, End(m))
    OBVIOUS
  <2> DEFINE c == 4 * (m - 1)
  <2>3. c \in Nat /\ c <= InView(t) /\ c + 4 = 4 * m /\ s[m] = Row(t, c)
    BY <1>1, <1>3
  <2>4. ASSUME NEW x, Lists(x, t, c), f[m] = x \o s[m] PROVE FALSE
    <3> HIDE DEF c
    <3>1. Lists(x \o Row(t, c), t, IF c + 4 <= InView(t) THEN c + 4 ELSE InView(t))
      BY <2>3, <2>4, ListExtended
    <3> QED BY <2>2, <2>3, <2>4, <3>1
  <2>5. CASE m = 1
    <3>1. <<>> \in Seq(Nat) /\ Len(<<>>) = 0
      BY EmptySeq
    <3>2. Lists(<<>>, t, c)
      BY <2>5, <3>1 DEF Lists
    <3>3. s[m] \in Seq(Nat)
      BY <1>2, <2>2, ElementOfSeq
    <3>4. <<>> \o s[m] = s[m]
      BY <3>3, ConcatEmptySeq
    <3>5. f[m] = <<>> \o s[m]
      BY <1>5, <2>2, <2>5, <3>4
    <3> QED BY <2>4, <3>2, <3>5
  <2>6. CASE m # 1
    <3>1. m - 1 \in 1..n /\ ~(m <= m - 1)
      BY <2>2, <2>6
    <3>2. m - 1 \notin Wrong
      <4> HIDE DEF Wrong
      <4> QED BY <2>1, <3>1
    <3>3. Lists(f[m - 1], t, End(m - 1))
      BY <3>1, <3>2
    <3>4. End(m - 1) = c
      BY <2>3
    <3>5. f[m] = f[m - 1] \o s[m]
      BY <1>5, <2>2, <2>6
    <3> QED BY <2>4, <3>3, <3>4, <3>5
  <2> QED BY <2>5, <2>6
<1>7. Lists(f[n], t, InView(t))
  <2>1. n \in 1..n /\ n \notin Wrong
    <3>1. n \in 1..n
      OBVIOUS
    <3> HIDE DEF Wrong
    <3> QED BY <1>6, <3>1
  <2>2. End(n) = InView(t)
    BY <1>1
  <2> QED BY <2>1, <2>2
<1>8. f[n] = Prns[t]
  <2>1. /\ f[n] \in Seq(Nat) /\ Len(f[n]) = Len(Prns[t])
        /\ \A k \in 1..Len(f[n]) : f[n][k] = Prns[t][k]
    BY <1>1, <1>7 DEF Lists
  <2> QED BY <1>1, <2>1, SeqEqual
<1> QED BY <1>4, <1>8 DEF s

-----------------------------------------------------------------------------
(* A group that has been sent. *)
LEMMA GroupSent ==
  ASSUME Rounds, NEW t \in Talkers, Sent("GSV", t)
  PROVE  \E a \in Nat : \E n \in Nat :
           /\ n > 0 /\ Lines(t, a, n)
           /\ 4 * (n - 1) < MaxCount[t] /\ 4 * (n - 1) <= InView(t)
           /\ InView(t) <= 4 * n /\ (4 * n = InView(t) => InView(t) = MaxCount[t])
<1>1. GsvOf(t) # {}
  BY DEF Rounds, Told
<1>2. ~Open(t)
  <2> SUFFICES ASSUME Open(t) PROVE FALSE
    OBVIOUS
  <2>1. ~Sleeping /\ Kind = "GSV" /\ Talker = t
    BY DEF Open, Rounds, InRound
  <2>2. next \in 1..Len(Plan) /\ Plan[next] = <<"GSV", t>>
    BY <2>1, NextIs
  <2>3. PICK i \in 1..(next - 1) : Plan[i] = <<"GSV", t>>
    BY DEF Sent
  <2>4. i \in 1..Len(Plan) /\ i # next
    BY <2>2, PlanIs
  <2> QED BY <2>2, <2>3, <2>4, PlanIs
<1>3. PICK a \in Nat, n \in Nat :
        /\ n > 0 /\ Lines(t, a, n) /\ Ended(t, n)
        /\ 4 * (n - 1) < MaxCount[t] /\ 4 * (n - 1) <= InView(t)
  BY <1>1, <1>2 DEF Rounds, GroupLaid
<1>4. InView(t) <= 4 * n /\ (4 * n = InView(t) => InView(t) = MaxCount[t])
  BY <1>3, Constellation DEF Ended, RowEnd
<1> QED BY <1>3, <1>4

LEMMA RoundsAlways == Spec => []Rounds
BY RoundsInit, RoundsStep, PTL DEF Spec

(* do_again ends (generator.c:141): the sentences of a group are as many as *)
(* their cursors were below max_count (Rounds). *)
THEOREM RoundsComeToAnEnd == Spec => []GroupsEnd
<1>1. Rounds => GroupsEnd
  <2> SUFFICES ASSUME Rounds, NEW t \in Talkers, GsvOf(t) # {}
      PROVE  4 * (Cardinality(GsvOf(t)) - 1) < MaxCount[t]
    BY DEF GroupsEnd
  <2>1. PICK a \in Nat, n \in Nat : n > 0 /\ Lines(t, a, n) /\ 4 * (n - 1) < MaxCount[t]
    BY DEF Rounds, GroupLaid
  <2>2. Cardinality(a..(a + n - 1)) = n
    <3>1. a \in Int /\ a + n - 1 \in Int /\ ~(a > a + n - 1)
      BY <2>1
    <3>2. Cardinality(a..(a + n - 1)) = (a + n - 1) - a + 1
      BY <3>1, FS_Interval
    <3> QED BY <3>2
  <2> QED BY <2>1, <2>2 DEF Lines
<1> QED BY <1>1, RoundsAlways, PTL

(* A GSV group lists its constellation once, in order and under the right   *)
(* numbers (generator.c:113-141): whatever the cursor was left at by a GSA  *)
(* of the same talker or a round cut short, it is put back before the first *)
(* sentence and passes four places with each. *)
THEOREM GroupsListAll == Spec => []GroupsComplete
<1>1. Rounds => GroupsComplete
  <2> SUFFICES ASSUME Rounds, NEW t \in Talkers, Sent("GSV", t), WellSized(t)
      PROVE  \E a \in DOMAIN out : \E b \in DOMAIN out :
               LET g == SubSeq(out, a, b) IN
               /\ a <= b /\ GsvOf(t) = a..b
               /\ FlattenSeq([i \in DOMAIN g |-> g[i].ids]) = Prns[t]
               /\ \A i \in DOMAIN g : g[i].number = i /\ g[i].total = Len(g)
    BY DEF GroupsComplete
  <2>1. PICK a \in Nat, n \in Nat :
          /\ n > 0 /\ Lines(t, a, n)
          /\ 4 * (n - 1) < MaxCount[t] /\ 4 * (n - 1) <= InView(t)
          /\ InView(t) <= 4 * n /\ (4 * n = InView(t) => InView(t) = MaxCount[t])
    BY GroupSent
  <2> DEFINE b == a + n - 1
             g == SubSeq(out, a, b)
  <2>2. b \in Nat /\ a <= b /\ GsvOf(t) = a..b
    BY <2>1 DEF Lines
  <2>3. \A i \in a..b : i \in DOMAIN out /\ out[i] \in Sentence
    BY <2>2, OutIs DEF GsvOf, Rounds
  <2>4. a \in DOMAIN out /\ b \in DOMAIN out
    BY <2>2, <2>3
  <2>5. /\ g \in Seq(Sentence) /\ Len(g) = n
        /\ \A i \in 1..n : g[i] = out[a + i - 1]
    <3>1. a \in Int /\ b \in Int
      BY <2>2
    <3> HIDE DEF b
    <3>2. /\ SubSeq(out, a, b) \in Seq(Sentence)
          /\ Len(SubSeq(out, a, b)) = IF a <= b THEN b - a + 1 ELSE 0
          /\ \A i \in 1..(b - a + 1) : SubSeq(out, a, b)[i] = out[a + i - 1]
      BY <2>3, <3>1, SubSeqProperties
    <3>3. b - a + 1 = n
      BY DEF b
    <3> QED BY <2>2, <3>2, <3>3
  <2>6. DOMAIN g = 1..n
    <3> HIDE DEF g
    <3> QED BY <2>5, LenProperties
  <2>7. \A i \in 1..n : g[i] = RowLine(t, i)
    <3> HIDE DEF g
    <3> QED BY <2>1, <2>5 DEF Lines
  <2> HIDE DEF b, g
  <2>8. [i \in DOMAIN g |-> g[i].ids] = [i \in 1..n |-> Row(t, 4 * (i - 1))]
    BY <2>6, <2>7 DEF RowLine
  <2>9. FlattenSeq([i \in DOMAIN g |-> g[i].ids]) = Prns[t]
    BY <2>1, <2>8, RowsJoined
  <2>10. trow(t) = n
    <3>1. InView(t) \in Nat /\ InView(t) <= MaxCount[t] /\ MaxCount[t] \in Nat
      BY Constellation
    <3>2. InView(t) > 4 * (n - 1)
      BY <2>1, <3>1 DEF WellSized
    <3> QED BY <2>1, <3>1, <3>2 DEF trow, Quarters
  <2>11. \A i \in DOMAIN g : g[i].number = i /\ g[i].total = Len(g)
    BY <2>5, <2>6, <2>7, <2>10 DEF RowLine
  <2> QED BY <2>2, <2>4, <2>9, <2>11 DEF g
<1> QED BY <1>1, RoundsAlways, PTL

-----------------------------------------------------------------------------
(* The satellites that the GSA and QSA sentences of a whole round name. *)

LEMMA NamedIs ==
  ASSUME Rounds, WholePlan, Sleeping, out # <<>>
  PROVE  NamedPlaces = {p \in Places : p[2] \in Used(p[1])}
<1>1. ASSUME NEW i \in Naming
      PROVE  out[i].talker \in Talkers /\ out[i].sats = Used(out[i].talker)
  <2>1. i \in 1..Len(out) /\ out[i] \in Sentence /\ out[i].kind \in {"GSA", "QSA"}
    BY OutIs DEF Naming, Rounds
  <2>2. out[i].talker \in Talkers
    BY <2>1 DEF Sentence
  <2>3. out[i].sats = track(out[i].talker, 0)
    BY <2>1, OutIs DEF Rounds, Truthful
  <2>4. InView(out[i].talker) <= 12
    BY <2>2 DEF WholePlan
  <2> QED BY <2>2, <2>3, <2>4, TracksAll
<1>2. ASSUME NEW t \in Talkers
      PROVE  \E i \in Naming : out[i].talker = t
  <2>1. PICK k \in {"GSA", "QSA"} : \E i \in DOMAIN Plan : Plan[i] = <<k, t>>
    BY DEF WholePlan
  <2>2. Sent(k, t)
    <3>1. DOMAIN Plan = 1..(next - 1)
      BY PlanIs DEF Sleeping
    <3> QED BY <2>1, <3>1 DEF Sent
  <2> QED BY <2>2 DEF Rounds, Told, Naming
<1>3. \A t \in Talkers : Used(t) \subseteq Sats(t)
  BY DEF Used
<1>4. \A p : p \in NamedPlaces <=> \E i \in Naming : \E j \in out[i].sats : p = <<out[i].talker, j>>
  BY DEF NamedPlaces
<1>5. \A p : p \in Places <=> \E t \in Talkers : \E j \in Sats(t) : p = <<t, j>>
  BY DEF Places
<1>6. ASSUME NEW p \in NamedPlaces PROVE p \in Places /\ p[2] \in Used(p[1])
  <2>1. PICK i \in Naming : \E j \in out[i].sats : p = <<out[i].talker, j>>
    BY <1>4
  <2>2. PICK j \in out[i].sats : p = <<out[i].talker, j>>
    BY <2>1
  <2>3. out[i].talker \in Talkers /\ j \in Used(out[i].talker)
    BY <1>1
  <2>4. p[1] = out[i].talker /\ p[2] = j
    BY <2>2
  <2> QED BY <1>3, <1>5, <2>2, <2>3, <2>4
<1>7. ASSUME NEW p \in Places, p[2] \in Used(p[1]) PROVE p \in NamedPlaces
  <2>1. PICK t \in Talkers : \E j \in Sats(t) : p = <<t, j>>
    BY <1>5
  <2>2. PICK j \in Sats(t) : p = <<t, j>>
    BY <2>1
  <2>3. p[1] = t /\ p[2] = j
    BY <2>2
  <2>4. PICK i \in Naming : out[i].talker = t
    BY <1>2
  <2>5. j \in out[i].sats
    BY <1>1, <1>7, <2>3, <2>4
  <2> QED BY <1>4, <2>2, <2>4, <2>5
<1> QED BY <1>6, <1>7

(* A satellite in view is in one of the sentences of its group. *)
LEMMA InSomeRow ==
  ASSUME Rounds, NEW t \in Talkers, Sent("GSV", t), NEW j \in 1..InView(t)
  PROVE  \E i \in GsvOf(t) : \E k \in DOMAIN out[i].ids : out[i].ids[k] = Prns[t][j]
<1>1. PICK a \in Nat, n \in Nat : /\ n > 0 /\ Lines(t, a, n)
                                 /\ 4 * (n - 1) <= InView(t) /\ InView(t) <= 4 * n
  BY GroupSent
<1>2. InView(t) \in Nat
  BY Constellation
<1> DEFINE q == (j - 1) \div 4
           i == a + q
           c == 4 * q
           e == IF c + 4 <= InView(t) THEN c + 4 ELSE InView(t)
<1>3. q \in Nat /\ 4 * q < j /\ j <= 4 * q + 4
  BY <1>2
<1> HIDE DEF q
<1>4. q + 1 \in 1..n /\ c \in Nat /\ c <= InView(t) /\ (q + 1) - 1 = q /\ a + (q + 1) - 1 = i
  BY <1>1, <1>2, <1>3
<1>5. out[i] = RowLine(t, q + 1) /\ i \in GsvOf(t)
  BY <1>1, <1>4 DEF Lines
<1>6. out[i].ids = Row(t, c)
  BY <1>4, <1>5 DEF RowLine
<1> HIDE DEF c, i
<1>7. /\ Row(t, c) \in Seq(Nat) /\ e \in Nat /\ Len(Row(t, c)) = e - c
      /\ \A k \in 1..(e - c) : Row(t, c)[k] = Prns[t][c + k]
  BY <1>4, RowIs
<1>8. j - c \in 1..(e - c) /\ c + (j - c) = j
  BY <1>2, <1>3, <1>4 DEF c
<1> HIDE DEF e
<1>9. j - c \in DOMAIN Row(t, c) /\ Row(t, c)[j - c] = Prns[t][j]
  BY <1>7, <1>8, LenProperties
<1> QED BY <1>5, <1>6, <1>9

(* What a round says of the satellites in use agrees (printer.h:79-120):    *)
(* GGA counts those that GSA and QSA name, and they are listed as in view,  *)
(* since the signals do not change between the sentences of a round. *)
THEOREM SentencesAgree == Spec => []UsedAgree
<1>1. Rounds => UsedAgree
  <2> SUFFICES ASSUME Rounds PROVE UsedAgree
    OBVIOUS
  <2>1. ASSUME WholePlan, Sleeping, out # <<>>, NEW p \in NamedPlaces
        PROVE  \E i \in GsvOf(p[1]) : \E k \in DOMAIN out[i].ids : out[i].ids[k] = Prns[p[1]][p[2]]
    <3>1. p \in Places
      BY <2>1, NamedIs
    <3>2. PICK t \in Talkers : \E j \in Sats(t) : p = <<t, j>>
      BY <3>1 DEF Places
    <3>3. p[1] = t /\ p[2] \in 1..InView(t)
      BY <3>2, Constellation
    <3>4. Sent("GSV", t)
      <4>1. DOMAIN Plan = 1..(next - 1)
        BY <2>1, PlanIs DEF Sleeping
      <4> QED BY <2>1, <4>1 DEF Sent, WholePlan
    <3> QED BY <3>3, <3>4, InSomeRow
  <2>2. ASSUME WholePlan, Sleeping, out # <<>>, NEW i \in DOMAIN out, out[i].kind = "GGA"
        PROVE  out[i].used = Cardinality(NamedPlaces)
    BY <2>2, NamedIs DEF Rounds, Truthful, satt
  <2> QED BY <2>1, <2>2 DEF UsedAgree, Rounds
<1> QED BY <1>1, RoundsAlways, PTL

-----------------------------------------------------------------------------
(* The modem, which shares nothing with the receiver. *)

(* A command that gets as far as the assignment of an argument of CFUN,     *)
(* CTZU or CGATT has a number there (result->args.argc is not 0). *)
LEMMA FirstArgument ==
  ASSUME NEW c \in Command, c.args # <<>>
  PROVE  c.args[1] \in Int
<1>1. c.args \in Args \cup CrsmArgs
  BY DEF Command
<1>2. CASE c.args \in Args
  <2>1. PICK n \in Numbers : c.args = <<n>>
    BY <1>2 DEF Args
  <2>2. QED BY <2>1, NumberAssumption
<1>3. CASE c.args \in CrsmArgs
  BY <1>3 DEF CrsmArgs
<1>4. QED BY <1>1, <1>2, <1>3

(* What a SET command of the modem is called with. *)
LEMMA SetHasArgument ==
  ASSUME NEW c \in Command, NEW names, Is(c, names, {"SET"})
  PROVE  c.args[1] \in Int
BY FirstArgument DEF Is, Allowed

(* The byte that atoi()'s result is stored into. *)
LEMMA StoredByte ==
  ASSUME NEW n \in Int
  PROVE  n % 256 \in Byte
BY DEF Byte

LEMMA ModemTypeStep == ModemTypeOK /\ [ModemNext]_modemVars => ModemTypeOK'
<1> SUFFICES ASSUME ModemTypeOK, [ModemNext]_modemVars PROVE ModemTypeOK'
  OBVIOUS
<1>1. CASE Line
  BY <1>1, NumberAssumption DEF Line, ModemTypeOK, modem
<1>2. CASE Exec
  <2>1. PICK c \in Command :
          \/ Ignored(c) \/ E(c) \/ Query(c) \/ CFUN(c) \/ CTZU(c) \/ CGATT(c) \/ CGDCONT(c)
          \/ CRSM(c) \/ Refused(c) \/ Unknown(c)
    BY <1>2 DEF Exec
  <2>2. left' \in 0..MaxLine
    <3>1. left > 0 /\ left' = left - 1
      BY <1>2, <2>1 DEF Exec, Ignored, E, Query, CFUN, CTZU, CGATT, CGDCONT, CRSM,
         Refused, Unknown, Answer
    <3>2. QED BY <3>1, NumberAssumption DEF ModemTypeOK
  <2>3. CASE CFUN(c)
    <3>1. c.args[1] \in Int /\ c.args[1] % 256 \in Byte
      BY <2>3, SetHasArgument, StoredByte DEF CFUN
    <3>2. QED BY <2>2, <2>3, <3>1 DEF CFUN, SetFunction, ModemTypeOK, Bit
  <2>4. CASE CTZU(c)
    <3>1. c.args[1] \in Int /\ c.args[1] % 256 \in Byte
      BY <2>4, SetHasArgument, StoredByte DEF CTZU
    <3>2. QED BY <2>2, <2>4, <3>1 DEF CTZU, Zone, ModemTypeOK
  <2>5. CASE CGATT(c)
    BY <2>2, <2>5 DEF CGATT, ModemTypeOK, Bit
  <2>6. CASE E(c)
    <3>1. echo' \in BOOLEAN
      BY <2>6 DEF E
    <3>2. QED BY <2>2, <2>6, <3>1 DEF E, ModemTypeOK
  <2>7. CASE Ignored(c) \/ Query(c) \/ CGDCONT(c) \/ CRSM(c) \/ Refused(c) \/ Unknown(c)
    <3>1. UNCHANGED modem
      BY <2>7 DEF Ignored, Query, CGDCONT, CRSM, Refused, Unknown
    <3>2. QED BY <2>2, <3>1 DEF ModemTypeOK, modem
  <2>8. QED BY <2>1, <2>3, <2>4, <2>5, <2>6, <2>7
<1>3. CASE UNCHANGED modemVars
  BY <1>3 DEF ModemTypeOK, modemVars, modem
<1>4. QED BY <1>1, <1>2, <1>3 DEF ModemNext

(* The fields of modem_state_t keep their ranges (at_cmd.h:102-151 and      *)
(* 254-260): the byte-wide ones hold bytes and the flags 0 or 1, whatever   *)
(* number an argument is. *)
THEOREM ModemTypeCorrect == ModemSpec => []ModemTypeOK
<1>1. ModemInit => ModemTypeOK
  BY NumberAssumption DEF ModemInit, ModemTypeOK, Byte, Bit
<1> QED BY <1>1, ModemTypeStep, PTL DEF ModemSpec

(* SIM, registration and functionality belong together after every          *)
(* sequence of commands (the switch of at_cmd.h:108-113): StatesAgree is its*)
(* own inductive invariant, since cfun, cpin, creg and cgreg only change in *)
(* CFUN, which sets cfun before it switches on it. *)
THEOREM RadioConsistent == ModemSpec => []RadioState
<1>1. ModemInit => StatesAgree
  BY DEF ModemInit, StatesAgree
<1>2. StatesAgree /\ [ModemNext]_modemVars => StatesAgree'
  <2> SUFFICES ASSUME StatesAgree, [ModemNext]_modemVars PROVE StatesAgree'
    OBVIOUS
  <2>1. CASE UNCHANGED <<cfun, cpin, creg, cgreg>>
    BY <2>1 DEF StatesAgree
  <2>2. CASE Line
    BY <2>1, <2>2 DEF Line, modem
  <2>3. CASE Exec
    <3>1. PICK c \in Command :
            \/ Ignored(c) \/ E(c) \/ Query(c) \/ CFUN(c) \/ CTZU(c) \/ CGATT(c) \/ CGDCONT(c)
            \/ CRSM(c) \/ Refused(c) \/ Unknown(c)
      BY <2>3 DEF Exec
    <3>2. CASE CFUN(c)
      <4>1. CASE cfun' = 0
        BY <3>2, <4>1 DEF CFUN, SetFunction, StatesAgree
      <4>2. CASE cfun' = 1
        BY <3>2, <4>2 DEF CFUN, SetFunction, StatesAgree
      <4>3. CASE cfun' = 4
        BY <3>2, <4>3 DEF CFUN, SetFunction, StatesAgree
      <4>4. CASE cfun' \notin {0, 1, 4}
        BY <3>2, <4>4 DEF CFUN, SetFunction, StatesAgree
      <4>5. QED BY <4>1, <4>2, <4>3, <4>4
    <3>3. CASE ~CFUN(c)
      BY <3>1, <3>3, <2>1 DEF Ignored, E, Query, CTZU, CGATT, CGDCONT, CRSM, Refused, Unknown, modem
    <3>4. QED BY <3>2, <3>3
  <2>4. CASE UNCHANGED modemVars
    BY <2>1, <2>4 DEF modemVars, modem
  <2>5. QED BY <2>2, <2>3, <2>4 DEF ModemNext
<1>3. QED BY <1>1, <1>2, ModemTypeCorrect, PTL DEF ModemSpec, RadioState

-----------------------------------------------------------------------------
(* What a line has been answered.  SimTold compares any two answers; what   *)
(* is kept is that those after the last one to a CFUN tell the SIM's state  *)
(* as it is now.                                                            *)
Position == {OPERATION_NOT_SUPPORTED, PARAM_INVALID, SIM_INVALID_PARAMETER, SIM_UNKNOW_COMMAND,
             SIM_FILEID_NOT_FOUND, SIM_NOT_INSERT}
Reply ==
  [what : {"info"}, cmd : Names, value : {"fixed"} \cup Byte]
  \cup [what : {"result"}, cmd : Names, type : {"DCE"}, value : {"OK", "ERROR"}, code : {0}]
  \cup [what : {"result"}, cmd : Names, type : {"CME", "CMS"}, value : Position,
        code : {CME_ERR[v + 1] : v \in Position}]

Seen(r) == /\ r.what = "info" /\ r.cmd \in {"CPIN", "CSPN", "CCID", "ICCID", "CRSM"}
           /\ r.value = 1
Missing(r) == \/ /\ r.what = "info" /\ r.cmd \in {"CPIN", "CSPN", "CCID", "ICCID"}
                 /\ r.value = 0
              \/ r.what = "result" /\ r.type = "CMS"
Tells(r) == (Seen(r) => cpin = 1) /\ (Missing(r) => cpin = 0)
ToldNow ==
  \A i \in DOMAIN replies :
    (\A k \in DOMAIN replies : k > i => replies[k].cmd # "CFUN") => Tells(replies[i])
SimAnswers == ModemTypeOK /\ replies \in Seq(Reply) /\ ToldNow /\ SimTold

LEMMA ReplyTypes ==
  ASSUME NEW c \in Command
  PROVE  /\ OK(c) \in Seq(Reply) /\ ERROR(c) \in Seq(Reply)
         /\ \A v \in Position : CME(c, v) \in Seq(Reply) /\ CMS(c, v) \in Seq(Reply)
         /\ \A v \in {"fixed"} \cup Byte : Info(c, v) \in Seq(Reply)
<1>1. c.cmd \in Names
  BY DEF Command
<1>2. Result(c, "DCE", "OK") \in Reply /\ Result(c, "DCE", "ERROR") \in Reply
  BY <1>1 DEF Reply, Result
<1>3. ASSUME NEW v \in Position, NEW t \in {"CME", "CMS"}
      PROVE  Result(c, t, v) \in Reply
  <2>1. Result(c, t, v) = [what |-> "result", cmd |-> c.cmd, type |-> t, value |-> v,
                           code |-> CME_ERR[v + 1]]
    BY DEF Result, Code, Codes
  <2>2. CME_ERR[v + 1] \in {CME_ERR[w + 1] : w \in Position}
    OBVIOUS
  <2> QED BY <1>1, <2>1, <2>2 DEF Reply
<1>4. ASSUME NEW v \in {"fixed"} \cup Byte
      PROVE  [what |-> "info", cmd |-> c.cmd, value |-> v] \in Reply
  BY <1>1 DEF Reply
<1> QED BY <1>2, <1>3, <1>4 DEF OK, ERROR, CME, CMS, Info

(* Each answer of a command is one of that command, and what it tells of    *)
(* the SIM is how things are; those of CFUN, which may have changed them,   *)
(* tell nothing of it. *)
TellsBy(c, r) == /\ r.cmd = c.cmd /\ Tells(r)
                 /\ c.cmd = "CFUN" => ~Seen(r) /\ ~Missing(r)
Truly(c, rs) == Len(rs) > 0 /\ \A i \in 1..Len(rs) : TellsBy(c, rs[i])

LEMMA ResultsTell ==
  ASSUME NEW c \in Command
  PROVE  /\ Truly(c, OK(c)) /\ Truly(c, ERROR(c))
         /\ \A v \in Position :
              Truly(c, CME(c, v)) /\ (NoSim /\ c.cmd # "CFUN" => Truly(c, CMS(c, v)))
<1>1. ASSUME NEW r PROVE Len(<<r>>) = 1 /\ <<r>>[1] = r /\ \A i \in 1..1 : i = 1
  OBVIOUS
<1>2. ASSUME NEW t, NEW v, t = "CMS" => NoSim /\ c.cmd # "CFUN"
      PROVE  Truly(c, <<Result(c, t, v)>>)
  <2>1. Result(c, t, v).what = "result" /\ Result(c, t, v).type = t /\ Result(c, t, v).cmd = c.cmd
    BY DEF Result
  <2>2. TellsBy(c, Result(c, t, v))
    BY <1>2, <2>1 DEF TellsBy, Tells, Seen, Missing, NoSim
  <2> QED BY <1>1, <2>1, <2>2 DEF Truly
<1> QED BY <1>2 DEF OK, ERROR, CME, CMS

LEMMA AnswersTell ==
  ASSUME NEW c \in Command, NEW v \in {"fixed"} \cup Byte,
         c.cmd \in {"CPIN", "CSPN", "CCID", "ICCID"} => v = cpin,
         c.cmd = "CRSM" => v = 1 /\ cpin = 1,
         ModemTypeOK
  PROVE  Info(c, v) \o OK(c) \in Seq(Reply) /\ Truly(c, Info(c, v) \o OK(c))
<1> DEFINE i == [what |-> "info", cmd |-> c.cmd, value |-> v]
           o == Result(c, "DCE", "OK")
<1>1. Info(c, v) \in Seq(Reply) /\ OK(c) \in Seq(Reply)
  BY ReplyTypes
<1>2. Info(c, v) = <<i>> /\ OK(c) = <<o>>
  BY DEF Info, OK
<1>3. TellsBy(c, i)
  BY DEF TellsBy, Tells, Seen, Missing, ModemTypeOK, Bit
<1>4. TellsBy(c, o)
  BY DEF TellsBy, Tells, Seen, Missing, Result
<1> HIDE DEF i, o
<1>5. /\ Len(<<i>> \o <<o>>) = 2
      /\ (<<i>> \o <<o>>)[1] = i /\ (<<i>> \o <<o>>)[2] = o
  BY <1>1, <1>2, ConcatProperties
<1>6. \A j \in 1..2 : j \in {1, 2}
  OBVIOUS
<1>7. Info(c, v) \o OK(c) \in Seq(Reply)
  BY <1>1, ConcatProperties
<1> QED BY <1>2, <1>3, <1>4, <1>5, <1>6, <1>7 DEF Truly

LEMMA CommandTells ==
  ASSUME ModemTypeOK, NEW c \in Command,
         \/ Ignored(c) \/ E(c) \/ Query(c) \/ CFUN(c) \/ CTZU(c) \/ CGATT(c) \/ CGDCONT(c)
         \/ CRSM(c) \/ Refused(c) \/ Unknown(c)
  PROVE  /\ \E rs \in Seq(Reply) : replies' = replies \o rs /\ Truly(c, rs)
         /\ c.cmd # "CFUN" => cpin' = cpin
<1>1. /\ OK(c) \in Seq(Reply) /\ ERROR(c) \in Seq(Reply)
      /\ \A v \in Position : CME(c, v) \in Seq(Reply) /\ CMS(c, v) \in Seq(Reply)
      /\ Truly(c, OK(c)) /\ Truly(c, ERROR(c))
      /\ \A v \in Position : Truly(c, CME(c, v)) /\ (NoSim /\ c.cmd # "CFUN" => Truly(c, CMS(c, v)))
  BY ReplyTypes, ResultsTell
<1>2. CASE Ignored(c) \/ E(c) \/ CFUN(c) \/ CTZU(c) \/ CGATT(c) \/ CGDCONT(c)
  <2>1. replies' = replies \o OK(c)
    BY <1>2 DEF Ignored, E, CFUN, CTZU, CGATT, CGDCONT, Answer
  <2>2. c.cmd # "CFUN" => cpin' = cpin
    BY <1>2 DEF Ignored, E, CFUN, CTZU, CGATT, CGDCONT, Is, modem
  <2> QED BY <1>1, <2>1, <2>2
<1>3. CASE Query(c)
  <2>1. replies' = replies \o (Info(c, Shown(c.cmd)) \o OK(c)) /\ cpin' = cpin
    BY <1>3 DEF Query, Answer, modem
  <2>2. Shown(c.cmd) \in {"fixed"} \cup Byte
    BY DEF Shown, ModemTypeOK, Byte, Bit
  <2>3. /\ c.cmd \in {"CPIN", "CSPN", "CCID", "ICCID"} => Shown(c.cmd) = cpin
        /\ c.cmd # "CRSM"
    BY <1>3 DEF Shown, Query, Is
  <2> QED BY <2>1, <2>2, <2>3, AnswersTell
<1>4. CASE CRSM(c)
  <2>1. c.cmd = "CRSM" /\ cpin' = cpin
    BY <1>4 DEF CRSM, Is, modem
  <2>2. CASE NoSim
    <3>1. replies' = replies \o CMS(c, SIM_NOT_INSERT) /\ SIM_NOT_INSERT \in Position
      BY <1>4, <2>2 DEF CRSM, Answer, Position
    <3> QED BY <1>1, <2>1, <2>2, <3>1
  <2>3. CASE ~NoSim
    <3>1. cpin = 1 /\ 1 \in {"fixed"} \cup Byte
      BY <2>3 DEF NoSim, ModemTypeOK, Bit, Byte
    <3>2. Info(c, 1) \o OK(c) \in Seq(Reply) /\ Truly(c, Info(c, 1) \o OK(c))
      BY <2>1, <3>1, AnswersTell
    <3>3. \/ \E v \in Position : replies' = replies \o CME(c, v)
          \/ replies' = replies \o (Info(c, 1) \o OK(c))
      BY <1>4, <2>3 DEF CRSM, Answer, Position
    <3> QED BY <1>1, <2>1, <3>2, <3>3
  <2> QED BY <2>2, <2>3
<1>5. CASE Refused(c)
  <2>1. cpin' = cpin /\ \E v \in Position : replies' = replies \o CME(c, v)
    BY <1>5 DEF Refused, Answer, Position, modem
  <2> QED BY <1>1, <2>1
<1>6. CASE Unknown(c)
  <2>1. cpin' = cpin /\ replies' = replies \o ERROR(c)
    BY <1>6 DEF Unknown, Answer, modem
  <2> QED BY <1>1, <2>1
<1> QED BY <1>2, <1>3, <1>4, <1>5, <1>6

(* One more command keeps what the answers tell of the SIM together. *)
LEMMA TellingKept ==
  ASSUME SimAnswers, NEW c \in Command, NEW rs \in Seq(Reply),
         replies' = replies \o rs, Truly(c, rs), c.cmd # "CFUN" => cpin' = cpin
  PROVE  replies' \in Seq(Reply) /\ ToldNow' /\ SimTold'
<1> DEFINE n == Len(replies)
<1>1. /\ replies' \in Seq(Reply) /\ n \in Nat /\ Len(rs) \in Nat /\ Len(replies') = n + Len(rs)
      /\ DOMAIN replies = 1..n /\ DOMAIN replies' = 1..(n + Len(rs))
      /\ \A i \in 1..n : replies'[i] = replies[i]
      /\ \A i \in (n + 1)..(n + Len(rs)) : replies'[i] = rs[i - n]
  BY ConcatProperties, LenProperties DEF SimAnswers
<1>2. ASSUME NEW i \in DOMAIN replies'
      PROVE  \/ i \in DOMAIN replies /\ i <= n /\ replies'[i] = replies[i]
             \/ i \in Nat /\ i > n /\ TellsBy(c, replies'[i])
  <2>1. i \in 1..n \/ (i \in (n + 1)..(n + Len(rs)) /\ i - n \in 1..Len(rs) /\ i > n /\ i \in Nat)
    BY <1>1
  <2> QED BY <1>1, <2>1 DEF Truly
<1>3. \A i \in DOMAIN replies : i \in DOMAIN replies' /\ replies'[i] = replies[i]
  BY <1>1
<1> HIDE DEF n
<1>4. n + 1 \in DOMAIN replies' /\ \A i \in DOMAIN replies : i < n + 1
  BY <1>1 DEF Truly
<1>5. ASSUME NEW i \in DOMAIN replies', \A k \in DOMAIN replies' : k > i => replies'[k].cmd # "CFUN"
      PROVE  Tells(replies[i])'
  <2>1. CASE i \in DOMAIN replies /\ replies'[i] = replies[i]
    <3>1. c.cmd # "CFUN"
      BY <1>2, <1>4, <1>5, <2>1 DEF TellsBy
    <3>2. Tells(replies[i])
      BY <1>3, <1>5, <2>1 DEF SimAnswers, ToldNow
    <3> QED BY <2>1, <3>1, <3>2 DEF Tells, Seen, Missing
  <2>2. CASE TellsBy(c, replies'[i])
    BY <2>2 DEF TellsBy, Tells, Seen, Missing
  <2> QED BY <1>2, <2>1, <2>2
<1>6. ToldNow'
  BY <1>5 DEF ToldNow
<1>7. ASSUME NEW i \in DOMAIN replies', NEW j \in DOMAIN replies', SimSeen(i)', SimMissing(j)'
      PROVE  \E k \in DOMAIN replies' : replies'[k].cmd = "CFUN" /\ (i < k) # (j < k)
  <2>1. /\ Seen(replies'[i]) /\ Missing(replies'[j])
        /\ \A k \in DOMAIN replies : k \in Nat
    BY <1>1, <1>7 DEF SimSeen, SimMissing, Seen, Missing
  <2>2. ~(TellsBy(c, replies'[i]) /\ TellsBy(c, replies'[j]))
    BY <2>1 DEF TellsBy, Tells
  <2>3. CASE /\ i \in DOMAIN replies /\ replies'[i] = replies[i]
             /\ j \in DOMAIN replies /\ replies'[j] = replies[j]
    <3>1. SimSeen(i) /\ SimMissing(j)
      BY <2>1, <2>3 DEF SimSeen, SimMissing, Seen, Missing
    <3>2. PICK k \in DOMAIN replies : replies[k].cmd = "CFUN" /\ (i < k) # (j < k)
      BY <2>3, <3>1 DEF SimAnswers, SimTold
    <3> QED BY <1>3, <3>2
  <2>4. ASSUME NEW o \in DOMAIN replies, NEW m \in DOMAIN replies', o <= n, m > n, m \in Nat,
               ~(Tells(replies[o]) /\ TellsBy(c, replies'[m]))
        PROVE  \/ ~TellsBy(c, replies'[m])
               \/ \E k \in DOMAIN replies' : replies'[k].cmd = "CFUN" /\ o < k /\ ~(m < k)
    <3>1. CASE ~Tells(replies[o])
      <4>1. PICK k \in DOMAIN replies : k > o /\ replies[k].cmd = "CFUN"
        BY <3>1 DEF SimAnswers, ToldNow
      <4>2. o \in Nat /\ k \in Nat /\ n \in Nat /\ k < n + 1
        BY <1>1, <1>4, <2>1
      <4>3. o < k /\ ~(m < k)
        BY <2>4, <4>1, <4>2
      <4>4. k \in DOMAIN replies' /\ replies'[k].cmd = "CFUN"
        BY <1>3, <4>1
      <4> QED BY <4>3, <4>4
    <3> QED BY <2>4, <3>1
  <2>5. CASE /\ i \in DOMAIN replies /\ i <= n /\ replies'[i] = replies[i]
             /\ j \in Nat /\ j > n /\ TellsBy(c, replies'[j])
    <3>1. ~(Tells(replies[i]) /\ TellsBy(c, replies'[j]))
      BY <2>1, <2>5 DEF TellsBy, Tells
    <3> QED BY <2>4, <2>5, <3>1
  <2>6. CASE /\ j \in DOMAIN replies /\ j <= n /\ replies'[j] = replies[j]
             /\ i \in Nat /\ i > n /\ TellsBy(c, replies'[i])
    <3>1. ~(Tells(replies[j]) /\ TellsBy(c, replies'[i]))
      BY <2>1, <2>6 DEF TellsBy, Tells
    <3> QED BY <2>4, <2>6, <3>1
  <2> QED BY <1>2, <2>2, <2>3, <2>5, <2>6
<1>8. SimTold'
  BY <1>7 DEF SimTold, SimSeen, SimMissing
<1> QED BY <1>1, <1>6, <1>8

(* All commands tell the same of the SIM between two settings of CFUN       *)
(* (at_cmd.h:116-129 and 183): SimAnswers is inductive. *)
THEOREM SimToldAlike == ModemSpec => []SimTold
<1>1. ModemInit => SimAnswers
  <2> SUFFICES ASSUME ModemInit PROVE SimAnswers
    OBVIOUS
  <2>1. ModemTypeOK
    BY NumberAssumption DEF ModemInit, ModemTypeOK, Byte, Bit
  <2>2. replies = <<>> /\ replies \in Seq(Reply) /\ DOMAIN replies = {}
    BY EmptySeq DEF ModemInit
  <2> QED BY <2>1, <2>2 DEF SimAnswers, ToldNow, SimTold
<1>2. SimAnswers /\ [ModemNext]_modemVars => SimAnswers'
  <2> SUFFICES ASSUME SimAnswers, [ModemNext]_modemVars PROVE SimAnswers'
    OBVIOUS
  <2>1. ModemTypeOK'
    BY ModemTypeStep DEF SimAnswers
  <2>2. CASE Line
    <3>1. replies' = <<>> /\ replies' \in Seq(Reply) /\ DOMAIN replies' = {}
      BY <2>2, EmptySeq DEF Line
    <3> QED BY <2>1, <3>1 DEF SimAnswers, ToldNow, SimTold
  <2>3. CASE Exec
    <3>1. PICK c \in Command :
            \/ Ignored(c) \/ E(c) \/ Query(c) \/ CFUN(c) \/ CTZU(c) \/ CGATT(c) \/ CGDCONT(c)
            \/ CRSM(c) \/ Refused(c) \/ Unknown(c)
      BY <2>3 DEF Exec
    <3>2. /\ \E rs \in Seq(Reply) : replies' = replies \o rs /\ Truly(c, rs)
          /\ c.cmd # "CFUN" => cpin' = cpin
      BY <3>1, CommandTells DEF SimAnswers
    <3> QED BY <2>1, <3>2, TellingKept DEF SimAnswers
  <2>4. CASE UNCHANGED modemVars
    <3>1. replies' = replies /\ cpin' = cpin
      BY <2>4 DEF modemVars, modem
    <3> QED BY <2>1, <3>1 DEF SimAnswers, ToldNow, Tells, Seen, Missing, SimTold, SimSeen,
                              SimMissing
  <2> QED BY <2>2, <2>3, <2>4 DEF ModemNext
<1>3. SimAnswers => SimTold
  BY DEF SimAnswers
<1> QED BY <1>1, <1>2, <1>3, PTL DEF ModemSpec
=============================================================================
