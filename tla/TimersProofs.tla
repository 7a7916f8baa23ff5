---------------------------- MODULE TimersProofs ----------------------------
(***************************************************************************)
(* What Timers guarantees of its list and of the calls, for every number   *)
(* of timers, every interval and any depth of nested passes.               *)
(***************************************************************************)
EXTENDS Timers, SequenceTheorems, FiniteSetTheorems, WellFoundedInduction, TLAPS

-----------------------------------------------------------------------------
(* A set of numbers has a least one: induction by a least counterexample.   *)
LEMMA Minimum ==
  ASSUME NEW S \in SUBSET Nat, S # {}
  PROVE  \E m \in S : \A n \in S : m <= n
<1> DEFINE Below == {1..n : n \in S}
           R == StrictSubsetOrdering(Nat)
<1>1. Below \subseteq FiniteSubsetsOf(Nat) /\ Below # {}
  <2>1. \A n \in S : IsFiniteSet(1..n) /\ 1..n \in SUBSET Nat
    BY FS_Interval
  <2> QED BY <2>1 DEF FiniteSubsetsOf
<1>2. \E x \in Below : \A y \in Below : <<y, x>> \notin R
  <2>1. IsWellFoundedOn(R, FiniteSubsetsOf(Nat))
    BY FS_StrictSubsetOrderingWellFounded
  <2> HIDE DEF Below, R
  <2> QED BY <1>1, <2>1, WFMin
<1>3. PICK m \in S : \A n \in S : <<1..n, 1..m>> \notin R
  BY <1>2
<1>4. ASSUME NEW n \in S, n < m PROVE FALSE
  <2>1. 1..n \subseteq 1..m /\ m \in 1..m /\ m \notin 1..n
    BY <1>4
  <2>2. <<1..n, 1..m>> \in R
    BY <2>1 DEF StrictSubsetOrdering
  <2> QED BY <1>3, <2>2
<1> QED BY <1>3, <1>4

-----------------------------------------------------------------------------
(* The list: the links lead along a sequence of different timers, to its    *)
(* end, and from all others nowhere. *)
Members(s) == {s[i] : i \in 1..Len(s)}
Chain(s, h, nx) ==
  /\ \A i, j \in 1..Len(s) : s[i] = s[j] => i = j
  /\ h = IF Len(s) = 0 THEN Nil ELSE s[1]
  /\ \A i \in 1..Len(s) : nx[s[i]] = IF i = Len(s) THEN Nil ELSE s[i + 1]
  /\ \A t \in Timer : t \notin Members(s) => nx[t] = Nil

LEMMA SizeIs == Cardinality(Timer) \in Nat /\ Nil \notin Timer
BY FS_CardinalityType, TimerAssumption

LEMMA ChainLength ==
  ASSUME NEW h, NEW nx, NEW s \in Seq(Timer), Chain(s, h, nx)
  PROVE  Len(s) \in Nat /\ Len(s) <= Cardinality(Timer)
<1>1. Len(s) \in Nat /\ s \in [1..Len(s) -> Timer]
  BY LenProperties
<1>2. s \in Injection(1..Len(s), Timer)
  BY <1>1 DEF Chain, Injection, IsInjective
<1>3. Cardinality(1..Len(s)) <= Cardinality(Timer)
  BY <1>2, FS_Injection, TimerAssumption
<1>4. Cardinality(1..Len(s)) = Len(s)
  BY <1>1, FS_Interval
<1> QED BY <1>1, <1>3, <1>4

Follows(f, h, nx) ==
  f = [n \in Nat |-> IF n = 0 THEN h ELSE IF f[n - 1] = Nil THEN Nil ELSE nx[f[n - 1]]]

LEMMA ItemsAre ==
  ASSUME NEW h, NEW nx, NEW s \in Seq(Timer), Chain(s, h, nx), NEW n \in 0..Cardinality(Timer)
  PROVE  Items(h, nx)[n] = IF n < Len(s) THEN s[n + 1] ELSE Nil
<1> DEFINE w == [k \in Nat |-> IF k < Len(s) THEN s[k + 1] ELSE Nil]
           g == CHOOSE item : item = [k \in Nat |-> IF k = 0 THEN h
                               ELSE IF item[k - 1] = Nil THEN Nil ELSE nx[item[k - 1]]]
<1>1. Len(s) \in Nat /\ \A i \in 1..Len(s) : s[i] \in Timer /\ s[i] # Nil
  BY ElementOfSeq, LenProperties, SizeIs
<1>2. ASSUME NEW k \in Nat
      PROVE  w[k] = IF k = 0 THEN h ELSE IF w[k - 1] = Nil THEN Nil ELSE nx[w[k - 1]]
  <2>1. CASE k = 0
    <3>1. w[k] = IF 0 < Len(s) THEN s[1] ELSE Nil
      BY <2>1
    <3> QED BY <1>1, <2>1, <3>1 DEF Chain
  <2>2. CASE k # 0 /\ k - 1 < Len(s)
    <3>1. w[k - 1] = s[k] /\ k \in 1..Len(s)
      BY <1>1, <2>2
    <3>2. w[k] = IF k < Len(s) THEN s[k + 1] ELSE Nil
      OBVIOUS
    <3>3. nx[s[k]] = IF k = Len(s) THEN Nil ELSE s[k + 1]
      BY <3>1 DEF Chain
    <3>4. k < Len(s) <=> k # Len(s)
      BY <1>1, <2>2
    <3> HIDE DEF w
    <3> QED BY <1>1, <2>2, <3>1, <3>2, <3>3, <3>4
  <2>3. CASE k # 0 /\ ~(k - 1 < Len(s))
    <3>1. w[k - 1] = Nil /\ w[k] = Nil
      BY <1>1, <2>3
    <3> QED BY <2>3, <3>1
  <2> QED BY <2>1, <2>2, <2>3
<1>3. Follows(w, h, nx)
  <2> DEFINE v == [k \in Nat |-> IF k = 0 THEN h ELSE IF w[k - 1] = Nil THEN Nil ELSE nx[w[k - 1]]]
  <2>1. \A k \in Nat : w[k] = v[k]
    BY <1>2
  <2>2. w = v
    BY <2>1
  <2> QED BY <2>2 DEF Follows
<1>4. Follows(g, h, nx)
  BY <1>3 DEF Follows
<1> HIDE DEF g, w
<1>5. ASSUME NEW k \in Nat PROVE g[k] = w[k]
  <2> DEFINE Wrong == {i \in Nat : g[i] # w[i]}
  <2>1. SUFFICES ASSUME Wrong # {} PROVE FALSE
    OBVIOUS
  <2>2. PICK m \in Wrong : \A i \in Wrong : m <= i
    <3>1. Wrong \in SUBSET Nat
      OBVIOUS
    <3> HIDE DEF Wrong
    <3> QED BY <2>1, <3>1, Minimum
  <2>3. g[m] = IF m = 0 THEN h ELSE IF g[m - 1] = Nil THEN Nil ELSE nx[g[m - 1]]
    BY <1>4 DEF Follows
  <2>4. m # 0 => g[m - 1] = w[m - 1]
    <3>1. m # 0 => m - 1 \in Nat /\ ~(m <= m - 1)
      OBVIOUS
    <3> QED BY <2>2, <3>1
  <2> QED BY <1>2, <2>3, <2>4
<1>6. Items(h, nx) = [k \in 0..Cardinality(Timer) |-> g[k]]
  BY DEF Items, g
<1>7. n \in Nat
  BY SizeIs
<1> QED BY <1>5, <1>6, <1>7 DEF w

(* What following the links from a head finds. *)
Linked(h, nx) == {Items(h, nx)[n] : n \in 0..Cardinality(Timer)} \ {Nil}

LEMMA LinkedAre ==
  ASSUME NEW h, NEW nx, NEW s \in Seq(Timer), Chain(s, h, nx)
  PROVE  Linked(h, nx) = Members(s) /\ Items(h, nx)[Cardinality(Timer)] = Nil
<1>1. Len(s) \in Nat /\ Len(s) <= Cardinality(Timer) /\ Cardinality(Timer) \in Nat
  BY ChainLength, SizeIs
<1>2. \A n \in 0..Cardinality(Timer) :
        Items(h, nx)[n] = IF n < Len(s) THEN s[n + 1] ELSE Nil
  BY ItemsAre
<1>3. \A i \in 1..Len(s) : s[i] \in Timer /\ s[i] # Nil
  BY ElementOfSeq, SizeIs
<1>4. ASSUME NEW t \in Linked(h, nx) PROVE t \in Members(s)
  <2>1. PICK n \in 0..Cardinality(Timer) : t = Items(h, nx)[n] /\ t # Nil
    BY DEF Linked
  <2>2. n < Len(s) /\ t = s[n + 1]
    BY <1>2, <2>1
  <2>3. n + 1 \in 1..Len(s)
    BY <1>1, <2>2
  <2> QED BY <2>2, <2>3 DEF Members
<1>5. ASSUME NEW i \in 1..Len(s) PROVE s[i] \in Linked(h, nx)
  <2>1. i - 1 \in 0..Cardinality(Timer) /\ i - 1 < Len(s) /\ (i - 1) + 1 = i
    BY <1>1
  <2>2. Items(h, nx)[i - 1] = s[i]
    BY <1>2, <2>1
  <2> QED BY <1>3, <2>1, <2>2 DEF Linked
<1>6. Items(h, nx)[Cardinality(Timer)] = Nil
  BY <1>1, <1>2
<1> QED BY <1>4, <1>5, <1>6 DEF Members

LEMMA ListedAre ==
  ASSUME NEW s \in Seq(Timer), Chain(s, head, nxt)
  PROVE  Listed = Members(s) /\ Items(head, nxt)[Cardinality(Timer)] = Nil
BY LinkedAre DEF Listed, Linked

LEMMA FinalIs ==
  ASSUME NEW s \in Seq(Timer), Chain(s, head, nxt), Len(s) # 0
  PROVE  Final = s[Len(s)]
<1>1. Len(s) \in Nat /\ Listed = Members(s)
  BY ListedAre, LenProperties
<1>2. \A i \in 1..Len(s) : s[i] \in Timer /\ s[i] # Nil
  BY ElementOfSeq, SizeIs
<1>3. s[Len(s)] \in Listed /\ nxt[s[Len(s)]] = Nil
  BY <1>1 DEF Members, Chain
<1>4. ASSUME NEW t \in Listed, nxt[t] = Nil PROVE t = s[Len(s)]
  <2>1. PICK i \in 1..Len(s) : t = s[i]
    BY <1>1 DEF Members
  <2>2. i # Len(s) => nxt[t] = s[i + 1] /\ i + 1 \in 1..Len(s)
    BY <1>1, <2>1 DEF Chain
  <2> QED BY <1>2, <1>4, <2>1, <2>2
<1> QED BY <1>3, <1>4 DEF Final

(* list_add() puts a timer behind the last one. *)
LEMMA ChainAdded ==
  ASSUME TypeOK, NEW s \in Seq(Timer), Chain(s, head, nxt), NEW t \in Timer, t \notin Members(s),
         list_add(t)
  PROVE  /\ Append(s, t) \in Seq(Timer) /\ Len(Append(s, t)) = Len(s) + 1
         /\ Chain(Append(s, t), head', nxt')
         /\ Members(Append(s, t)) = Members(s) \cup {t}
<1> DEFINE u == Append(s, t)
           n == Len(s)
<1>1. /\ u \in Seq(Timer) /\ Len(u) = n + 1 /\ n \in Nat /\ u[n + 1] = t
      /\ \A i \in 1..n : u[i] = s[i]
  BY AppendProperties
<1>2. \A i \in 1..n : s[i] \in Timer /\ s[i] # t /\ s[i] # Nil
  BY ElementOfSeq, SizeIs DEF Members
<1> HIDE DEF u
<1>3. \A i \in 1..(n + 1) : i \in 1..n \/ i = n + 1
  BY <1>1
<1>4. \A i, j \in 1..(n + 1) : u[i] = u[j] => i = j
  BY <1>1, <1>2, <1>3 DEF Chain
<1>5. Members(u) = Members(s) \cup {t}
  <2>1. 1..n \subseteq 1..(n + 1) /\ n + 1 \in 1..(n + 1)
    BY <1>1
  <2> QED BY <1>1, <1>3, <2>1 DEF Members
<1>6. CASE n = 0
  <2>1. head = Nil /\ head' = t /\ nxt' = nxt
    BY <1>6 DEF Chain, list_add
  <2>2. u[1] = t /\ nxt[t] = Nil
    BY <1>1, <1>6 DEF Chain
  <2>3. \A i \in 1..Len(u) : i = Len(u) /\ u[i] = t
    BY <1>1, <1>6
  <2> QED BY <1>1, <1>4, <1>5, <1>6, <2>1, <2>2, <2>3 DEF Chain, u
<1>7. CASE n # 0
  <2>1. n \in 1..n /\ 1 \in 1..n
    BY <1>1, <1>7
  <2>2. head = s[1] /\ head # Nil
    BY <1>2, <1>7, <2>1 DEF Chain
  <2>3. head' = head /\ nxt' = [nxt EXCEPT ![s[n]] = t]
    BY <1>7, <2>2, FinalIs DEF list_add
  <2>4. \A x \in Timer : nxt'[x] = IF x = s[n] THEN t ELSE nxt[x]
    BY <2>3 DEF TypeOK
  <2>5. ASSUME NEW i \in 1..(n + 1) PROVE nxt'[u[i]] = IF i = n + 1 THEN Nil ELSE u[i + 1]
    <3>1. CASE i = n + 1
      <4>1. nxt[t] = Nil /\ t # s[n]
        BY <1>2, <2>1 DEF Chain
      <4> QED BY <1>1, <2>4, <3>1, <4>1
    <3>2. CASE i = n
      BY <1>1, <1>2, <2>1, <2>4, <3>2
    <3>3. CASE i # n /\ i # n + 1
      <4>1. i \in 1..n /\ i + 1 \in 1..n
        BY <1>1, <3>3
      <4>2. s[i] # s[n] /\ nxt[s[i]] = s[i + 1]
        BY <2>1, <3>3, <4>1 DEF Chain
      <4> QED BY <1>1, <1>2, <2>4, <3>3, <4>1, <4>2
    <3> QED BY <3>1, <3>2, <3>3
  <2>6. ASSUME NEW x \in Timer, x \notin Members(u) PROVE nxt'[x] = Nil
    <3>1. x # s[n] /\ nxt[x] = Nil
      BY <1>5, <2>1, <2>6 DEF Members, Chain
    <3> QED BY <2>4, <3>1
  <2>7. head' = u[1]
    BY <1>1, <2>1, <2>2, <2>3
  <2> QED BY <1>1, <1>4, <1>5, <2>5, <2>6, <2>7 DEF Chain, u
<1> QED BY <1>6, <1>7

(* list_rem() takes one out, wherever it is. *)
Cut(s, p) == [i \in 1..(Len(s) - 1) |-> IF i < p THEN s[i] ELSE s[i + 1]]

LEMMA ChainCut ==
  ASSUME TypeOK, NEW s \in Seq(Timer), Chain(s, head, nxt), NEW p \in 1..Len(s), list_rem(s[p])
  PROVE  /\ Cut(s, p) \in Seq(Timer) /\ Len(Cut(s, p)) = Len(s) - 1
         /\ Chain(Cut(s, p), head', nxt')
         /\ Members(Cut(s, p)) = Members(s) \ {s[p]}
<1> DEFINE n == Len(s)
           u == Cut(s, p)
           t == s[p]
<1>1. n \in Nat /\ p \in 1..n /\ \A i \in 1..n : s[i] \in Timer /\ s[i] # Nil
  BY ElementOfSeq, LenProperties, SizeIs
<1>2. ASSUME NEW i \in 1..(n - 1)
      PROVE  i \in 1..n /\ i + 1 \in 1..n /\ u[i] = IF i < p THEN s[i] ELSE s[i + 1]
  BY <1>1 DEF Cut
<1>3. u \in Seq(Timer) /\ Len(u) = n - 1
  <2>1. n - 1 \in Nat
    BY <1>1
  <2>2. u \in [1..(n - 1) -> Timer]
    BY <1>1, <1>2 DEF Cut
  <2> HIDE DEF u
  <2> QED BY <2>1, <2>2, SeqDef, LenProperties
<1> HIDE DEF u
<1>4. \A i, j \in 1..n : s[i] = s[j] => i = j
  BY DEF Chain
<1>5. \A i, j \in 1..(n - 1) : u[i] = u[j] => i = j
  <2> DEFINE At(i) == IF i < p THEN i ELSE i + 1
  <2>1. \A i \in 1..(n - 1) : At(i) \in 1..n /\ u[i] = s[At(i)]
    BY <1>1, <1>2
  <2>2. \A i, j \in 1..(n - 1) : At(i) = At(j) => i = j
    BY <1>1
  <2> HIDE DEF At
  <2> QED BY <1>4, <2>1, <2>2
<1>6. Members(u) = Members(s) \ {t}
  <2>1. ASSUME NEW i \in 1..(n - 1) PROVE u[i] \in Members(s) \ {t}
    <3>1. PICK j \in 1..n : u[i] = s[j] /\ j # p
      BY <1>1, <1>2
    <3>2. s[j] # s[p]
      BY <1>1, <1>4, <3>1
    <3> QED BY <3>1, <3>2 DEF Members
  <2>2. ASSUME NEW i \in 1..n, i # p PROVE \E j \in 1..(n - 1) : u[j] = s[i]
    <3>1. CASE i < p
      <4>1. i \in 1..(n - 1)
        BY <1>1, <3>1
      <4> QED BY <1>2, <3>1, <4>1
    <3>2. CASE i > p
      <4>1. i - 1 \in 1..(n - 1) /\ ~(i - 1 < p) /\ (i - 1) + 1 = i
        BY <1>1, <3>2
      <4> QED BY <1>2, <4>1
    <3> QED BY <1>1, <2>2, <3>1, <3>2
  <2>3. Members(u) \subseteq Members(s) \ {t}
    BY <1>3, <2>1 DEF Members
  <2>4. ASSUME NEW x \in Members(s), x # t PROVE x \in Members(u)
    <3>1. PICK i \in 1..n : x = s[i] /\ i # p
      BY <2>4 DEF Members
    <3>2. PICK j \in 1..(n - 1) : u[j] = x
      BY <2>2, <3>1
    <3> QED BY <1>3, <3>2 DEF Members
  <2> QED BY <2>3, <2>4
<1>7. head' = IF Len(u) = 0 THEN Nil ELSE u[1]
  <2>1. head = s[1] /\ head' = IF head = t THEN nxt[t] ELSE head
    BY <1>1 DEF Chain, list_rem
  <2>2. CASE p = 1
    <3>1. head' = nxt[s[1]] /\ nxt[s[1]] = IF 1 = n THEN Nil ELSE s[1 + 1]
      BY <1>1, <2>1, <2>2 DEF Chain
    <3>2. ASSUME n # 1 PROVE u[1] = s[1 + 1]
      <4>1. PICK m \in Nat : m = Len(s) /\ m >= 1
        BY <1>1
      <4>2. 1 \in 1..(n - 1)
        <5>1. m >= 2
          BY <3>2, <4>1
        <5>2. 1 \in 1..(m - 1)
          BY <5>1
        <5> QED BY <4>1, <5>2
      <4>3. u[1] = IF 1 < p THEN s[1] ELSE s[1 + 1]
        BY <1>2, <4>2
      <4> QED BY <2>2, <4>3
    <3> QED BY <1>1, <1>3, <3>1, <3>2
  <2>3. CASE p # 1
    <3>1. head' = s[1]
      BY <1>1, <1>4, <2>1, <2>3
    <3>2. 1 \in 1..(n - 1) /\ u[1] = s[1]
      BY <1>1, <1>2, <2>3
    <3> QED BY <1>1, <1>3, <3>1, <3>2
  <2> QED BY <2>2, <2>3
<1>8. \A x \in Timer : nxt'[x] = IF x = t THEN Nil ELSE IF nxt[x] = t THEN nxt[t] ELSE nxt[x]
  BY DEF list_rem
<1>9. ASSUME NEW i \in 1..n
      PROVE  nxt[s[i]] = (IF i = n THEN Nil ELSE s[i + 1]) /\ (nxt[s[i]] = t <=> i + 1 = p)
  <2>1. nxt[s[i]] = IF i = n THEN Nil ELSE s[i + 1]
    BY DEF Chain
  <2>2. i # n => i + 1 \in 1..n
    BY <1>1
  <2>3. i # n => (s[i + 1] = t <=> i + 1 = p)
    BY <1>1, <1>4, <2>2
  <2> QED BY <1>1, <2>1, <2>3
<1>10. ASSUME NEW i \in 1..(n - 1) PROVE nxt'[u[i]] = IF i = n - 1 THEN Nil ELSE u[i + 1]
  <2>1. i # n - 1 => i + 1 \in 1..(n - 1)
    BY <1>1
  <2>2. CASE i + 1 < p
    <3>1. u[i] = s[i] /\ s[i] # t /\ nxt[s[i]] = s[i + 1] /\ s[i + 1] # t /\ i # n - 1
      BY <1>1, <1>2, <1>4, <1>9, <2>2
    <3>2. u[i + 1] = s[i + 1]
      BY <1>2, <2>1, <2>2, <3>1
    <3> QED BY <1>1, <1>2, <1>8, <3>1, <3>2
  <2>3. CASE i + 1 = p
    <3>1. u[i] = s[i] /\ s[i] # t /\ nxt[s[i]] = t
      BY <1>1, <1>2, <1>4, <1>9, <2>3
    <3>2. nxt'[s[i]] = nxt[t] /\ nxt[t] = IF p = n THEN Nil ELSE s[p + 1]
      BY <1>1, <1>2, <1>8, <1>9, <3>1
    <3>3. i # n - 1 => u[i + 1] = s[p + 1]
      BY <1>2, <2>1, <2>3
    <3> QED BY <1>1, <2>3, <3>1, <3>2, <3>3
  <2>4. CASE i + 1 > p
    <3>1. u[i] = s[i + 1] /\ s[i + 1] # t
      BY <1>1, <1>2, <1>4, <2>4
    <3>2. nxt[s[i + 1]] = (IF i + 1 = n THEN Nil ELSE s[(i + 1) + 1]) /\ nxt[s[i + 1]] # t
      BY <1>1, <1>2, <1>9, <2>4
    <3>3. i # n - 1 => u[i + 1] = s[(i + 1) + 1]
      BY <1>2, <2>1, <2>4
    <3> QED BY <1>1, <1>2, <1>8, <3>1, <3>2, <3>3
  <2> QED BY <1>1, <2>2, <2>3, <2>4
<1>11. ASSUME NEW x \in Timer, x \notin Members(u) PROVE nxt'[x] = Nil
  <2>1. x = t \/ (x \notin Members(s) /\ nxt[x] = Nil)
    BY <1>6, <1>11 DEF Chain
  <2> QED BY <1>1, <1>8, <2>1
<1> QED BY <1>3, <1>5, <1>6, <1>7, <1>10, <1>11 DEF Chain, u

(* io_rem_timer() takes out what is in the list, and leaves it alone        *)
(* otherwise. *)
LEMMA Unlinked ==
  ASSUME TypeOK, NEW s \in Seq(Timer), Chain(s, head, nxt), NEW t \in Timer, Unlink(t)
  PROVE  \/ t \notin Members(s) /\ UNCHANGED <<list, step>>
         \/ /\ step' = StepFor(head', nxt')
            /\ \E q \in 1..Len(s) :
                 /\ s[q] = t
                 /\ Cut(s, q) \in Seq(Timer) /\ Len(Cut(s, q)) = Len(s) - 1
                 /\ Chain(Cut(s, q), head', nxt')
                 /\ Members(Cut(s, q)) = Members(s) \ {t}
<1>1. Listed = Members(s)
  BY ListedAre
<1>2. CASE t \notin Members(s)
  BY <1>1, <1>2 DEF Unlink
<1>3. CASE t \in Members(s)
  <2>1. list_rem(t) /\ step' = StepFor(head', nxt')
    BY <1>1, <1>3 DEF Unlink, reset_loop_timeout
  <2>2. PICK q \in 1..Len(s) : s[q] = t
    BY <1>3 DEF Members
  <2>3. list_rem(s[q])
    BY <2>1, <2>2
  <2>4. /\ Cut(s, q) \in Seq(Timer) /\ Len(Cut(s, q)) = Len(s) - 1
        /\ Chain(Cut(s, q), head', nxt')
        /\ Members(Cut(s, q)) = Members(s) \ {t}
    BY <2>2, <2>3, ChainCut
  <2> QED BY <2>1, <2>2, <2>4
<1> QED BY <1>2, <1>3

-----------------------------------------------------------------------------
(* The recursion of reset_loop_timeout(). *)
Narrowed(f, n, items) ==
  f = [k \in 0..n |->
         IF k = 0 THEN Default
         ELSE IF items[k - 1] = Nil THEN f[k - 1]
         ELSE Narrow(f[k - 1], Interval[items[k - 1]])]

LEMMA NarrowedExists ==
  ASSUME NEW items, NEW n \in Nat
  PROVE  \E f : Narrowed(f, n, items)
<1> DEFINE Missing == {k \in Nat : ~\E f : Narrowed(f, k, items)}
<1>1. SUFFICES ASSUME Missing # {} PROVE FALSE
  OBVIOUS
<1>2. PICK m \in Missing : \A k \in Missing : m <= k
  <2>1. Missing \in SUBSET Nat
    OBVIOUS
  <2> HIDE DEF Missing
  <2> QED BY <1>1, <2>1, Minimum
<1>3. CASE m = 0
  <2> DEFINE f == [k \in 0..0 |-> Default]
  <2>1. \A k \in 0..0 : k = 0
    OBVIOUS
  <2>2. Narrowed(f, 0, items)
    BY <2>1 DEF Narrowed
  <2> HIDE DEF f
  <2> QED BY <1>2, <1>3, <2>2
<1>4. CASE m # 0
  <2>1. m \in Nat /\ m - 1 \in Nat /\ ~(m <= m - 1)
    BY <1>4
  <2>2. PICK f : Narrowed(f, m - 1, items)
    BY <1>2, <2>1
  <2> DEFINE v == IF items[m - 1] = Nil THEN f[m - 1]
                  ELSE Narrow(f[m - 1], Interval[items[m - 1]])
             g == [k \in 0..m |-> IF k = m THEN v ELSE f[k]]
             w == [k \in 0..m |->
                     IF k = 0 THEN Default
                     ELSE IF items[k - 1] = Nil THEN g[k - 1]
                     ELSE Narrow(g[k - 1], Interval[items[k - 1]])]
  <2>3. ASSUME NEW k \in 0..m PROVE g[k] = w[k]
    <3>1. k # 0 => k - 1 \in 0..m /\ k - 1 # m
      BY <2>1
    <3>2. k # 0 => g[k - 1] = f[k - 1]
      BY <3>1
    <3>3. CASE k = m
      BY <1>4, <3>2, <3>3
    <3>4. CASE k # m
      <4>1. k \in 0..(m - 1) /\ g[k] = f[k]
        BY <2>1, <3>4
      <4>2. f[k] = IF k = 0 THEN Default
                   ELSE IF items[k - 1] = Nil THEN f[k - 1]
                   ELSE Narrow(f[k - 1], Interval[items[k - 1]])
        BY <2>2, <4>1 DEF Narrowed
      <4> QED BY <3>2, <4>1, <4>2
    <3> QED BY <3>3, <3>4
  <2>4. g = w
    BY <2>3
  <2>5. Narrowed(g, m, items)
    BY <2>4 DEF Narrowed
  <2> HIDE DEF g
  <2> QED BY <1>2, <2>5
<1> QED BY <1>3, <1>4

-----------------------------------------------------------------------------
(* Every common divisor divides the greatest one. *)
LEMMA Quotient ==
  ASSUME NEW d \in Nat \ {0}, NEW n \in Nat
  PROVE  n \div d \in Nat /\ n % d \in 0..(d - 1) /\ n = d * (n \div d) + (n % d)
OBVIOUS

LEMMA NoneBetween ==
  ASSUME NEW d \in Nat \ {0}, NEW x \in Int, NEW r \in 0..(d - 1), x * d = r
  PROVE  r = 0
<1>1. CASE x <= -1
  <2>1. x * d <= -d
    BY <1>1
  <2> QED BY <2>1
<1>2. CASE x >= 1
  <2>1. x * d >= d
    BY <1>2
  <2> QED BY <2>1
<1>3. CASE x = 0
  BY <1>3
<1> QED BY <1>1, <1>2, <1>3

LEMMA Multiple ==
  ASSUME NEW d \in Nat \ {0}, NEW n \in Nat, NEW q \in Int, n = q * d
  PROVE  n % d = 0
<1>1. PICK e \in Nat, r \in 0..(d - 1) : r = n % d /\ n = d * e + r
  BY Quotient
<1>2. q - e \in Int /\ (q - e) * d = r
  BY <1>1
<1> QED BY <1>1, <1>2, NoneBetween

LEMMA Factor ==
  ASSUME NEW d \in Nat \ {0}, NEW n \in Nat, n % d = 0
  PROVE  \E q \in Nat : n = q * d
<1>1. n \div d \in Nat /\ n = d * (n \div d) + (n % d)
  BY Quotient
<1>2. PICK e \in Nat : e = n \div d
  BY <1>1
<1>3. n = e * d
  BY <1>1, <1>2
<1> QED BY <1>3

LEMMA QuotientGrows ==
  ASSUME NEW d \in Nat \ {0}, NEW u \in Nat, NEW v \in Nat, u <= v
  PROVE  u \div d <= v \div d
<1>1. PICK e \in Nat, x \in 0..(d - 1) : e = u \div d /\ u = d * e + x
  BY Quotient
<1>2. PICK f \in Nat, y \in 0..(d - 1) : f = v \div d /\ v = d * f + y
  BY Quotient
<1>3. ASSUME f < e PROVE FALSE
  <2>1. d * (e - f) >= d
    BY <1>3
  <2>2. d * (e - f) = d * e - d * f
    OBVIOUS
  <2> QED BY <1>1, <1>2, <2>1, <2>2
<1> QED BY <1>1, <1>2, <1>3

LEMMA DividesOn ==
  ASSUME NEW d \in Nat \ {0}, NEW k \in Nat \ {0}, NEW n \in Nat, k % d = 0, n % k = 0
  PROVE  n % d = 0
<1>1. PICK p \in Nat : k = p * d
  BY Factor
<1>2. PICK q \in Nat : n = q * k
  BY Factor
<1>3. q * p \in Int /\ n = (q * p) * d
  BY <1>1, <1>2
<1> QED BY <1>3, Multiple

LEMMA NotLonger ==
  ASSUME NEW d \in Nat \ {0}, NEW n \in Nat \ {0}, n % d = 0
  PROVE  d <= n
<1>1. PICK q \in Nat : n = q * d
  BY Factor
<1>2. q # 0
  BY <1>1
<1>3. q >= 1 => q * d >= d
  OBVIOUS
<1> QED BY <1>1, <1>2, <1>3

(* What the least common multiple leaves of a common multiple is one too.   *)
LEMMA RestDivides ==
  ASSUME NEW d \in Nat \ {0}, NEW l \in Nat \ {0}, NEW n \in Nat, n % d = 0, l % d = 0
  PROVE  (n % l) % d = 0
<1>1. PICK q \in Nat, p \in Nat : n = q * d /\ l = p * d
  <2>1. PICK q \in Nat : n = q * d
    BY Factor
  <2>2. PICK p \in Nat : l = p * d
    BY Factor
  <2> QED BY <2>1, <2>2
<1>2. PICK e \in Nat, r \in 0..(l - 1) : r = n % l /\ n = l * e + r
  <2>1. n \div l \in Nat /\ n % l \in 0..(l - 1) /\ n = l * (n \div l) + (n % l)
    BY Quotient
  <2> QED BY ONLY <2>1
<1>3. q - p * e \in Int /\ r = (q - p * e) * d
  BY <1>1, <1>2
<1>4. r \in Nat
  OBVIOUS
<1> QED BY <1>2, <1>3, <1>4, Multiple

LEMMA LeastMultiple ==
  ASSUME NEW d \in Nat \ {0}, NEW g \in Nat \ {0}
  PROVE  \E l \in Nat \ {0} : /\ l % d = 0 /\ l % g = 0
                              /\ \A n \in Nat : n % d = 0 /\ n % g = 0 => n % l = 0
<1> DEFINE M == {n \in Nat : n # 0 /\ n % d = 0 /\ n % g = 0}
<1>1. d * g \in M
  <2>1. PICK n \in Nat : n = d * g /\ n # 0
    OBVIOUS
  <2>2. n = g * d
    BY <2>1
  <2>3. n % d = 0
    BY <2>2, Multiple
  <2>4. n % g = 0
    BY <2>1, Multiple
  <2> QED BY <2>1, <2>3, <2>4
<1>2. PICK l \in M : \A n \in M : l <= n
  <2>1. M \in SUBSET Nat /\ M # {}
    BY <1>1
  <2> HIDE DEF M
  <2> QED BY <2>1, Minimum
<1>3. ASSUME NEW n \in Nat, n % d = 0, n % g = 0 PROVE n % l = 0
  <2>1. PICK r \in 0..(l - 1) : r = n % l
    BY Quotient
  <2>2. r % d = 0 /\ r % g = 0
    BY <1>3, <2>1, RestDivides
  <2>3. r \notin M
    BY <1>2, <2>1
  <2> QED BY <2>1, <2>2, <2>3
<1> QED BY <1>2, <1>3

LEMMA GreatestDivides ==
  ASSUME NEW a \in Nat \ {0}, NEW b \in Nat,
         NEW g \in Nat \ {0}, a % g = 0, b % g = 0,
         \A i \in CommonDivisors(a, b) : g >= i,
         NEW d \in Nat \ {0}, a % d = 0, b % d = 0
  PROVE  g % d = 0
<1>1. PICK l \in Nat \ {0} : /\ l % d = 0 /\ l % g = 0
                             /\ \A n \in Nat : n % d = 0 /\ n % g = 0 => n % l = 0
  BY LeastMultiple
<1>2. a % l = 0 /\ b % l = 0
  BY <1>1
<1>3. l <= a
  BY <1>2, NotLonger
<1>4. l \in CommonDivisors(a, b)
  BY <1>2, <1>3 DEF CommonDivisors
<1>5. g <= l
  BY <1>1, NotLonger
<1> QED BY <1>1, <1>4, <1>5

(* What a beat of d units is to a time of n: it meets it and is no longer.  *)
Meets(d, n) == n % d = 0 /\ d <= n

LEMMA MeetsFew ==
  ASSUME NEW d \in Nat \ {0}
  PROVE  /\ Meets(d, 1) <=> d = 1
         /\ Meets(d, d) /\ ~Meets(d, 0)
         /\ \A n \in Nat \ {0} : Meets(1, n)
<1>1. d % d = 0
  BY Multiple
<1>2. \A n \in Nat : n % 1 = 0
  BY Multiple
<1> QED BY <1>1, <1>2 DEF Meets

Unit(a, b) == IF CommonDivisors(a, b) = {} THEN 1 ELSE Greatest(CommonDivisors(a, b))

LEMMA GreatestOf ==
  ASSUME NEW a \in Nat, NEW S \in SUBSET (1..a), S # {}
  PROVE  Greatest(S) \in S /\ \A j \in S : Greatest(S) >= j
<1> DEFINE Gaps == {a - i : i \in S}
<1>1. Gaps \in SUBSET Nat /\ Gaps # {}
  <2>1. \A i \in S : a - i \in Nat
    OBVIOUS
  <2> QED BY <2>1
<1>2. \E m \in Gaps : \A n \in Gaps : m <= n
  <2> HIDE DEF Gaps
  <2> QED BY <1>1, Minimum
<1>3. PICK i \in S : \A j \in S : a - i <= a - j
  BY <1>2
<1>4. \A j \in S : i >= j
  BY <1>3
<1> QED BY <1>3, <1>4 DEF Greatest

LEMMA UnitMeets ==
  ASSUME NEW a \in Nat, NEW b \in Nat, a <= b, NEW d \in Nat \ {0}
  PROVE  /\ Unit(a, b) \in Nat \ {0}
         /\ Meets(d, Unit(a, b)) <=> d = 1 \/ (Meets(d, a) /\ Meets(d, b))
<1> DEFINE D == CommonDivisors(a, b)
<1>1. CASE a = 0
  <2>1. D = {}
    BY <1>1 DEF CommonDivisors
  <2> QED BY <1>1, <2>1, MeetsFew DEF Unit
<1>2. CASE a # 0
  <2>1. 1 \in D
    <3>1. a % 1 = 0 /\ b % 1 = 0
      BY Multiple
    <3> QED BY <1>2, <3>1 DEF CommonDivisors
  <2>2. PICK g \in D : g = Greatest(D) /\ \A i \in D : g >= i
    <3>1. D \in SUBSET (1..a) /\ D # {}
      BY <2>1 DEF CommonDivisors
    <3> HIDE DEF D
    <3> QED BY <3>1, GreatestOf
  <2>3. g \in Nat \ {0} /\ a % g = 0 /\ b % g = 0 /\ g <= a
    BY DEF CommonDivisors
  <2>4. Unit(a, b) = g
    BY <2>1, <2>2 DEF Unit
  <2>5. ASSUME Meets(d, g) PROVE Meets(d, a) /\ Meets(d, b)
    <3>1. a % d = 0 /\ b % d = 0
      BY <2>3, <2>5, DividesOn DEF Meets
    <3> QED BY <2>3, <2>5, <3>1 DEF Meets
  <2>6. ASSUME Meets(d, a), Meets(d, b) PROVE Meets(d, g)
    <3>1. g % d = 0
      BY <1>2, <2>2, <2>3, <2>6, GreatestDivides DEF Meets
    <3> QED BY <2>3, <3>1, NotLonger DEF Meets
  <2>7. Meets(1, g)
    BY <2>3, MeetsFew
  <2> QED BY <2>3, <2>4, <2>5, <2>6, <2>7
<1> QED BY <1>1, <1>2

(* One round of reset_loop_timeout(). *)
LEMMA NarrowMeets ==
  ASSUME NEW m \in Nat \ {0}, NEW i \in Nat \ {0}
  PROVE  /\ Units(Narrow(m, i)) \in Nat \ {0} /\ Narrow(m, i) = Min * Units(Narrow(m, i))
         /\ \A d \in Nat \ {0} :
              Meets(d, Units(Narrow(m, i))) <=> d = 1 \/ (Meets(d, Units(m)) /\ Meets(d, Units(i)))
<1>1. PICK e \in Nat \ {0} : e = Min
  BY TimeAssumption
<1>2. PICK x \in Nat, y \in Nat : x = Units(m) /\ y = Units(i)
  <2>1. m \div e \in Nat /\ i \div e \in Nat
    BY Quotient
  <2> QED BY <1>1, <2>1 DEF Units
<1>3. (m > i => y <= x) /\ (~(m > i) => x <= y)
  <2>1. \A u, v \in Nat : u <= v => u \div e <= v \div e
    BY QuotientGrows
  <2> QED BY <1>1, <1>2, <2>1 DEF Units
<1>4. PICK u \in Nat \ {0} :
        /\ Narrow(m, i) = Min * u
        /\ \A d \in Nat \ {0} : Meets(d, u) <=> d = 1 \/ (Meets(d, x) /\ Meets(d, y))
  <2>1. CASE m > i
    <3>1. Narrow(m, i) = Min * Unit(y, x)
      BY <1>2, <2>1 DEF Narrow, Common, Unit, Units
    <3>2. \A d \in Nat \ {0} : /\ Unit(y, x) \in Nat \ {0}
                             /\ Meets(d, Unit(y, x)) <=> d = 1 \/ (Meets(d, y) /\ Meets(d, x))
      BY <1>3, <2>1, UnitMeets
    <3>3. Unit(y, x) \in Nat \ {0}
      BY <3>2
    <3> QED BY <3>1, <3>2, <3>3
  <2>2. CASE ~(m > i)
    <3>1. Narrow(m, i) = Min * Unit(x, y)
      BY <1>2, <2>2 DEF Narrow, Common, Unit, Units
    <3>2. \A d \in Nat \ {0} : /\ Unit(x, y) \in Nat \ {0}
                             /\ Meets(d, Unit(x, y)) <=> d = 1 \/ (Meets(d, x) /\ Meets(d, y))
      BY <1>3, <2>2, UnitMeets
    <3>3. Unit(x, y) \in Nat \ {0}
      BY <3>2
    <3> QED BY <3>1, <3>2, <3>3
  <2> QED BY <2>1, <2>2
<1>5. Units(Narrow(m, i)) = u
  <2>1. (e * u) \div e = u
    OBVIOUS
  <2> QED BY <1>1, <1>4, <2>1 DEF Units
<1> QED BY <1>2, <1>4, <1>5

(* A step u that meets the beat of the timers L, and with it every beat     *)
(* that does. *)
Pace(u, L) ==
  /\ u = IF L = {} THEN Default ELSE Min * Units(u)
  /\ Units(u) \in Nat \ {0}
  /\ \A d \in Nat \ {0} :
       Meets(d, Units(u)) <=>
         d = 1 \/ (Meets(d, Units(Default)) /\ \A t \in L : Meets(d, Units(Interval[t])))

LEMMA PaceTyped ==
  ASSUME NEW u, NEW L, Pace(u, L)
  PROVE  u \in Nat \ {0}
<1>1. PICK e \in Nat \ {0}, c \in Nat \ {0} : e = Min /\ c = Default
  BY TimeAssumption
<1>2. PICK v \in Nat \ {0} : v = Units(u)
  BY DEF Pace
<1>3. e * v \in Nat \ {0}
  OBVIOUS
<1> QED BY <1>1, <1>2, <1>3 DEF Pace

LEMMA PaceNone == Pace(Default, {})
<1>1. PICK e \in Nat \ {0}, c \in Nat : e = Min /\ c = Default /\ e <= c
  BY TimeAssumption
<1>2. e \div e = 1
  OBVIOUS
<1>3. c \div e \in Nat \ {0}
  BY <1>1, <1>2, QuotientGrows, Quotient
<1>4. Units(Default) \in Nat \ {0}
  BY <1>1, <1>3 DEF Units
<1>5. Meets(1, Units(Default))
  BY <1>4, MeetsFew
<1> QED BY <1>4, <1>5 DEF Pace

LEMMA PaceAdded ==
  ASSUME NEW u, NEW L, Pace(u, L), NEW t \in Timer
  PROVE  Pace(Narrow(u, Interval[t]), L \cup {t})
<1>1. PICK m \in Nat \ {0} : m = u
  BY PaceTyped
<1>2. PICK i \in Nat \ {0} : i = Interval[t]
  BY TimeAssumption
<1>3. PICK v : v = Narrow(m, i)
  OBVIOUS
<1>4. /\ Units(v) \in Nat \ {0} /\ v = Min * Units(v)
      /\ \A d \in Nat \ {0} :
           Meets(d, Units(v)) <=> d = 1 \/ (Meets(d, Units(m)) /\ Meets(d, Units(i)))
  BY <1>3, NarrowMeets
<1>5. ASSUME NEW d \in Nat \ {0}
      PROVE  Meets(d, Units(v)) <=>
               d = 1 \/ (/\ Meets(d, Units(Default))
                         /\ \A k \in L \cup {t} : Meets(d, Units(Interval[k])))
  <2>1. Meets(d, Units(m)) <=>
          d = 1 \/ (Meets(d, Units(Default)) /\ \A k \in L : Meets(d, Units(Interval[k])))
    BY <1>1 DEF Pace
  <2> QED BY <1>2, <1>4, <2>1
<1>6. Pace(v, L \cup {t})
  BY <1>4, <1>5 DEF Pace
<1> QED BY <1>1, <1>2, <1>3, <1>6

First(s, k) == {s[j] : j \in {i \in 1..Len(s) : i <= k}}

(* reset_loop_timeout() finds the step that meets the beat of the list. *)
LEMMA StepPaces ==
  ASSUME NEW h, NEW nx, NEW s \in Seq(Timer), Chain(s, h, nx)
  PROVE  Pace(StepFor(h, nx), Members(s))
<1> DEFINE N == Cardinality(Timer)
           items == Items(h, nx)
           f == CHOOSE upTo : upTo = [k \in 0..N |->
                  IF k = 0 THEN Default
                  ELSE IF items[k - 1] = Nil THEN upTo[k - 1]
                  ELSE Narrow(upTo[k - 1], Interval[items[k - 1]])]
<1>1. N \in Nat /\ Len(s) \in Nat /\ Len(s) <= N
  BY SizeIs, ChainLength
<1>2. StepFor(h, nx) = f[N]
  BY DEF StepFor
<1>3. \A k \in 0..N : items[k] = IF k < Len(s) THEN s[k + 1] ELSE Nil
  BY ItemsAre
<1> HIDE DEF items
<1>4. Narrowed(f, N, items)
  BY <1>1, NarrowedExists DEF Narrowed
<1> HIDE DEF f, N
<1>5. Pace(f[0], First(s, 0))
  <2>1. f[0] = Default
    BY <1>1, <1>4 DEF Narrowed
  <2>2. First(s, 0) = {}
    BY DEF First
  <2> QED BY <2>1, <2>2, PaceNone
<1>6. ASSUME NEW m \in 1..N, Pace(f[m - 1], First(s, m - 1))
      PROVE  Pace(f[m], First(s, m))
  <2>1. m \in 0..N /\ m - 1 \in 0..N /\ m # 0
    BY <1>1
  <2>2. f[m] = IF items[m - 1] = Nil THEN f[m - 1] ELSE Narrow(f[m - 1], Interval[items[m - 1]])
    BY <1>4, <2>1 DEF Narrowed
  <2>3. CASE m <= Len(s)
    <3>1. m \in 1..Len(s) /\ items[m - 1] = s[m]
      BY <1>1, <1>3, <2>1, <2>3
    <3>2. s[m] \in Timer /\ s[m] # Nil
      BY <3>1, ElementOfSeq, SizeIs
    <3>3. First(s, m) = First(s, m - 1) \cup {s[m]}
      BY <1>1, <3>1 DEF First
    <3>4. PICK t \in Timer : t = s[m]
      BY <3>2
    <3>5. PICK u : u = f[m - 1]
      OBVIOUS
    <3>6. PICK L : L = First(s, m - 1)
      OBVIOUS
    <3>7. L \subseteq Timer
      BY <3>6, ElementOfSeq, <1>1 DEF First
    <3>8. f[m] = Narrow(u, Interval[t]) /\ First(s, m) = L \cup {t}
      BY <2>2, <3>1, <3>2, <3>3, <3>4, <3>5, <3>6
    <3>9. Pace(u, L)
      BY <1>6, <3>5, <3>6
    <3>10. Pace(Narrow(u, Interval[t]), L \cup {t})
      BY <3>7, <3>9, PaceAdded
    <3> QED BY <3>8, <3>10
  <2>4. CASE ~(m <= Len(s))
    <3>1. items[m - 1] = Nil
      BY <1>1, <1>3, <2>1, <2>4
    <3>2. First(s, m) = First(s, m - 1)
      BY <1>1, <2>4 DEF First
    <3> QED BY <1>6, <2>2, <3>1, <3>2
  <2> QED BY <2>3, <2>4
<1>7. Pace(f[N], First(s, N))
  <2> DEFINE Wrong == {k \in 0..N : ~Pace(f[k], First(s, k))}
  <2>1. SUFFICES ASSUME Wrong # {} PROVE FALSE
    BY <1>1
  <2>2. PICK m \in Wrong : \A k \in Wrong : m <= k
    <3>1. Wrong \in SUBSET Nat
      BY <1>1
    <3> HIDE DEF Wrong
    <3> QED BY <2>1, <3>1, Minimum
  <2>3. m \in 1..N /\ m - 1 \in 0..N /\ m - 1 \notin Wrong
    <3>1. m \in 0..N /\ m # 0
      BY <1>5
    <3>2. m \in 1..N /\ m - 1 \in 0..N /\ ~(m <= m - 1)
      BY <1>1, <3>1
    <3> HIDE DEF Wrong
    <3> QED BY <2>2, <3>2
  <2> QED BY <1>6, <2>3
<1>8. First(s, N) = Members(s)
  BY <1>1 DEF First, Members
<1> QED BY <1>2, <1>7, <1>8

LEMMA StepTyped ==
  ASSUME NEW h, NEW nx, NEW s \in Seq(Timer), Chain(s, h, nx)
  PROVE  StepFor(h, nx) \in Nat \ {0}
BY StepPaces, PaceTyped

-----------------------------------------------------------------------------
(* last_ms holds what it can of when a timer was last called, and a walk    *)
(* goes by a time that is not ahead of the clock.  At a callback the walk   *)
(* has left the timer it calls behind. *)
LastIs == \A t \in Timer : last[t] = since[t] % Width
Walking == at \in {"walk", "callback"}
WalkSound ==
  /\ Walking => walk.now <= now
  /\ at = "callback" => walk.timer \in Timer /\ walk.next # walk.timer

(* The walk is at a place of the list, or just behind its end and what was  *)
(* added to it meanwhile, and none of the timers before that place is due.  *)
Before(s, p) ==
  /\ walk.next = IF p <= Len(s) THEN s[p] ELSE Nil
  /\ \A i \in 1..Len(s) : i < p => walk.now < since[s[i]] + Interval[s[i]]
Place(s) == Walking /\ ~walk.cut => \E p \in Nat \ {0} : Before(s, p)

Orderly(s) ==
  /\ s \in Seq(Timer) /\ Chain(s, head, nxt)
  /\ Members(s) = added
  /\ Place(s)

TimersInv == TypeOK /\ LastIs /\ WalkSound /\ \E s \in Seq(Timer) : Orderly(s)

LEMMA InitHolds == Init => TimersInv
<1> SUFFICES ASSUME Init PROVE TimersInv
  OBVIOUS
<1>1. TypeOK
  <2>1. 0 \in 0..(Width - 1)
    BY TimeAssumption
  <2>2. passes \in Seq([start : Nat, timeout : Nat]) /\ (at = "idle" <=> passes = <<>>)
    BY DEF Init
  <2>3. step \in Nat \ {0}
    BY TimeAssumption DEF Init
  <2>4. calls \in 0..MaxCalls
    BY BoundAssumption DEF Init
  <2> QED BY <2>1, <2>2, <2>3, <2>4 DEF Init, TypeOK, Link, NoWalk
<1>2. LastIs
  BY TimeAssumption DEF Init, LastIs
<1>3. WalkSound
  BY DEF Init, WalkSound, Walking
<1>4. <<>> \in Seq(Timer) /\ Len(<<>>) = 0
  OBVIOUS
<1>5. Orderly(<<>>)
  <2>1. Members(<<>>) = {}
    BY <1>4 DEF Members
  <2>2. Chain(<<>>, head, nxt)
    BY <1>4 DEF Init, Chain
  <2>3. Place(<<>>)
    BY DEF Init, Place, Walking
  <2> QED BY <1>4, <2>1, <2>2, <2>3 DEF Orderly, Init
<1> QED BY <1>1, <1>2, <1>3, <1>4, <1>5 DEF TimersInv

(* What is in no list can be added, and what can be added is in none. *)
LEMMA CanAddIs ==
  ASSUME NEW s \in Seq(Timer), Chain(s, head, nxt), NEW t \in Timer
  PROVE  CanAdd(t) <=> t \notin Members(s)
BY ListedAre DEF CanAdd, Chain

LEMMA AddHolds ==
  ASSUME TimersInv, NEW t \in Timer, io_add_timer(t)
  PROVE  TimersInv'
<1> PICK s \in Seq(Timer) : Orderly(s)
  BY DEF TimersInv
<1>1. Chain(s, head, nxt) /\ Members(s) = added /\ TypeOK
  BY DEF Orderly, TimersInv
<1>2. now \in Nat /\ now' \in Nat /\ now <= now'
  <2>1. \A p \in Pauses \cup {0} : p \in Nat
    BY BoundAssumption
  <2> QED BY <2>1 DEF io_add_timer, TimersInv, TypeOK
<1>3. Len(s) \in Nat /\ \A i \in 1..Len(s) : s[i] \in Timer
  BY ElementOfSeq, LenProperties
<1>4. /\ since' \in [Timer -> Nat]
      /\ \A u \in Timer : since'[u] = since[u] \/ (u = t /\ since'[u] = now)
      /\ (t \in RunNow \/ CanAdd(t)) => since'[t] = now
  BY <1>2 DEF io_add_timer, TimersInv, TypeOK
<1>5. last' \in [Timer -> 0..(Width - 1)] /\ LastIs'
  <2>1. now % Width \in 0..(Width - 1)
    BY <1>2, TimeAssumption
  <2> QED BY <2>1, <1>2 DEF io_add_timer, TimersInv, TypeOK, LastIs
<1>6. WalkSound'
  BY <1>2 DEF TimersInv, TypeOK, WalkSound, Walking, io_add_timer
<1>7. ASSUME NEW i \in 1..Len(s), Walking, walk.now < since[s[i]] + Interval[s[i]]
      PROVE  walk.now < since'[s[i]] + Interval[s[i]]
  <2>1. walk.now <= now /\ walk.now \in Nat /\ since[s[i]] \in Nat
    BY <1>3, <1>7 DEF TimersInv, TypeOK, WalkSound
  <2>2. Interval[s[i]] \in Nat /\ Interval[s[i]] > 0
    BY <1>3, TimeAssumption
  <2>3. since'[s[i]] = since[s[i]] \/ since'[s[i]] = now
    BY <1>3, <1>4
  <2> QED BY <1>2, <1>7, <2>1, <2>2, <2>3
<1>8. /\ calls' \in 0..MaxCalls /\ added' \in SUBSET Timer
      /\ UNCHANGED <<running, passes, at, walk>>
  BY BoundAssumption DEF io_add_timer, TimersInv, TypeOK
<1>9. CASE CanAdd(t)
  <2> DEFINE u == Append(s, t)
  <2>1. t \notin Members(s) /\ list_add(t) /\ step' = StepFor(head', nxt')
    BY <1>1, <1>9, CanAddIs DEF io_add_timer, reset_loop_timeout
  <2>2. /\ u \in Seq(Timer) /\ Len(u) = Len(s) + 1
        /\ Chain(u, head', nxt') /\ Members(u) = Members(s) \cup {t}
    BY <1>1, <2>1, ChainAdded
  <2>3. u[Len(s) + 1] = t /\ \A i \in 1..Len(s) : u[i] = s[i]
    BY AppendProperties
  <2> HIDE DEF u
  <2>4. step' \in Nat \ {0}
    BY <2>1, <2>2, StepTyped
  <2>5. head' \in Link /\ nxt' \in [Timer -> Link]
    BY <1>1, <2>1 DEF TypeOK, Link, list_add
  <2>6. TypeOK'
    BY <1>2, <1>4, <1>5, <1>8, <2>4, <2>5 DEF TimersInv, TypeOK
  <2>7. ASSUME Walking', ~walk'.cut PROVE \E p \in Nat \ {0} : Before(u, p)'
    <3>1. Walking /\ ~walk.cut
      BY <1>8, <2>7 DEF Walking
    <3>2. PICK p \in Nat \ {0} : Before(s, p)
      BY <3>1 DEF Orderly, Place
    <3>3. PICK q \in Nat \ {0} : q = IF p = Len(s) + 1 THEN p + 1 ELSE p
      BY <1>3
    <3>4. PICK n \in Nat : n = Len(s)
      BY <1>3
    <3>5. walk'.next = IF q <= Len(u) THEN u[q] ELSE Nil
      <4>1. walk'.next = IF p <= n THEN s[p] ELSE Nil
        BY <1>8, <3>2, <3>4 DEF Before
      <4>2. p <= n => q = p /\ p \in 1..n /\ q <= n + 1
        BY <3>3, <3>4
      <4>3. ~(p <= n) => ~(q <= n + 1)
        BY <3>3, <3>4
      <4> QED BY <2>2, <2>3, <3>4, <4>1, <4>2, <4>3
    <3>6. ASSUME NEW i \in 1..Len(u), i < q
          PROVE  walk'.now < since'[u[i]] + Interval[u[i]]
      <4>1. CASE i = n + 1
        <5>1. u[i] = t /\ since'[t] = now
          BY <1>4, <1>9, <2>3, <3>4, <4>1
        <5>2. walk.now <= now /\ walk.now \in Nat
          BY <3>1 DEF TimersInv, TypeOK, WalkSound
        <5>3. Interval[t] \in Nat /\ Interval[t] > 0
          BY TimeAssumption
        <5> QED BY <1>2, <1>8, <5>1, <5>2, <5>3
      <4>2. CASE i # n + 1
        <5>1. i \in 1..n /\ i < p
          BY <2>2, <3>3, <3>4, <3>6, <4>2
        <5>2. u[i] = s[i] /\ walk.now < since[s[i]] + Interval[s[i]]
          BY <2>3, <3>2, <3>4, <5>1 DEF Before
        <5> QED BY <1>7, <1>8, <3>1, <3>4, <5>1, <5>2
      <4> QED BY <4>1, <4>2
    <3> QED BY <3>5, <3>6 DEF Before
  <2>8. Members(u) = added'
    BY <1>1, <2>2 DEF io_add_timer
  <2>9. Orderly(u)'
    BY <2>2, <2>7, <2>8 DEF Orderly, Place
  <2> QED BY <1>5, <1>6, <2>2, <2>6, <2>9 DEF TimersInv
<1>10. CASE ~CanAdd(t)
  <2>1. t \in Members(s) /\ UNCHANGED <<head, nxt, step>>
    BY <1>1, <1>10, CanAddIs DEF io_add_timer, list
  <2>2. TypeOK'
    BY <1>2, <1>4, <1>5, <1>8, <2>1 DEF TimersInv, TypeOK
  <2>3. Chain(s, head', nxt')
    BY <1>1, <2>1
  <2>4. Members(s) = added'
    BY <1>1, <2>1 DEF io_add_timer
  <2>5. Place(s)'
    <3>1. SUFFICES ASSUME Walking', ~walk'.cut PROVE \E p \in Nat \ {0} : Before(s, p)'
      BY DEF Place
    <3>2. Walking /\ ~walk.cut
      BY <1>8, <3>1 DEF Walking
    <3>3. PICK p \in Nat \ {0} : Before(s, p)
      BY <3>2 DEF Orderly, Place
    <3>4. \A i \in 1..Len(s) : i < p => walk'.now < since'[s[i]] + Interval[s[i]]
      BY <1>7, <1>8, <3>2, <3>3 DEF Before
    <3>5. walk'.next = IF p <= Len(s) THEN s[p] ELSE Nil
      BY <1>8, <3>3 DEF Before
    <3> QED BY <3>4, <3>5 DEF Before
  <2>6. Orderly(s)'
    BY <2>3, <2>4, <2>5 DEF Orderly
  <2> QED BY <1>5, <1>6, <2>2, <2>6 DEF TimersInv
<1> QED BY <1>9, <1>10

(* Taking out any timer but the one the walk goes to next leaves the walk   *)
(* at a place of the list. *)
LEMMA UnlinkHolds ==
  ASSUME TypeOK, NEW s \in Seq(Timer), Orderly(s), NEW t \in Timer, Unlink(t),
         added' = added \ {t}, since' = since, walk'.now = walk.now, walk'.next = walk.next,
         Walking' /\ ~walk'.cut => Walking /\ ~walk.cut /\ walk.next # t
  PROVE  /\ head' \in Link /\ nxt' \in [Timer -> Link] /\ step' \in Nat \ {0}
         /\ \E u \in Seq(Timer) : Orderly(u)'
<1>1. Chain(s, head, nxt) /\ Members(s) = added
  BY DEF Orderly
<1>2. head' \in Link /\ nxt' \in [Timer -> Link]
  BY DEF TypeOK, Unlink, list_rem, list, Link
<1>3. CASE t \notin Members(s) /\ UNCHANGED <<list, step>>
  <2>1. Chain(s, head', nxt') /\ Members(s) = added'
    BY <1>1, <1>3 DEF list
  <2>2. Place(s)'
    BY DEF Orderly, Place, Before
  <2> QED BY <1>2, <1>3, <2>1, <2>2 DEF Orderly, TypeOK
<1>4. ASSUME NEW q \in 1..Len(s), s[q] = t, step' = StepFor(head', nxt'),
             Cut(s, q) \in Seq(Timer), Len(Cut(s, q)) = Len(s) - 1,
             Chain(Cut(s, q), head', nxt'), Members(Cut(s, q)) = Members(s) \ {t}
      PROVE  step' \in Nat \ {0} /\ \E u \in Seq(Timer) : Orderly(u)'
  <2> DEFINE u == Cut(s, q)
  <2>1. step' \in Nat \ {0}
    BY <1>4, StepTyped
  <2>2. Members(u) = added'
    BY <1>1, <1>4
  <2>3. PICK n \in Nat : n = Len(s)
    BY LenProperties
  <2>4. \A i \in 1..(n - 1) : u[i] = IF i < q THEN s[i] ELSE s[i + 1]
    BY <2>3 DEF Cut
  <2> HIDE DEF u
  <2>5. ASSUME Walking', ~walk'.cut PROVE \E p \in Nat \ {0} : Before(u, p)'
    <3>1. PICK p \in Nat \ {0} : Before(s, p)
      BY <2>5 DEF Orderly, Place
    <3>2. p # q
      BY <1>4, <2>5, <3>1 DEF Before
    <3>3. PICK r \in Nat \ {0} : r = IF q < p THEN p - 1 ELSE p
      BY <1>4
    <3>4. walk'.next = IF r <= n - 1 THEN u[r] ELSE Nil
      <4>1. walk'.next = IF p <= n THEN s[p] ELSE Nil
        BY <2>3, <3>1 DEF Before
      <4>2. CASE q < p
        <5>1. r = p - 1 /\ (p <= n <=> r <= n - 1)
          BY <2>3, <3>3, <4>2
        <5>2. r <= n - 1 => r \in 1..(n - 1) /\ ~(r < q) /\ r + 1 = p
          BY <1>4, <2>3, <4>2, <5>1
        <5>3. r <= n - 1 => u[r] = s[p]
          BY <2>4, <5>2
        <5> QED BY <4>1, <5>1, <5>3
      <4>3. CASE p < q
        <5>1. r = p /\ p <= n /\ r <= n - 1 /\ r \in 1..(n - 1) /\ r < q
          BY <1>4, <2>3, <3>3, <4>3
        <5>2. u[r] = s[p]
          BY <2>4, <5>1
        <5> QED BY <4>1, <5>1, <5>2
      <4> QED BY <1>4, <2>3, <3>2, <4>2, <4>3
    <3>5. ASSUME NEW i \in 1..(n - 1), i < r
          PROVE  walk'.now < since'[u[i]] + Interval[u[i]]
      <4>1. PICK j \in 1..n : u[i] = s[j] /\ j < p
        <5>1. CASE i < q
          <6>1. i \in 1..n /\ i < p
            BY <2>3, <3>3, <3>5
          <6> QED BY <2>4, <5>1, <6>1
        <5>2. CASE ~(i < q)
          <6>1. i + 1 \in 1..n /\ i + 1 < p
            BY <1>4, <2>3, <3>2, <3>3, <3>5, <5>2
          <6> QED BY <2>4, <5>2, <6>1
        <5> QED BY <5>1, <5>2
      <4>2. walk.now < since[s[j]] + Interval[s[j]]
        BY <2>3, <3>1, <4>1 DEF Before
      <4> QED BY <4>1, <4>2
    <3>6. Len(u) = n - 1
      BY <1>4, <2>3 DEF u
    <3> QED BY <3>4, <3>5, <3>6 DEF Before
  <2>6. u \in Seq(Timer) /\ Chain(u, head', nxt')
    BY <1>4 DEF u
  <2>7. Orderly(u)'
    BY <2>2, <2>5, <2>6 DEF Orderly, Place
  <2> QED BY <2>1, <2>6, <2>7
<1> QED BY <1>1, <1>2, <1>3, <1>4, Unlinked

LEMMA RemHolds ==
  ASSUME TimersInv, NEW t \in Timer, io_rem_timer(t)
  PROVE  TimersInv'
<1> PICK s \in Seq(Timer) : Orderly(s)
  BY DEF TimersInv
<1>1. TypeOK /\ Unlink(t) /\ added' = added \ {t} /\ since' = since /\ at # "walk" /\ at' = at
  BY DEF TimersInv, io_rem_timer
<1>2. /\ walk' \in [now : Nat, next : Link, timer : Link, cut : BOOLEAN]
      /\ walk'.now = walk.now /\ walk'.next = walk.next /\ walk'.timer = walk.timer
      /\ walk'.cut = (walk.cut \/ (at = "callback" /\ walk.next = t))
  BY <1>1 DEF TypeOK, io_rem_timer
<1>3. Walking' /\ ~walk'.cut => Walking /\ ~walk.cut /\ walk.next # t
  BY <1>1, <1>2 DEF Walking
<1>4. /\ head' \in Link /\ nxt' \in [Timer -> Link] /\ step' \in Nat \ {0}
      /\ \E u \in Seq(Timer) : Orderly(u)'
  BY <1>1, <1>2, <1>3, UnlinkHolds
<1>5. calls' \in 0..MaxCalls
  BY <1>1, BoundAssumption DEF TypeOK, io_rem_timer
<1>6. TypeOK'
  BY <1>1, <1>2, <1>4, <1>5 DEF TypeOK, io_rem_timer
<1>7. LastIs' /\ WalkSound'
  BY <1>2 DEF TimersInv, io_rem_timer, LastIs, WalkSound, Walking
<1> QED BY <1>4, <1>6, <1>7 DEF TimersInv

LEMMA ReturnHolds ==
  ASSUME TimersInv, CallbackReturns
  PROVE  TimersInv'
<1> PICK s \in Seq(Timer) : Orderly(s)
  BY DEF TimersInv
<1>1. /\ at = "callback" /\ at' = "walk" /\ walk.timer \in Timer /\ walk.next # walk.timer
      /\ UNCHANGED <<last, running, now, passes, walk, calls, since>>
  BY DEF TimersInv, WalkSound, CallbackReturns
<1>2. /\ head' \in Link /\ nxt' \in [Timer -> Link] /\ step' \in Nat \ {0}
      /\ added' \subseteq Timer
      /\ \E u \in Seq(Timer) : Orderly(u)'
  <2>1. CASE walk.timer \in Repeating
    <3>1. UNCHANGED <<head, nxt, step, added>>
      BY <2>1 DEF CallbackReturns, list
    <3>2. Orderly(s)'
      BY <1>1, <3>1 DEF Orderly, Place, Before, Walking
    <3> QED BY <3>1, <3>2 DEF TimersInv, TypeOK
  <2>2. CASE walk.timer \notin Repeating
    <3>1. TypeOK /\ Unlink(walk.timer) /\ added' = added \ {walk.timer}
      BY <2>2 DEF CallbackReturns, TimersInv
    <3>2. Walking' /\ ~walk'.cut => Walking /\ ~walk.cut /\ walk.next # walk.timer
      BY <1>1 DEF Walking
    <3>3. /\ head' \in Link /\ nxt' \in [Timer -> Link] /\ step' \in Nat \ {0}
          /\ \E u \in Seq(Timer) : Orderly(u)'
      BY <1>1, <3>1, <3>2, UnlinkHolds
    <3> QED BY <3>1, <3>3 DEF TypeOK
  <2> QED BY <2>1, <2>2
<1>3. TypeOK'
  BY <1>1, <1>2 DEF TypeOK, TimersInv
<1>4. LastIs' /\ WalkSound'
  BY <1>1 DEF TimersInv, LastIs, WalkSound, Walking
<1> QED BY <1>2, <1>3, <1>4 DEF TimersInv

(* A timer that is not due by last_ms is not due by when it was called. *)
LEMMA NotDue ==
  ASSUME TimersInv, NEW t \in Timer, ~Due(t)
  PROVE  walk.now < since[t] + Interval[t]
<1>1. /\ since[t] \in Nat /\ Interval[t] \in Nat /\ Width \in Nat /\ Width > 0 /\ walk.now \in Nat
      /\ last[t] = since[t] % Width
  BY TimeAssumption DEF TimersInv, TypeOK, LastIs
<1>2. last[t] \in Nat /\ last[t] <= since[t]
  BY <1>1
<1>3. (last[t] + Interval[t]) % Width <= last[t] + Interval[t]
  BY <1>1, <1>2
<1>4. ~(walk.now >= (last[t] + Interval[t]) % Width)
  BY DEF Due
<1>5. (last[t] + Interval[t]) % Width \in Int
  BY <1>1, <1>2
<1> QED BY <1>1, <1>2, <1>3, <1>4, <1>5

LEMMA IsDue ==
  ASSUME TimersInv, NEW t \in Timer, Due(t)
  PROVE  walk.now >= since[t] + Interval[t] \/ since[t] + Interval[t] >= Width
<1>1. /\ since[t] \in Nat /\ Interval[t] \in Nat /\ Width \in Nat /\ Width > 0 /\ walk.now \in Nat
      /\ last[t] = since[t] % Width
  BY TimeAssumption DEF TimersInv, TypeOK, LastIs
<1>2. SUFFICES ASSUME since[t] + Interval[t] < Width
               PROVE  walk.now >= since[t] + Interval[t]
  BY <1>1
<1>3. last[t] = since[t]
  BY <1>1, <1>2
<1>4. (since[t] + Interval[t]) % Width = since[t] + Interval[t]
  BY <1>1, <1>2
<1> QED BY <1>3, <1>4 DEF Due

LEMMA VisitHolds ==
  ASSUME TimersInv, Visit
  PROVE  TimersInv'
<1> PICK s \in Seq(Timer) : Orderly(s)
  BY DEF TimersInv
<1> DEFINE t == walk.next
<1>1. /\ t \in Timer /\ at = "walk" /\ walk.now \in Nat /\ walk.cut \in BOOLEAN /\ walk.now <= now
      /\ nxt[t] \in Link
  BY SizeIs DEF Visit, TimersInv, TypeOK, Link, WalkSound, Walking
<1>2. /\ walk'.next = nxt[t] /\ walk'.timer = (IF Due(t) THEN t ELSE Nil)
      /\ walk'.now = walk.now /\ walk'.cut = walk.cut
      /\ walk' \in [now : Nat, next : Link, timer : Link, cut : BOOLEAN]
  <2>1. walk \in [now : Nat, next : Link, timer : Link, cut : BOOLEAN]
    BY DEF TimersInv, TypeOK
  <2>2. walk' = [walk EXCEPT !.next = nxt[t], !.timer = IF Due(t) THEN t ELSE Nil]
    BY DEF Visit
  <2> QED BY <1>1, <2>1, <2>2 DEF Link
<1>3. /\ at' = (IF Due(t) THEN "callback" ELSE "walk")
      /\ UNCHANGED <<head, nxt, step, running, now, passes, calls, added>>
  BY DEF Visit, list
<1>4. /\ since' \in [Timer -> Nat]
      /\ \A u \in Timer : since'[u] = IF u = t /\ Due(t) THEN walk.now ELSE since[u]
  <2>1. since' = IF Due(t) THEN [since EXCEPT ![t] = walk.now] ELSE since
    BY DEF Visit
  <2>2. since \in [Timer -> Nat]
    BY DEF TimersInv, TypeOK
  <2> QED BY <1>1, <2>1, <2>2
<1>5. last' \in [Timer -> 0..(Width - 1)] /\ LastIs'
  <2>1. walk.now % Width \in 0..(Width - 1)
    BY <1>1, TimeAssumption
  <2>2. last' = IF Due(t) THEN [last EXCEPT ![t] = walk.now % Width] ELSE last
    BY DEF Visit
  <2>3. last \in [Timer -> 0..(Width - 1)] /\ \A u \in Timer : last[u] = since[u] % Width
    BY DEF TimersInv, TypeOK, LastIs
  <2> QED BY <1>1, <1>4, <2>1, <2>2, <2>3 DEF LastIs
<1>6. TypeOK'
  BY <1>1, <1>2, <1>3, <1>4, <1>5 DEF TimersInv, TypeOK
<1>7. nxt[t] # t
  <2>1. Chain(s, head, nxt) /\ t # Nil
    BY <1>1, SizeIs DEF Orderly
  <2>2. CASE t \notin Members(s)
    BY <1>1, <2>1, <2>2 DEF Chain
  <2>3. CASE t \in Members(s)
    <3>1. PICK i \in 1..Len(s) : s[i] = t
      BY <2>3 DEF Members
    <3>2. nxt[t] = IF i = Len(s) THEN Nil ELSE s[i + 1]
      BY <2>1, <3>1 DEF Chain
    <3>3. i # Len(s) => i + 1 \in 1..Len(s) /\ i + 1 # i
      BY LenProperties
    <3> QED BY <2>1, <3>1, <3>2, <3>3 DEF Chain
  <2> QED BY <2>2, <2>3
<1>8. WalkSound'
  BY <1>1, <1>2, <1>3, <1>7 DEF WalkSound, Walking
<1>9. ASSUME ~walk'.cut PROVE \E p \in Nat \ {0} : Before(s, p)'
  <2>1. PICK p \in Nat \ {0} : Before(s, p)
    BY <1>1, <1>2, <1>9 DEF Orderly, Place, Walking
  <2>2. PICK n \in Nat : n = Len(s)
    BY LenProperties
  <2>3. p <= n /\ t = s[p]
    BY <1>1, <2>1, <2>2, SizeIs DEF Before
  <2>4. p \in 1..Len(s)
    BY <2>2, <2>3
  <2>5. walk'.next = IF p + 1 <= Len(s) THEN s[p + 1] ELSE Nil
    <3>1. nxt[s[p]] = IF p = Len(s) THEN Nil ELSE s[p + 1]
      BY <2>4 DEF Orderly, Chain
    <3>2. p = Len(s) <=> ~(p + 1 <= Len(s))
      BY <2>2, <2>3
    <3> QED BY <1>2, <2>3, <3>1, <3>2
  <2>6. ASSUME NEW i \in 1..Len(s), i < p + 1
        PROVE  walk'.now < since'[s[i]] + Interval[s[i]]
    <3>1. s[i] \in Timer /\ Interval[s[i]] \in Nat /\ Interval[s[i]] > 0
      BY ElementOfSeq, TimeAssumption
    <3>2. CASE s[i] = t /\ Due(t)
      BY <1>1, <1>2, <1>4, <3>1, <3>2
    <3>3. CASE s[i] = t /\ ~Due(t)
      BY <1>1, <1>2, <1>4, <3>3, NotDue
    <3>4. CASE s[i] # t
      <4>1. i < p
        BY <2>2, <2>3, <2>6, <3>4
      <4>2. walk.now < since[s[i]] + Interval[s[i]]
        BY <2>1, <4>1 DEF Before
      <4> QED BY <1>2, <1>4, <3>1, <3>4, <4>2
    <3> QED BY <3>2, <3>3, <3>4
  <2> QED BY <2>5, <2>6 DEF Before
<1>10. Orderly(s)'
  BY <1>3, <1>9 DEF Orderly, Place
<1> QED BY <1>5, <1>6, <1>8, <1>10 DEF TimersInv

(* The steps that leave the list and the calls alone. *)
LEMMA QuietHolds ==
  ASSUME TimersInv, TypeOK', UNCHANGED <<list, last, added, since>>,
         ~Walking' \/ UNCHANGED <<at, walk>>, now <= now'
  PROVE  TimersInv'
<1> PICK s \in Seq(Timer) : Orderly(s)
  BY DEF TimersInv
<1>1. LastIs'
  BY DEF TimersInv, LastIs
<1>2. now \in Nat /\ now' \in Nat /\ (Walking => walk.now \in Nat)
  BY DEF TimersInv, TypeOK
<1>3. WalkSound'
  BY <1>2 DEF TimersInv, WalkSound, Walking
<1>4. Place(s)'
  BY DEF Orderly, Place, Before, Walking
<1>5. Orderly(s)'
  BY <1>4 DEF Orderly, list
<1> QED BY <1>1, <1>3, <1>5 DEF TimersInv

LEMMA StartHolds ==
  ASSUME TimersInv, at = "wait", StartWalk, running' \in BOOLEAN,
         UNCHANGED <<list, last, step, now, passes, calls, added, since>>
  PROVE  TimersInv'
<1> PICK s \in Seq(Timer) : Orderly(s)
  BY DEF TimersInv
<1>1. /\ at' = "walk" /\ walk'.now = now /\ walk'.next = head /\ walk'.timer = Nil
      /\ walk' \in [now : Nat, next : Link, timer : Link, cut : BOOLEAN]
  BY DEF StartWalk, TimersInv, TypeOK, Link
<1>2. TypeOK'
  BY <1>1 DEF TimersInv, TypeOK, list
<1>3. LastIs' /\ WalkSound'
  BY <1>1 DEF TimersInv, TypeOK, LastIs, WalkSound, Walking
<1>4. Len(s) \in Nat
  BY LenProperties
<1>5. Before(s, 1)'
  <2>1. walk'.next = IF 1 <= Len(s) THEN s[1] ELSE Nil
    BY <1>1, <1>4 DEF Orderly, Chain
  <2>2. \A i \in 1..Len(s) : ~(i < 1)
    BY <1>4
  <2> QED BY <2>1, <2>2 DEF Before
<1>6. Orderly(s)'
  BY <1>5 DEF Orderly, Place, list
<1> QED BY <1>2, <1>3, <1>6 DEF TimersInv

LEMMA NextHolds == TimersInv /\ [Next]_vars => TimersInv'
<1> SUFFICES ASSUME TimersInv, [Next]_vars PROVE TimersInv'
  OBVIOUS
<1> DEFINE Pass == [start : Nat, timeout : Nat]
<1>1. TypeOK /\ now \in Nat /\ passes \in Seq(Pass) /\ step \in Nat
  BY DEF TimersInv, TypeOK
<1>2. CASE Begin
  <2>1. PICK w \in IF at = "idle" /\ running THEN {step} ELSE Nested :
          passes' = Append(passes, [start |-> now, timeout |-> w])
    BY <1>2 DEF Begin
  <2>2. [start |-> now, timeout |-> w] \in Pass
    BY <1>1, <2>1, TimeAssumption
  <2>3. passes' \in Seq(Pass) /\ passes' # <<>>
    <3>1. passes' \in Seq(Pass) /\ Len(passes') = Len(passes) + 1 /\ Len(passes) \in Nat
      BY <1>1, <2>1, <2>2, AppendProperties, LenProperties
    <3> QED BY <3>1, EmptySeq
  <2>4. TypeOK'
    BY <1>1, <1>2, <2>3 DEF Begin, TypeOK, list
  <2> QED BY <1>1, <1>2, <2>4, QuietHolds DEF Begin, Walking
<1>3. CASE Elapse
  <2>1. PICK p \in Pauses : now' = now + p
    BY <1>3 DEF Elapse
  <2>2. p \in Nat /\ now' \in Nat /\ now <= now'
    BY <1>1, <2>1, BoundAssumption
  <2>3. TypeOK'
    BY <1>1, <1>3, <2>2 DEF Elapse, TypeOK, list
  <2> QED BY <1>3, <2>2, <2>3, QuietHolds DEF Elapse
<1>4. CASE io_stop_loop
  <2>1. TypeOK'
    BY <1>1, <1>4 DEF io_stop_loop, TypeOK, list
  <2> QED BY <1>1, <1>4, <2>1, QuietHolds DEF io_stop_loop
<1>5. CASE WaitOver
  <2>1. running' \in BOOLEAN
    BY <1>1, <1>5 DEF WaitOver, TypeOK
  <2> QED BY <1>5, <2>1, StartHolds DEF WaitOver
<1>6. CASE sig_handler
  BY <1>6, StartHolds DEF sig_handler
<1>7. CASE Visit
  BY <1>7, VisitHolds
<1>8. CASE CallbackReturns
  BY <1>8, ReturnHolds
<1>9. CASE EndPass
  <2>1. passes # <<>>
    BY <1>1, <1>9 DEF EndPass, TypeOK
  <2>2. passes' \in Seq(Pass)
    <3>1. Len(passes) \in Nat
      BY <1>1, LenProperties
    <3> HIDE DEF Pass
    <3>2. ASSUME NEW i \in 1..(Len(passes) - 1) PROVE passes[i] \in Pass
      <4>1. i \in 1..Len(passes)
        BY <3>1
      <4> QED BY <1>1, <4>1, ElementOfSeq
    <3>3. SubSeq(passes, 1, Len(passes) - 1) \in Seq(Pass)
      BY <1>1, <3>1, <3>2, SubSeqProperties
    <3> QED BY <1>9, <3>3 DEF EndPass
  <2>3. NoWalk \in [now : Nat, next : Link, timer : Link, cut : BOOLEAN]
    BY DEF NoWalk, Link
  <2>4. TypeOK'
    BY <1>1, <1>9, <2>2, <2>3 DEF EndPass, TypeOK, list
  <2> QED BY <1>1, <1>9, <2>4, QuietHolds DEF EndPass, Walking
<1>10. CASE \E t \in Timer : io_add_timer(t) \/ io_rem_timer(t)
  BY <1>10, AddHolds, RemHolds
<1>11. CASE UNCHANGED vars
  <2>1. UNCHANGED <<head, nxt, last, step, running, now, passes, at, walk, calls, added, since>>
    BY <1>11 DEF vars, list
  <2>2. TypeOK'
    BY <1>1, <2>1 DEF TypeOK
  <2> QED BY <1>1, <2>1, <2>2, QuietHolds DEF list
<1> QED BY <1>2, <1>3, <1>4, <1>5, <1>6, <1>7, <1>8, <1>9, <1>10, <1>11 DEF Next

LEMMA Invariance == Spec => []TimersInv
BY InitHolds, NextHolds, PTL DEF Spec

-----------------------------------------------------------------------------
(* The list holds exactly the timers that were added and not removed since, *)
(* once each, and comes to an end: whatever callbacks and handlers add and  *)
(* remove, and however passes nest. *)
THEOREM ListStaysSound == Spec => []ListSound
<1>1. TimersInv => ListSound
  <2> SUFFICES ASSUME TimersInv PROVE ListSound
    OBVIOUS
  <2>1. PICK s \in Seq(Timer) : Orderly(s)
    BY DEF TimersInv
  <2>2. /\ Listed = Members(s) /\ Items(head, nxt)[Cardinality(Timer)] = Nil
        /\ \A t \in Timer : t \notin Members(s) => nxt[t] = Nil
    BY <2>1, ListedAre DEF Orderly, Chain
  <2> QED BY <2>1, <2>2 DEF ListSound, Orderly, TimersInv
<1> QED BY <1>1, Invariance, PTL

(* A pass leaves no timer of the list overdue, nested or not, unless a      *)
(* callback removed the timer that came next. *)
THEOREM PassLeavesNoneOverdue == Spec => []NoneOverdue
<1>1. TimersInv => NoneOverdue
  <2> SUFFICES ASSUME TimersInv, at = "walk", walk.next = Nil, ~walk.cut, NEW t \in Listed
               PROVE  walk.now < since[t] + Interval[t]
    BY DEF NoneOverdue
  <2>1. PICK s \in Seq(Timer) : Orderly(s)
    BY DEF TimersInv
  <2>2. PICK p \in Nat \ {0} : Before(s, p)
    BY <2>1 DEF Orderly, Place, Walking
  <2>3. PICK i \in 1..Len(s) : t = s[i]
    BY <2>1, ListedAre DEF Orderly, Members
  <2>4. PICK n \in Nat : n = Len(s)
    BY LenProperties
  <2>5. ~(p <= n)
    <3>1. p <= n => p \in 1..Len(s)
      BY <2>4
    <3>2. p <= n => s[p] \in Timer /\ s[p] # Nil
      BY <3>1, ElementOfSeq, SizeIs
    <3> QED BY <2>2, <2>4, <3>2 DEF Before
  <2>6. i < p
    BY <2>4, <2>5
  <2> QED BY <2>2, <2>3, <2>6 DEF Before
<1> QED BY <1>1, Invariance, PTL

(* A timer is called only while it is in the list and its interval has      *)
(* passed since it was last called or added, but for the two exceptions of  *)
(* CalledWhenDue. *)
THEOREM CallsAreDue == Spec => CalledWhenDue
<1> DEFINE DueCall == \A t \in Timer :
             at = "walk" /\ at' = "callback" /\ walk'.timer = t =>
               /\ t \in Listed \/ walk.cut
               /\ walk.now >= since[t] + Interval[t] \/ since[t] + Interval[t] >= Width
<1>1. TimersInv /\ [Next]_vars => [DueCall]_vars
  <2> SUFFICES ASSUME TimersInv, Next, NEW t \in Timer,
                      at = "walk", at' = "callback", walk'.timer = t
               PROVE  /\ t \in Listed \/ walk.cut
                      /\ walk.now >= since[t] + Interval[t] \/ since[t] + Interval[t] >= Width
    BY DEF vars
  <2>1. Visit
    BY DEF Next, Begin, Elapse, io_stop_loop, WaitOver, sig_handler, CallbackReturns, EndPass,
           io_add_timer, io_rem_timer, StartWalk
  <2>2. t = walk.next /\ Due(t)
    <3>1. Due(walk.next)
      BY <2>1 DEF Visit
    <3>2. walk'.timer = walk.next
      BY <2>1, <3>1 DEF Visit, TimersInv, TypeOK
    <3> QED BY <3>1, <3>2
  <2>3. walk.now >= since[t] + Interval[t] \/ since[t] + Interval[t] >= Width
    BY <2>2, IsDue
  <2>4. ASSUME ~walk.cut PROVE t \in Listed
    <3>1. PICK s \in Seq(Timer) : Orderly(s)
      BY DEF TimersInv
    <3>2. PICK p \in Nat \ {0} : Before(s, p)
      BY <2>4, <3>1 DEF Orderly, Place, Walking
    <3>3. PICK n \in Nat : n = Len(s)
      BY LenProperties
    <3>4. p <= n /\ t = s[p]
      BY <2>2, <3>2, <3>3, SizeIs DEF Before
    <3>5. p \in 1..Len(s)
      BY <3>3, <3>4
    <3>6. Listed = Members(s)
      BY <3>1, ListedAre DEF Orderly
    <3> QED BY <3>4, <3>5, <3>6 DEF Members
  <2> QED BY <2>3, <2>4
<1> QED BY <1>1, Invariance, PTL DEF Spec, CalledWhenDue

-----------------------------------------------------------------------------
(* The step is that of the timers listed now: it starts as Default, with    *)
(* none, and whatever changes the list computes it anew. *)
Paced == Pace(step, Listed)

LEMMA PacedAnew ==
  ASSUME TimersInv', reset_loop_timeout
  PROVE  Paced'
<1>1. PICK h : h = head'
  OBVIOUS
<1>2. PICK nx : nx = nxt'
  OBVIOUS
<1>3. PICK s \in Seq(Timer) : Chain(s, h, nx)
  BY <1>1, <1>2 DEF TimersInv, Orderly
<1>4. step' = StepFor(h, nx)
  BY <1>1, <1>2 DEF reset_loop_timeout
<1>5. Listed' = Linked(h, nx)
  BY <1>1, <1>2 DEF Listed, Linked
<1>6. Linked(h, nx) = Members(s)
  BY <1>3, LinkedAre
<1>7. Pace(StepFor(h, nx), Members(s))
  BY <1>3, StepPaces
<1> QED BY <1>4, <1>5, <1>6, <1>7 DEF Paced

LEMMA PacedStays ==
  ASSUME Paced, UNCHANGED <<list, step>>
  PROVE  Paced'
<1>1. Listed' = Listed
  BY DEF Listed, list
<1> QED BY <1>1 DEF Paced

LEMMA PacedInit == Init => Paced
<1> SUFFICES ASSUME Init PROVE Paced
  OBVIOUS
<1>1. PICK s \in Seq(Timer) : Orderly(s)
  BY InitHolds DEF TimersInv
<1>2. Listed = {}
  BY <1>1, ListedAre DEF Orderly, Init
<1> QED BY <1>2, PaceNone DEF Init, Paced

LEMMA PacedStep == TimersInv' /\ Paced /\ [Next]_vars => Paced'
<1> SUFFICES ASSUME TimersInv', Paced, [Next]_vars PROVE Paced'
  OBVIOUS
<1>1. reset_loop_timeout \/ UNCHANGED <<list, step>>
  <2>1. CASE Begin \/ Elapse \/ io_stop_loop \/ WaitOver \/ sig_handler \/ Visit \/ EndPass
    BY <2>1 DEF Begin, Elapse, io_stop_loop, WaitOver, sig_handler, Visit, EndPass
  <2>2. CASE CallbackReturns
    BY <2>2 DEF CallbackReturns, Unlink
  <2>3. CASE \E t \in Timer : io_add_timer(t) \/ io_rem_timer(t)
    BY <2>3 DEF io_add_timer, io_rem_timer, Unlink
  <2>4. CASE UNCHANGED vars
    BY <2>4 DEF vars
  <2> QED BY <2>1, <2>2, <2>3, <2>4 DEF Next
<1> QED BY <1>1, PacedAnew, PacedStays

(* The beats the step is the greatest of are those of no more than its own  *)
(* units that it meets. *)
LEMMA PacedIs == Paced => LoopStep
<1> SUFFICES ASSUME Paced, Listed # {} PROVE step = Min * Greatest(Beats \cup {1})
  BY DEF Paced, Pace, LoopStep
<1>1. PICK L : L = Listed
  OBVIOUS
<1>2. PICK v \in Nat \ {0} : v = Units(step)
  BY DEF Paced, Pace
<1>3. step = Min * v
  BY <1>2 DEF Paced, Pace
<1>4. Units(Default) \in Nat
  BY TimeAssumption, Quotient DEF Units
<1>5. PICK B : B = Beats \cup {1}
  OBVIOUS
<1>6. ASSUME NEW d
      PROVE  d \in B <=> d \in Nat \ {0} /\ Meets(d, v)
  <2>1. d \in Beats <=> /\ d \in Nat \ {0} /\ Meets(d, Units(Default))
                        /\ \A t \in L : Meets(d, Units(Interval[t]))
    BY <1>1, <1>4 DEF Beats, Meets
  <2>2. d \in Nat \ {0} =>
          (Meets(d, v) <=>
             d = 1 \/ (Meets(d, Units(Default)) /\ \A t \in L : Meets(d, Units(Interval[t]))))
    BY <1>1, <1>2 DEF Paced, Pace
  <2> QED BY <1>5, <2>1, <2>2
<1>7. v \in B
  BY <1>6, MeetsFew
<1>8. B \in SUBSET (1..v)
  BY <1>6 DEF Meets
<1>9. Greatest(B) = v
  <2>1. PICK g : g = Greatest(B)
    OBVIOUS
  <2>2. g \in B /\ \A j \in B : g >= j
    BY <1>7, <1>8, <2>1, GreatestOf
  <2>3. g \in 1..v /\ g >= v
    BY <1>7, <1>8, <2>2
  <2> QED BY <2>1, <2>3
<1> QED BY <1>3, <1>5, <1>9

(* The timeout of a pass is the longest that meets the beat of every timer  *)
(* in the list, after whatever additions and removals, those that callbacks *)
(* make included. *)
THEOREM LoopStepKept == Spec => []LoopStep
BY Invariance, PacedInit, PacedStep, PacedIs, PTL DEF Spec
=============================================================================
