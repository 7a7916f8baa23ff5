--------------------------- MODULE NmeaGenerator ----------------------------
(***************************************************************************)
(* The GNSS half of the program: timer_cb() of libs/nmea/generator.c sends *)
(* a round of sentences a second, whose satellite fields are printed by    *)
(* libs/nmea/printer.h, after fetch_loc_info() of main.c has let the       *)
(* signal of every satellite wander.                                       *)
(*                                                                         *)
(* The printers of a GSA, QSA or GSV sentence share one cursor per talker, *)
(* sat_groups[].current_count: it says which satellite a field is about,   *)
(* which sentence of a group this is, and whether another one follows.     *)
(***************************************************************************)
EXTENDS Naturals, Sequences, SequencesExt, FiniteSets, FiniteSetsExt

CONSTANTS
  Talkers,     \* the talkers that have a sat_group
  MaxCount,    \* sat_groups[].max_count
  Prns,        \* the prn of a talker's satellites; the others up to max_count are 0
  FirstSnr,    \* their snr at the start
  Plan,        \* talker_mask: the sentences of a round, <<sentence, talker>>
  LowSnr, StepSnr, TopSnr,   \* fetch_loc_info(): 5, 3 and 49
  InUse,       \* the snr from which a satellite counts as used: 20
  MaxChanges   \* bound: satellites whose signal changes in a round

ASSUME GroupAssumption ==
  /\ IsFiniteSet(Talkers)
  /\ \A t \in Talkers : /\ MaxCount[t] \in Nat \ {0} /\ Prns[t] \in Seq(Nat \ {0})
                        /\ Len(Prns[t]) <= MaxCount[t]
ASSUME SnrAssumption ==
  /\ TopSnr \in Nat /\ LowSnr \in 0..TopSnr /\ StepSnr \in 0..(LowSnr + 1) /\ InUse \in Nat
  /\ FirstSnr \in [Talkers -> Seq(0..TopSnr)]
  /\ \A t \in Talkers : Len(FirstSnr[t]) = Len(Prns[t])
(* A talker has one bit in the mask of a sentence. *)
ASSUME PlanAssumption ==
  /\ MaxChanges \in Nat
  /\ Plan \in Seq({"RMC", "GGA", "GST", "GSA", "QSA", "GSV"} \X STRING)
  /\ \A i \in DOMAIN Plan : Plan[i][1] \in {"GSA", "QSA", "GSV"} => Plan[i][2] \in Talkers
  /\ \A i, j \in DOMAIN Plan : Plan[i] = Plan[j] => i = j

VARIABLES
  fixed,    \* loc_info.ts # 0: there is an earlier position to compare with
  snr,      \* sat_stat_t.snr
  cursor,   \* sat_groups[].current_count
  again,    \* whether it is a further one of a GSV group
  next,     \* the sentence of Plan to send next; none: the timer sleeps
  out       \* the sentences of this round

vars == <<fixed, snr, cursor, again, next, out>>

Sats(t) == DOMAIN Prns[t]
Sleeping == next = Len(Plan) + 1

Sentence == [kind : {"GSV"}, talker : Talkers, total : Nat, number : Nat, inView : Nat,
             ids : Seq(Nat)]
            \cup [kind : {"GSA", "QSA"}, talker : Talkers, sats : SUBSET Nat]
            \cup [kind : {"GGA"}, used : Nat] \cup [kind : {"RMC", "GST"}]

TypeOK ==
  /\ fixed \in BOOLEAN /\ again \in BOOLEAN
  /\ snr \in [Talkers -> Seq(0..TopSnr)] /\ cursor \in [Talkers -> Nat]
  /\ \A t \in Talkers : Len(snr[t]) = Len(Prns[t]) /\ cursor[t] <= MaxCount[t]
  /\ next \in 1..(Len(Plan) + 1)
  /\ out \in Seq(Sentence)

Init ==
  /\ fixed = FALSE /\ snr = FirstSnr /\ cursor = [t \in Talkers |-> 0]
  /\ again = FALSE /\ next = Len(Plan) + 1 /\ out = <<>>

-----------------------------------------------------------------------------
(* fetch_loc_info(): the values a signal may take next. *)
Wander(s) ==
  IF s <= LowSnr THEN 0..(LowSnr + 1)
  ELSE {IF x > TopSnr THEN TopSnr ELSE x : x \in (s - StepSnr)..(s + StepSnr)}

Places == UNION {{<<t, j>> : j \in Sats(t)} : t \in Talkers}
Fetch ==
  \E C \in {C \in SUBSET Places : Cardinality(C) <= MaxChanges} :
  \E to \in [C -> 0..TopSnr] :
    /\ \A c \in C : to[c] \in Wander(snr[c[1]][c[2]])
    /\ snr' = [t \in Talkers |->
                 [j \in Sats(t) |-> IF <<t, j>> \in C THEN to[<<t, j>>] ELSE snr[t][j]]]

(* timer_cb(): the first time there is nothing to compute a speed from. *)
TimerFires ==
  /\ Sleeping
  /\ Fetch
  /\ fixed' = TRUE
  /\ IF fixed THEN next' = 1 /\ out' = <<>> ELSE UNCHANGED <<next, out>>
  /\ UNCHANGED <<cursor, again>>

-----------------------------------------------------------------------------
(* The printers.  Satellites are numbered from 1: a cursor c has passed the *)
(* first c of them.  Places from Len(Prns) on have prn 0.                   *)

Used(t) == {j \in Sats(t) : snr[t][j] >= InUse}
InView(t) == Len(Prns[t])
Quarters(n) == (n + 3) \div 4

satt == Cardinality({p \in Places : p[2] \in Used(p[1])})
trow(t) == Quarters(InView(t))
curr(t, c) == Quarters(1 + (IF c <= InView(t) THEN c ELSE InView(t)))

(* track, twelve times: the satellites in use, from the cursor on. *)
MutantTrack(t, c) ==
  {j \in Used(t) : j > c + 1 /\ Cardinality({i \in Used(t) : c < i /\ i <= j}) <= 12}
track(t, c) ==
  {j \in Used(t) : j > c /\ Cardinality({i \in Used(t) : c < i /\ i <= j}) <= 12}

(* prn, ele, azi and snr, four times: the next satellites there are; prn    *)
(* skips places without one and snr moves on. *)
Row(t, c) == SubSeq(Prns[t], c + 1, IF c + 4 <= InView(t) THEN c + 4 ELSE InView(t))
MutantRowEnd(t, c) == IF c + 4 <= InView(t) THEN c + 4 ELSE InView(t)
RowEnd(t, c) == IF c + 4 <= InView(t) THEN c + 4 ELSE MaxCount[t]

-----------------------------------------------------------------------------
(* One sentence of timer_cb().  The cursor is put back before a sentence,   *)
(* but not before the further ones of a GSV group (do_again).               *)

Kind == Plan[next][1]
Talker == Plan[next][2]
HasGroup == Kind \in {"GSV", "GSA", "QSA"}
MutantFrom == cursor[Talker]
From == IF again THEN cursor[Talker] ELSE 0

(* Where the printers leave the cursor. *)
After ==
  IF Kind = "GSV" THEN RowEnd(Talker, From)
  ELSE LET used == track(Talker, From) IN
       IF Cardinality(used) = 12 THEN Max(used) ELSE MaxCount[Talker]
MoveCursor == cursor' = IF HasGroup THEN [cursor EXCEPT ![Talker] = After] ELSE cursor

Content ==
  IF Kind = "GSV"
  THEN [kind |-> Kind, talker |-> Talker, total |-> trow(Talker), number |-> curr(Talker, From),
        inView |-> InView(Talker), ids |-> Row(Talker, From)]
  ELSE IF HasGroup THEN [kind |-> Kind, talker |-> Talker, sats |-> track(Talker, From)]
  ELSE IF Kind = "GGA" THEN [kind |-> Kind, used |-> satt]
  ELSE [kind |-> Kind]

(* The talker of the other sentences has no group: their current_count is   *)
(* written past the end of sat_groups. *)
Send ==
  /\ ~Sleeping
  /\ MoveCursor
  /\ out' = Append(out, Content)
  /\ again' = (Kind = "GSV" /\ After < MaxCount[Talker])
  /\ next' = IF again' THEN next ELSE next + 1
  /\ UNCHANGED <<fixed, snr>>

(* io_write() could not write all of a sentence: the round is over. *)
ShortWrite ==
  /\ ~Sleeping
  /\ MoveCursor
  /\ next' = Len(Plan) + 1 /\ again' = FALSE /\ out' = <<>>
  /\ UNCHANGED <<fixed, snr>>

Next == TimerFires \/ Send \/ ShortWrite

Spec == Init /\ [][Next]_vars

-----------------------------------------------------------------------------
(* A group whose last sentence ends where the satellites or the places do.  *)
(* (With 4, 8, ... satellites and places to spare, one empty sentence more  *)
(* is sent than trow announces; the groups of main.c are not like that.)    *)
WellSized(t) == InView(t) = MaxCount[t] \/ InView(t) % 4 # 0

Sent(k, t) == \E i \in 1..(next - 1) : Plan[i] = <<k, t>> /\ out # <<>>
GsvOf(t) == {i \in DOMAIN out : out[i].kind = "GSV" /\ out[i].talker = t}

(* A complete GSV group lists every satellite of its constellation once and *)
(* in order, in sentences that follow each other and are numbered from one  *)
(* to the announced total, whatever an earlier sentence or a round that was *)
(* cut short did to the cursor. *)
GroupsComplete ==
  \A t \in Talkers : (Sent("GSV", t) /\ WellSized(t)) =>
    \E a \in DOMAIN out : \E b \in DOMAIN out :
      LET g == SubSeq(out, a, b) IN
      /\ a <= b /\ GsvOf(t) = a..b
      /\ FlattenSeq([i \in DOMAIN g |-> g[i].ids]) = Prns[t]
      /\ \A i \in DOMAIN g : g[i].number = i /\ g[i].total = Len(g)

(* The sentences of a round tell one story: the satellites that GGA counts  *)
(* as used are those that the GSA and QSA sentences name, and each of those *)
(* is also in view.  That is so if the round reports every constellation,   *)
(* and in none more satellites than a GSA has fields.  The types are part   *)
(* of the invariant. *)
WholePlan ==
  \A t \in Talkers : /\ InView(t) <= 12
                     /\ \E i \in DOMAIN Plan : Plan[i] = <<"GSV", t>>
                     /\ \E i \in DOMAIN Plan : Plan[i] \in {<<"GSA", t>>, <<"QSA", t>>}
Naming == {i \in DOMAIN out : out[i].kind \in {"GSA", "QSA"}}
NamedPlaces == UNION {{<<out[i].talker, j>> : j \in out[i].sats} : i \in Naming}
UsedAgree ==
  /\ TypeOK
  /\ (WholePlan /\ Sleeping /\ out # <<>>) =>
    /\ \A p \in NamedPlaces : \E i \in GsvOf(p[1]) : \E k \in DOMAIN out[i].ids :
         out[i].ids[k] = Prns[p[1]][p[2]]
    /\ \A i \in DOMAIN out : out[i].kind = "GGA" => out[i].used = Cardinality(NamedPlaces)

(* A round ends: each further sentence of a GSV group passes four places, so*)
(* that do_again is not taken more often than the group has room for.       *)
GroupsEnd ==
  \A t \in Talkers : GsvOf(t) # {} => 4 * (Cardinality(GsvOf(t)) - 1) < MaxCount[t]

(* printer.h and defs.h: "Number of satellites in use, 00 - 12". *)
AtMostTwelveUsed == \A i \in DOMAIN out : out[i].kind = "GGA" => out[i].used \in 0..12
=============================================================================
