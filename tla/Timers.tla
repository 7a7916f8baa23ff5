------------------------------- MODULE Timers -------------------------------
(***************************************************************************)
(* The timers of libs/util/io.c: io_add_timer(), io_rem_timer(), the end of*)
(* io_step_loop() that calls them, and the list of libs/util/list.c they   *)
(* are kept in.                                                            *)
(*                                                                         *)
(* A pass waits in select() until its timeout is over, dispatching handlers*)
(* that may take any time, add and remove timers and run passes of their   *)
(* own; it then walks the list and calls what is due.  Handlers are only   *)
(* dispatched while a pass waits, so that there is one walk at a time; but *)
(* its callbacks add and remove timers too, the one being walked to next   *)
(* among them.                                                             *)
(***************************************************************************)
EXTENDS Integers, Sequences, FiniteSets

CONSTANTS
  Timer,      \* the io_timer_t objects
  Nil,        \* NULL
  Interval,   \* io_timer_t.interval_ms
  Repeating,  \* those with io_timer_t.repeat
  RunNow,     \* and with io_timer_t.run_now, which needs repeat
  Default,    \* DEFAULT_LOOP_INTERVAL (1000)
  Min,        \* MIN_LOOP_INTERVAL (5)
  Nested,     \* the timeouts of passes run by handlers (10 and 30)
  Width,      \* the values of an uint32_t (2^32)
  MaxCalls,   \* bound: how often timers are added and removed
  Pauses,     \* bound: how far the clock moves at once
  MaxNow,     \* bound: when the clock stops
  MaxDepth    \* bound: how deep passes nest

ASSUME TimerAssumption == IsFiniteSet(Timer) /\ Nil \notin Timer /\ RunNow \subseteq Repeating /\ Repeating \subseteq Timer
ASSUME TimeAssumption ==
  /\ Interval \in [Timer -> Nat \ {0}] /\ Nested \subseteq Nat
  /\ Default \in Nat /\ Min \in Nat \ {0} /\ Default >= Min /\ Width \in Nat \ {0}
ASSUME BoundAssumption == Pauses \subseteq Nat /\ MaxNow \in Nat /\ MaxCalls \in Nat /\ MaxDepth \in Nat

VARIABLES
  head,      \* timers
  nxt,       \* io_timer_t.item.next
  last,      \* io_timer_t.last_ms
  step,      \* loop_interval_ms
  running,   \* should_run
  now,       \* uptime()
  passes,    \* the passes under way: when they began, their timeouts
  at,        \* where the innermost is: "idle", "wait", "walk", "callback"
  walk,      \* its now, next and timer, and whether its next was removed
  added,     \* history: the timers io_add_timer() was asked for
  calls,     \* bound: calls of io_add_timer() and io_rem_timer()
  since      \* history: when each was last called, or added

list == <<head, nxt>>
vars == <<list, last, step, running, now, passes, at, walk, calls, added, since>>

Link == Timer \cup {Nil}
NoWalk == [now |-> 0, next |-> Nil, timer |-> Nil, cut |-> FALSE]

TypeOK ==
  /\ head \in Link /\ nxt \in [Timer -> Link]
  /\ last \in [Timer -> 0..(Width - 1)]
  /\ step \in Nat \ {0} /\ running \in BOOLEAN /\ now \in Nat
  /\ passes \in Seq([start : Nat, timeout : Nat])
  /\ at \in {"idle", "wait", "walk", "callback"} /\ (at = "idle" <=> passes = <<>>)
  /\ walk \in [now : Nat, next : Link, timer : Link, cut : BOOLEAN]
  /\ calls \in 0..MaxCalls /\ added \subseteq Timer /\ since \in [Timer -> Nat]

Init ==
  /\ head = Nil /\ nxt = [t \in Timer |-> Nil]
  /\ last = [t \in Timer |-> 0] /\ step = Default
  /\ running = TRUE /\ now = 0 /\ passes = <<>> /\ at = "idle" /\ walk = NoWalk /\ calls = 0
  /\ added = {} /\ since = [t \in Timer |-> 0]

-----------------------------------------------------------------------------
(* libs/util/list.c *)

(* The n-th item behind a pointer. *)
Items(h, nx) ==
  LET item[n \in Nat] ==
        IF n = 0 THEN h ELSE IF item[n - 1] = Nil THEN Nil ELSE nx[item[n - 1]]
  IN  [n \in 0..Cardinality(Timer) |-> item[n]]
Listed == {Items(head, nxt)[n] : n \in 0..Cardinality(Timer)} \ {Nil}
Final == CHOOSE t \in Listed : nxt[t] = Nil

(* An item that has a successor, or is the last one, is refused. *)
CanAdd(t) == nxt[t] = Nil /\ t \notin Listed
list_add(t) ==
  IF head = Nil
  THEN head' = t /\ UNCHANGED nxt
  ELSE nxt' = [nxt EXCEPT ![Final] = t] /\ UNCHANGED head

MutantKeepNext(t) ==
  /\ head' = IF head = t THEN nxt[t] ELSE head
  /\ nxt' = [u \in Timer |-> IF nxt[u] = t THEN nxt[t] ELSE nxt[u]]
list_rem(t) ==
  /\ head' = IF head = t THEN nxt[t] ELSE head
  /\ nxt' = [u \in Timer |-> IF u = t THEN Nil ELSE IF nxt[u] = t THEN nxt[t] ELSE nxt[u]]

-----------------------------------------------------------------------------
(* reset_loop_timeout(): the common divisor, in units of Min, of Default    *)
(* and the intervals, one after the other. *)

Greatest(S) == CHOOSE i \in S : \A j \in S : i >= j
CommonDivisors(a, b) == {i \in 1..a : a % i = 0 /\ b % i = 0}
MutantBelow(a, b) == LET D == CommonDivisors(a, b) \ {a} IN Min * (IF D = {} THEN 1 ELSE Greatest(D))
Common(a, b) == LET D == CommonDivisors(a, b) IN Min * (IF D = {} THEN 1 ELSE Greatest(D))
Narrow(m, i) == IF m > i THEN Common(i \div Min, m \div Min) ELSE Common(m \div Min, i \div Min)

StepFor(h, nx) ==
  LET items == Items(h, nx)
      upTo[n \in 0..Cardinality(Timer)] ==
        IF n = 0 THEN Default
        ELSE IF items[n - 1] = Nil THEN upTo[n - 1]
        ELSE Narrow(upTo[n - 1], Interval[items[n - 1]])
  IN  upTo[Cardinality(Timer)]
reset_loop_timeout == step' = StepFor(head', nxt')

-----------------------------------------------------------------------------
(* io_add_timer() and io_rem_timer(), which main(), handlers and callbacks  *)
(* call. *)

(* A callback that is made at once takes its time; last_ms is from before   *)
(* it, and changes even if the list then refuses the timer. *)
io_add_timer(t) ==
  /\ at # "walk" /\ calls < MaxCalls /\ calls' = calls + 1
  /\ IF t \in RunNow THEN \E p \in Pauses \cup {0} : now' = now + p /\ now' <= MaxNow ELSE UNCHANGED now
  /\ IF CanAdd(t)
     THEN list_add(t) /\ reset_loop_timeout
     ELSE UNCHANGED <<list, step>>
  /\ last' = IF t \in RunNow \/ CanAdd(t) THEN [last EXCEPT ![t] = now % Width] ELSE last
  /\ since' = IF t \in RunNow \/ CanAdd(t) THEN [since EXCEPT ![t] = now] ELSE since
  /\ added' = added \cup {t}
  /\ UNCHANGED <<running, passes, at, walk>>

Unlink(t) == IF t \in Listed THEN list_rem(t) /\ reset_loop_timeout ELSE UNCHANGED <<list, step>>

io_rem_timer(t) ==
  /\ at # "walk" /\ calls < MaxCalls /\ calls' = calls + 1
  /\ Unlink(t)
  /\ added' = added \ {t}
  /\ walk' = [walk EXCEPT !.cut = @ \/ (at = "callback" /\ walk.next = t)]
  /\ UNCHANGED <<last, running, now, passes, at, since>>

-----------------------------------------------------------------------------
(* io_step_loop() *)

Innermost == passes[Len(passes)]

(* Called by io_run_loop(), by a handler (io_spawn_wait()), or by           *)
(* at_engine_stop() when the loop has ended. *)
Begin ==
  /\ at \in {"idle", "wait"} /\ Len(passes) < MaxDepth
  /\ \E t \in IF at = "idle" /\ running THEN {step} ELSE Nested :
       passes' = Append(passes, [start |-> now, timeout |-> t])
  /\ at' = "wait"
  /\ UNCHANGED <<list, last, step, running, now, walk, calls, added, since>>

(* Time passes in select() and in the handlers and callbacks. *)
Elapse ==
  /\ \/ at = "wait" /\ now - Innermost.start < Innermost.timeout
     \/ at = "callback"
  /\ \E p \in Pauses : now' = now + p /\ now' <= MaxNow
  /\ UNCHANGED <<list, last, step, running, passes, at, walk, calls, added, since>>

(* io_stop_loop(), by a handler. *)
io_stop_loop ==
  /\ at = "wait" /\ running' = FALSE
  /\ UNCHANGED <<list, last, step, now, passes, at, walk, calls, added, since>>

StartWalk ==
  /\ at' = "walk"
  /\ walk' = [now |-> now, next |-> head, timer |-> Nil, cut |-> FALSE]

WaitOver ==
  /\ at = "wait" /\ now - Innermost.start >= Innermost.timeout
  /\ StartWalk
  /\ UNCHANGED <<list, last, step, running, now, passes, calls, added, since>>

(* SIGINT: select() fails, and the pass does not wait any longer. *)
sig_handler ==
  /\ at = "wait" /\ running' = FALSE
  /\ StartWalk
  /\ UNCHANGED <<list, last, step, now, passes, calls, added, since>>

(* The next timer of the list: its successor is read before it is called.   *)
(* last_ms + interval_ms is an uint32_t, now is not. *)
MutantByStep(t) == walk.now >= (last[t] + step) % Width
Due(t) == walk.now >= (last[t] + Interval[t]) % Width

MutantFirstOnly ==
  /\ at = "walk" /\ walk.next # Nil
  /\ LET t == walk.next IN
       /\ walk' = [walk EXCEPT !.next = IF Due(t) THEN Nil ELSE nxt[t], !.timer = IF Due(t) THEN t ELSE Nil]
       /\ at' = IF Due(t) THEN "callback" ELSE "walk"
       /\ last' = IF Due(t) THEN [last EXCEPT ![t] = walk.now % Width] ELSE last
       /\ since' = IF Due(t) THEN [since EXCEPT ![t] = walk.now] ELSE since
  /\ UNCHANGED <<list, step, running, now, passes, calls, added>>
Visit ==
  /\ at = "walk" /\ walk.next # Nil
  /\ LET t == walk.next IN
       /\ walk' = [walk EXCEPT !.next = nxt[t], !.timer = IF Due(t) THEN t ELSE Nil]
       /\ at' = IF Due(t) THEN "callback" ELSE "walk"
       /\ last' = IF Due(t) THEN [last EXCEPT ![t] = walk.now % Width] ELSE last
       /\ since' = IF Due(t) THEN [since EXCEPT ![t] = walk.now] ELSE since
  /\ UNCHANGED <<list, step, running, now, passes, calls, added>>

CallbackReturns ==
  /\ at = "callback" /\ at' = "walk"
  /\ IF walk.timer \in Repeating
     THEN UNCHANGED <<list, step, added>>
     ELSE Unlink(walk.timer) /\ added' = added \ {walk.timer}
  /\ UNCHANGED <<last, running, now, passes, walk, calls, since>>

EndPass ==
  /\ at = "walk" /\ walk.next = Nil
  /\ passes' = SubSeq(passes, 1, Len(passes) - 1)
  /\ at' = IF passes' = <<>> THEN "idle" ELSE "wait"
  /\ walk' = NoWalk
  /\ UNCHANGED <<list, last, step, running, now, calls, added, since>>

-----------------------------------------------------------------------------
Next == \/ Begin \/ Elapse \/ io_stop_loop \/ WaitOver \/ sig_handler
        \/ Visit \/ CallbackReturns \/ EndPass
        \/ \E t \in Timer : io_add_timer(t) \/ io_rem_timer(t)
Spec == Init /\ [][Next]_vars

-----------------------------------------------------------------------------
(* The list holds exactly the timers that were added and not removed since, *)
(* once each, whatever callbacks and handlers add and remove and in which   *)
(* order: following the links from the head comes to an end, and a timer    *)
(* that is not in the list leads nowhere, so that list_add() takes it.      *)
(* The types are part of the invariant. *)
ListSound ==
  /\ TypeOK
  /\ Items(head, nxt)[Cardinality(Timer)] = Nil
  /\ Listed = added
  /\ \A t \in Timer \ Listed : nxt[t] = Nil

(* The loop's timeout is the longest that meets the beat of all timers: the *)
(* greatest step (in units of MIN_LOOP_INTERVAL) that Default and every     *)
(* interval are multiples of, and none is shorter than it; it is kept so by *)
(* every addition and removal, also those a callback makes.  Without timers *)
(* it is Default, of whole units or not.                                    *)
Units(i) == i \div Min
Beats == {k \in 1..Units(Default) : /\ Units(Default) % k = 0
                                   /\ \A t \in Listed : Units(Interval[t]) % k = 0 /\ k <= Units(Interval[t])}
LoopStep == step = IF Listed = {} THEN Default ELSE Min * Greatest(Beats \cup {1})

(* io_step_loop() calls a timer only if it is in the list and its interval  *)
(* has passed since it was last called or added.  The two exceptions: a     *)
(* timer that the callback before it has just removed, and, once last_ms +  *)
(* interval_ms does not fit 32 bits, any timer in every pass.               *)
CalledWhenDue == [][\A t \in Timer :
  at = "walk" /\ at' = "callback" /\ walk'.timer = t =>
    /\ t \in Listed \/ walk.cut
    /\ walk.now >= since[t] + Interval[t] \/ since[t] + Interval[t] >= Width]_vars

(* A pass leaves no timer of the list overdue, nested or not, and however   *)
(* its callbacks change the list, unless one of them removed the timer that *)
(* came next: then the walk ends there.                                     *)
NoneOverdue == at = "walk" /\ walk.next = Nil /\ ~walk.cut =>
  \A t \in Listed : walk.now < since[t] + Interval[t]
=============================================================================
