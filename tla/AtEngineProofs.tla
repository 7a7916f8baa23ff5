--------------------------- MODULE AtEngineProofs ---------------------------
(***************************************************************************)
(* Type correctness of AtEngine, the accounting of its child processes and *)
(* the consistency of its sessions with a peer that may or may not         *)
(* pipeline; then what it guarantees to one that does not.  All of it for  *)
(* every number of channels and processes, every set of command lines and  *)
(* every length of a read.                                                 *)
(***************************************************************************)
EXTENDS AtEngine, SequenceTheorems, TLAPS

-----------------------------------------------------------------------------
(* What Run and Enter do to the control stack, position by position. *)

LEMMA RunIndex ==
  ASSUME cont \in Seq(Task), Busy, NEW tasks \in Seq(Task), Run(tasks)
  PROVE  /\ cont' \in Seq(Task)
         /\ Len(cont') = Len(tasks) + Len(cont) - 1
         /\ \A i \in 1..Len(tasks) : cont'[i] = tasks[i]
         /\ \A i \in (Len(tasks) + 1)..Len(cont') : cont'[i] = cont[i - Len(tasks) + 1]
<1>1. /\ Tail(cont) \in Seq(Task) /\ Len(Tail(cont)) = Len(cont) - 1
      /\ \A i \in 1..Len(Tail(cont)) : Tail(cont)[i] = cont[i + 1]
  BY HeadTailProperties DEF Busy
<1>2. cont' = tasks \o Tail(cont)
  BY DEF Run
<1>3. /\ cont' \in Seq(Task)
      /\ Len(cont') = Len(tasks) + Len(Tail(cont))
      /\ \A i \in 1..Len(cont') : cont'[i] = IF i <= Len(tasks) THEN tasks[i]
                                             ELSE Tail(cont)[i - Len(tasks)]
  BY <1>1, <1>2, ConcatProperties
<1>4. Len(tasks) \in Nat /\ Len(cont) \in Nat /\ Len(cont) # 0
  BY LenProperties, EmptySeq DEF Busy
<1>5. ASSUME NEW i \in (Len(tasks) + 1)..Len(cont')
      PROVE  cont'[i] = cont[i - Len(tasks) + 1]
  <2>1. i - Len(tasks) \in 1..Len(Tail(cont)) /\ ~(i <= Len(tasks)) /\ i \in 1..Len(cont')
    BY <1>1, <1>3, <1>4
  <2> QED BY <2>1, <1>1, <1>3
<1> QED BY <1>1, <1>3, <1>4, <1>5

LEMMA EnterIndex ==
  ASSUME cont \in Seq(Task), NEW tasks \in Seq(Task), Enter(tasks)
  PROVE  /\ cont' \in Seq(Task)
         /\ Len(cont') = Len(tasks) + Len(cont)
         /\ \A i \in 1..Len(tasks) : cont'[i] = tasks[i]
         /\ \A i \in (Len(tasks) + 1)..Len(cont') : cont'[i] = cont[i - Len(tasks)]
<1>1. cont' = tasks \o cont
  BY DEF Enter
<1>2. /\ cont' \in Seq(Task)
      /\ Len(cont') = Len(tasks) + Len(cont)
      /\ \A i \in 1..Len(cont') : cont'[i] = IF i <= Len(tasks) THEN tasks[i]
                                             ELSE cont[i - Len(tasks)]
  BY <1>1, ConcatProperties
<1>3. Len(tasks) \in Nat /\ Len(cont) \in Nat
  BY LenProperties
<1> QED BY <1>2, <1>3

(* A task has the fields its operation needs. *)
LEMMA TaskFields ==
  ASSUME NEW t \in Task
  PROVE  /\ t.ch \in Ch
         /\ t.op \in {"reset", "finish"} => t.to \in Modes
         /\ t.op = "reap" => t.pid \in Child
         /\ t.op \in {"uih", "input"} => t.data \in Payloads
<1>1. CASE t \in [op : {"sabm", "disc"}, ch : Ch]
  BY <1>1
<1>2. CASE t \in [op : {"uih"}, ch : Ch, data : Payloads]
  BY <1>2
<1>3. CASE t \in [op : {"reset", "finish"}, ch : Ch, to : Modes]
  BY <1>3
<1>4. CASE t \in [op : {"flush", "drain", "unpty", "read", "wait", "halt"} \cup Commands, ch : Ch]
  BY <1>4 DEF Commands
<1>5. CASE t \in [op : {"reap"}, ch : Ch, pid : Child]
  BY <1>5
<1>6. CASE t \in [op : {"input"}, ch : Ch, data : Payloads]
  BY <1>6
<1> QED BY <1>1, <1>2, <1>3, <1>4, <1>5, <1>6 DEF Task, Frame

LEMMA TopTask ==
  ASSUME cont \in Seq(Task), Busy
  PROVE  Arg \in Task /\ 1 \in 1..Len(cont) /\ Arg = cont[1]
<1>1. Head(cont) \in Task /\ Head(cont) = cont[1]
  BY HeadTailProperties DEF Busy
<1>2. Len(cont) \in Nat /\ Len(cont) # 0
  BY LenProperties, EmptySeq DEF Busy
<1> QED BY <1>1, <1>2 DEF Arg

-----------------------------------------------------------------------------
(* The calls each handler makes: well-typed, and which of them wait. *)

NoReap(tasks) == \A i \in 1..Len(tasks) : tasks[i].op # "reap"

LEMMA WaitCallsType ==
  ASSUME TypeOK, NEW c \in Ch, NEW stop \in BOOLEAN
  PROVE  WaitCalls(c, stop) \in Seq(Task)
<1>1. \A op \in {"flush", "drain"} : Call(op, c) \in Task
  BY DEF Call, Task
<1>2. pid[c] # 0 => ReapCh(c, pid[c]) \in Task
  BY DEF TypeOK, ReapCh, Task
<1>3. pid[c] # 0 => <<ReapCh(c, pid[c]), Call("drain", c)>> \in Seq(Task)
  BY <1>1, <1>2
<1>4. (IF stop THEN <<Call("flush", c)>> ELSE <<>>) \in Seq(Task)
  BY <1>1
<1> QED BY <1>3, <1>4, ConcatProperties DEF WaitCalls

LEMMA ConcatNoReap ==
  ASSUME NEW s \in Seq(Task), NEW t \in Seq(Task), NoReap(s), NoReap(t)
  PROVE  s \o t \in Seq(Task) /\ NoReap(s \o t)
<1>1. /\ s \o t \in Seq(Task)
      /\ Len(s \o t) = Len(s) + Len(t)
      /\ \A i \in 1..(Len(s) + Len(t)) :
           (s \o t)[i] = IF i <= Len(s) THEN s[i] ELSE t[i - Len(s)]
  BY ConcatProperties
<1>2. Len(s) \in Nat /\ Len(t) \in Nat
  BY LenProperties
<1>3. ASSUME NEW i \in 1..(Len(s) + Len(t))
      PROVE  (s \o t)[i].op # "reap"
  <2>1. i \in 1..Len(s) \/ (~(i <= Len(s)) /\ i - Len(s) \in 1..Len(t))
    BY <1>2
  <2> QED BY <2>1, <1>1, <1>2 DEF NoReap
<1> QED BY <1>1, <1>3 DEF NoReap

LEMMA ClosesOthers ==
  LET others == [i \in 1..MaxChannel |-> ResetCh(i, "CLOSED")] IN
    others \in Seq(Task) /\ NoReap(others)
<1> DEFINE others == [i \in 1..MaxChannel |-> ResetCh(i, "CLOSED")]
<1>1. \A i \in 1..MaxChannel : ResetCh(i, "CLOSED") \in Task /\ ResetCh(i, "CLOSED").op # "reap"
  BY ChannelAssumption DEF ResetCh, Task, Ch, Modes
<1>2. others \in Seq(Task) /\ Len(others) = MaxChannel
  BY <1>1, ChannelAssumption
<1> QED BY <1>1, <1>2 DEF NoReap

LEMMA EventCallsType ==
  ASSUME NEW c \in Ch, NEW opened \in BOOLEAN
  PROVE  EventCalls(c, opened) \in Seq(Task) /\ NoReap(EventCalls(c, opened))
<1>1. \A d \in Ch, m \in Modes : ResetCh(d, m) \in Task /\ ResetCh(d, m).op # "reap"
  BY DEF ResetCh, Task
<1>2. \A d \in Ch, m \in Modes : <<ResetCh(d, m)>> \in Seq(Task) /\ NoReap(<<ResetCh(d, m)>>)
  BY <1>1 DEF NoReap
<1>3. {"CMD", "CMUX", "CLOSED"} \subseteq Modes /\ 0 \in Ch
  BY ChannelAssumption DEF Modes, Ch
<1>4. CASE c = 0
  BY <1>2, <1>3, <1>4, ClosesOthers, ConcatNoReap DEF EventCalls
<1>5. CASE c # 0
  BY <1>2, <1>3, <1>5 DEF EventCalls
<1> QED BY <1>4, <1>5

LEMMA InputCallsType ==
  ASSUME NEW c \in Ch, NEW p \in Payloads
  PROVE  InputCalls(c, p) \in Seq(Task) /\ NoReap(InputCalls(c, p))
<1>1. CASE mode[c] = "CMD" /\ p # Escape
  <2>1. p \in Seq(Commands) /\ Len(p) \in Nat /\ \A i \in 1..Len(p) : p[i] \in Commands
    BY <1>1, LinesAssumption, LenProperties, ElementOfSeq DEF Payloads
  <2>2. \A i \in 1..Len(p) : Call(p[i], c) \in Task /\ Call(p[i], c).op # "reap"
    BY <2>1 DEF Call, Task, Commands
  <2> QED BY <1>1, <2>1, <2>2 DEF InputCalls, NoReap
<1>2. <<>> \in Seq(Task) /\ NoReap(<<>>)
  BY DEF NoReap
<1>3. <<ResetCh(c, "CMD")>> \in Seq(Task) /\ NoReap(<<ResetCh(c, "CMD")>>)
  BY DEF ResetCh, Task, Modes, NoReap
<1> QED BY <1>1, <1>2, <1>3 DEF InputCalls

LEMMA StopCallsType == StopCalls \in Seq(Task) /\ NoReap(StopCalls)
<1>1. ResetCh(0, "CMD") \in Task /\ Call("halt", 0) \in Task
  BY ChannelAssumption DEF ResetCh, Call, Task, Ch, Modes
<1>2. /\ <<ResetCh(0, "CMD"), Call("halt", 0)>> \in Seq(Task)
      /\ NoReap(<<ResetCh(0, "CMD"), Call("halt", 0)>>)
  BY <1>1 DEF NoReap, ResetCh, Call
<1> QED BY <1>2, ClosesOthers, ConcatNoReap DEF StopCalls

-----------------------------------------------------------------------------
(* Type correctness. *)

LEMMA RunType ==
  ASSUME TypeOK, Busy, NEW tasks \in Seq(Task), Run(tasks)
  PROVE  cont' \in Seq(Task)
BY RunIndex DEF TypeOK

LEMMA EnterType ==
  ASSUME TypeOK, NEW tasks \in Seq(Task), Enter(tasks)
  PROVE  cont' \in Seq(Task)
BY EnterIndex DEF TypeOK

LEMMA SimpleCalls ==
  /\ <<>> \in Seq(Task) /\ NoReap(<<>>)
  /\ \A c \in Ch : \A op \in {"unpty", "read", "wait", "flush", "drain", "dial", "cmux"} :
       <<Call(op, c)>> \in Seq(Task) /\ NoReap(<<Call(op, c)>>)
  /\ \A c \in Ch, m \in Modes : <<ResetCh(c, m)>> \in Seq(Task) /\ NoReap(<<ResetCh(c, m)>>)
  /\ \A c \in Ch, p \in Payloads : <<Deliver(c, p)>> \in Seq(Task) /\ NoReap(<<Deliver(c, p)>>)
<1>1. \A c \in Ch : \A op \in {"unpty", "read", "wait", "flush", "drain", "dial", "cmux"} :
        Call(op, c) \in Task /\ Call(op, c).op # "reap"
  BY DEF Call, Task, Commands
<1>2. \A c \in Ch, m \in Modes : ResetCh(c, m) \in Task /\ ResetCh(c, m).op # "reap"
  BY DEF ResetCh, Task
<1>3. \A c \in Ch, p \in Payloads : Deliver(c, p) \in Task /\ Deliver(c, p).op # "reap"
  BY DEF Deliver, Task
<1> QED BY <1>1, <1>2, <1>3 DEF NoReap

(* What reset_channel() runs after the wait. *)
HangUp(c, m) == <<Call("unpty", c), [op |-> "finish", ch |-> c, to |-> m]>>
LEMMA HangUpType ==
  ASSUME NEW c \in Ch, NEW m \in Modes
  PROVE  /\ HangUp(c, m) \in Seq(Task) /\ NoReap(HangUp(c, m))
         /\ <<[op |-> "finish", ch |-> c, to |-> m]>> \in Seq(Task)
         /\ NoReap(<<[op |-> "finish", ch |-> c, to |-> m]>>)
<1>1. Call("unpty", c) \in Task /\ [op |-> "finish", ch |-> c, to |-> m] \in Task
  BY DEF Call, Task
<1> QED BY <1>1 DEF HangUp, NoReap, Call

(* The calls a received UIH frame makes. *)
UihCalls(c, p) == (IF chState[c] # "OPEN" /\ c # 0 THEN EventCalls(c, TRUE) ELSE <<>>)
                  \o (IF c # 0 THEN <<Deliver(c, p)>> ELSE <<>>)
LEMMA UihCallsType ==
  ASSUME NEW c \in Ch, NEW p \in Payloads
  PROVE  UihCalls(c, p) \in Seq(Task) /\ NoReap(UihCalls(c, p))
<1> DEFINE s == IF chState[c] # "OPEN" /\ c # 0 THEN EventCalls(c, TRUE) ELSE <<>>
           t == IF c # 0 THEN <<Deliver(c, p)>> ELSE <<>>
<1>1. s \in Seq(Task) /\ NoReap(s)
  BY EventCallsType, SimpleCalls
<1>2. t \in Seq(Task) /\ NoReap(t)
  BY SimpleCalls
<1> HIDE DEF s, t
<1>3. s \o t \in Seq(Task) /\ NoReap(s \o t)
  BY <1>1, <1>2, ConcatNoReap
<1> QED BY <1>3 DEF UihCalls, s, t

LEMMA FramesType ==
  ASSUME NEW n \in Nat, NEW fs \in [1..n -> Frame]
  PROVE  fs \in Seq(Task) /\ NoReap(fs)
<1>1. Frame \subseteq Task /\ \A f \in Frame : f.op # "reap"
  BY DEF Frame, Task
<1>2. fs \in Seq(Task) /\ Len(fs) = n
  BY <1>1
<1> QED BY <1>1, <1>2 DEF NoReap

LEMMA BurstNat == Burst \subseteq Nat
BY BurstAssumption DEF Burst

LEMMA TypeInit == Init => TypeOK
BY ChannelAssumption, PatienceAssumption DEF Init, TypeOK, Ch, Modes, Tokens, Task

LEMMA CallTypes ==
  ASSUME TypeOK, NEW c \in Ch, NEW k \in Child, CallBegins(c, k)
  PROVE  /\ mode' \in [Ch -> Modes] /\ home' \in [Child -> Ch]
         /\ owner' \in [Ch -> BOOLEAN] /\ live' \in [Ch -> BOOLEAN]
         /\ pipes' \in [Ch -> Child \cup {0}] /\ pty' \in [Ch -> Child \cup {0}]
         /\ open' \subseteq Tokens /\ polled' \subseteq Tokens
<1>1. {Pty(k), Stdio(k)} \subseteq Tokens
  BY DEF Pty, Stdio, Tokens
<1>2. PICK r \in Registered(k) : polled' = polled \cup r
  BY DEF CallBegins
<1>3. r \subseteq {Pty(k), Stdio(k)}
  BY <1>2 DEF Registered
<1> QED BY <1>1, <1>2, <1>3 DEF CallBegins, TypeOK, Modes

LEMMA ProceedType == TypeOK /\ Proceed => TypeOK'
<1> SUFFICES ASSUME TypeOK, Proceed PROVE TypeOK'
  OBVIOUS
<1> USE DEF procVars, muxVars
<1>0. Busy /\ Arg \in Task /\ Arg.ch \in Ch
  <2>1. Busy
    BY DEF Proceed, Top, Reset, Unpty, Finish, Wait, Reap, DialRefused, DialFails, Dial,
           StartMux, Sabm, Disc, UihFrame, Input, ReadEof, Halt
  <2> QED BY <2>1, TopTask, TaskFields DEF TypeOK
<1>1. CASE Reset
  <2>1. Arg.to \in Modes
    BY <1>0, <1>1, TaskFields DEF Reset, Top, Arg
  <2>2. CASE owner[Arg.ch]
    <3>1. WaitCalls(Arg.ch, TRUE) \o HangUp(Arg.ch, Arg.to) \in Seq(Task)
      BY <1>0, <2>1, WaitCallsType, HangUpType, ConcatProperties
    <3>2. cont' \in Seq(Task)
      BY <1>0, <1>1, <2>2, <3>1, RunType DEF Reset, HangUp
    <3>3. child' \in [Child -> {"none", "failed", "running", "killed", "exited", "reaped"}]
      BY <1>1, <2>2 DEF Reset, Interrupt, TypeOK
    <3> QED BY <1>0, <1>1, <2>2, <3>2, <3>3 DEF Reset, TypeOK
  <2>3. CASE ~owner[Arg.ch]
    <3>1. cont' \in Seq(Task)
      BY <1>0, <1>1, <2>1, <2>3, HangUpType, RunType DEF Reset
    <3> QED BY <1>1, <2>3, <3>1 DEF Reset, TypeOK
  <2> QED BY <2>2, <2>3
<1>2. CASE Unpty
  <2>1. cont' \in Seq(Task)
    BY <1>0, <1>2, SimpleCalls, RunType DEF Unpty
  <2> QED BY <1>0, <1>2, <2>1 DEF Unpty, TypeOK
<1>3. CASE Finish
  <2>1. cont' \in Seq(Task)
    BY <1>0, <1>3, SimpleCalls, RunType DEF Finish
  <2>2. Arg.to \in Modes
    BY <1>0, <1>3, TaskFields DEF Finish, Top, Arg
  <2> QED BY <1>0, <1>3, <2>1, <2>2 DEF Finish, TypeOK
<1>4. CASE Wait
  <2>1. cont' \in Seq(Task)
    BY <1>0, <1>4, WaitCallsType, RunType DEF Wait
  <2> QED BY <1>0, <1>4, <2>1 DEF Wait, TypeOK
<1>5. CASE Reap
  <2>1. cont' \in Seq(Task)
    BY <1>0, <1>5, SimpleCalls, RunType DEF Reap
  <2> QED BY <1>0, <1>5, <2>1 DEF Reap, TypeOK
<1>6. CASE DialRefused
  <2>1. cont' \in Seq(Task)
    BY <1>0, <1>6, SimpleCalls, RunType DEF DialRefused
  <2> QED BY <1>6, <2>1 DEF DialRefused, TypeOK
<1>7. ASSUME Free # {} PROVE NextChild \in Child
  BY <1>7 DEF NextChild, Free
<1>8. CASE DialFails
  <2>1. cont' \in Seq(Task)
    BY <1>0, <1>8, SimpleCalls, RunType DEF DialFails
  <2>2. CallBegins(Arg.ch, NextChild)
    BY <1>8 DEF DialFails
  <2> QED BY <1>0, <1>7, <1>8, <2>1, <2>2, CallTypes DEF DialFails, TypeOK
<1>9. CASE Dial
  <2>1. cont' \in Seq(Task)
    BY <1>0, <1>9, SimpleCalls, RunType DEF Dial
  <2>2. CallBegins(Arg.ch, NextChild)
    BY <1>9 DEF Dial
  <2> QED BY <1>0, <1>7, <1>9, <2>1, <2>2, CallTypes DEF Dial, TypeOK
<1>10. CASE StartMux
  <2>1. cont' \in Seq(Task)
    BY <1>0, <1>10, SimpleCalls, RunType DEF StartMux
  <2> QED BY <1>0, <1>10, <2>1, ChannelAssumption DEF StartMux, TypeOK, Modes, Ch
<1>11. CASE Sabm
  <2>1. cont' \in Seq(Task)
    BY <1>0, <1>11, SimpleCalls, EventCallsType, RunType DEF Sabm
  <2> QED BY <1>0, <1>11, <2>1 DEF Sabm, TypeOK
<1>12. CASE Disc
  <2>1. cont' \in Seq(Task)
    BY <1>0, <1>12, EventCallsType, RunType DEF Disc
  <2> QED BY <1>0, <1>12, <2>1 DEF Disc, TypeOK, Modes
<1>13. CASE UihFrame
  <2>1. cont' \in Seq(Task)
    BY <1>0, <1>13, TaskFields, UihCallsType, RunType DEF UihFrame, UihCalls, Top, Arg
  <2> QED BY <1>0, <1>13, <2>1 DEF UihFrame, TypeOK
<1>14. CASE Input
  <2>1. cont' \in Seq(Task)
    BY <1>0, <1>14, TaskFields, InputCallsType, RunType DEF Input, Top, Arg
  <2> QED BY <1>14, <2>1 DEF Input, TypeOK
<1>15. CASE ReadEof
  <2>1. cont' \in Seq(Task)
    BY <1>0, <1>15, SimpleCalls, RunType DEF ReadEof
  <2> QED BY <1>15, <2>1 DEF ReadEof, TypeOK
<1>16. CASE Halt
  <2>1. cont' \in Seq(Task)
    BY <1>0, <1>16, SimpleCalls, RunType DEF Halt
  <2> QED BY <1>16, <2>1, ChannelAssumption DEF Halt, TypeOK, Modes, Ch
<1> QED BY <1>1, <1>2, <1>3, <1>4, <1>5, <1>6, <1>8, <1>9, <1>10, <1>11, <1>12,
           <1>13, <1>14, <1>15, <1>16 DEF Proceed

LEMMA TypeStep == TypeOK /\ [Next]_vars => TypeOK'
<1> SUFFICES ASSUME TypeOK, [Next]_vars PROVE TypeOK'
  OBVIOUS
<1> USE DEF procVars, muxVars
<1>1. CASE Proceed
  BY <1>1, ProceedType
<1>2. CASE FlushEnd \/ ReadOutput
  <2>1. cont' \in Seq(Task)
    BY <1>2, SimpleCalls, RunType DEF FlushEnd, ReadOutput, Top
  <2> QED BY <1>2, <2>1 DEF FlushEnd, ReadOutput, TypeOK
<1>3. CASE DrainEnd
  <2>1. Busy /\ Arg.ch \in Ch
    BY <1>3, TopTask, TaskFields DEF DrainEnd, Top, TypeOK
  <2>2. cont' \in Seq(Task)
    BY <1>3, <2>1, SimpleCalls, RunType DEF DrainEnd, Modes
  <2> QED BY <1>3, <2>1, <2>2 DEF DrainEnd, TypeOK, Deregister
<1>4. CASE PeerText
  <2>1. 0 \in Ch
    BY ChannelAssumption DEF Ch
  <2>2. cont' \in Seq(Task)
    BY <1>4, <2>1, InputCallsType, EnterType DEF PeerText
  <2> QED BY <1>4, <2>2 DEF PeerText, TypeOK
<1>5. CASE PeerFrames
  <2>1. cont' \in Seq(Task)
    BY <1>5, BurstNat, FramesType, EnterType DEF PeerFrames
  <2> QED BY <1>5, <2>1 DEF PeerFrames, TypeOK
<1>6. CASE Shutdown
  <2>1. cont' \in Seq(Task)
    BY <1>6, StopCallsType, EnterType DEF Shutdown
  <2> QED BY <1>6, <2>1 DEF Shutdown, TypeOK
<1>7. CASE DrainStray \/ Terminated \/ UNCHANGED vars
  BY <1>7 DEF DrainStray, Terminated, vars, TypeOK
<1>8. ASSUME NEW k \in Child, Event(k) \/ ChildExit(k)
      PROVE  TypeOK'
  <2>1. CASE StdioEof(k) \/ StdioStale(k) \/ PtyEof(k)
    <3>1. home[k] \in Ch
      BY DEF TypeOK
    <3>2. cont' \in Seq(Task)
      BY <2>1, <3>1, SimpleCalls, EnterType DEF StdioEof, StdioStale, PtyEof
    <3> QED BY <2>1, <3>2 DEF StdioEof, StdioStale, PtyEof, TypeOK
  <2>2. CASE PtyStale(k)
    BY <2>2 DEF PtyStale, TypeOK
  <2>3. CASE ChildExit(k)
    BY <2>3 DEF ChildExit, TypeOK
  <2> QED BY <1>8, <2>1, <2>2, <2>3 DEF Event
<1> QED BY <1>1, <1>2, <1>3, <1>4, <1>5, <1>6, <1>7, <1>8 DEF Next, Step, Peer

(* Every variable keeps its type, whatever the peer sends and however the   *)
(* handlers of engine.c nest.                                               *)
THEOREM TypeCorrect == SafeSpec => []TypeOK
<1> QED BY TypeInit, TypeStep, PTL DEF SafeSpec

-----------------------------------------------------------------------------
(* Accounting of the children.  ChildAccounted speaks of the one place that *)
(* holds a process; its inductive form says where that place is.            *)

ReapAt(i, k) == i \in 1..Len(cont) /\ cont[i].op = "reap" /\ cont[i].pid = k

Accounted ==
  /\ \A c \in Ch : pid[c] # 0 => pid[c] \in Unreaped
  /\ \A c, d \in Ch : pid[c] # 0 /\ pid[d] = pid[c] => c = d
  /\ \A i \in Nat : \A k \in Child : ReapAt(i, k) =>
       k \in Unreaped /\ \A c \in Ch : pid[c] # k
  /\ \A i, j \in Nat : \A k \in Child : ReapAt(i, k) /\ ReapAt(j, k) => i = j
  /\ \A k \in Unreaped : (\E c \in Ch : pid[c] = k) \/ (\E i \in Nat : ReapAt(i, k))

LEMMA AccountedImplies == TypeOK /\ Accounted => ChildAccounted
<1> SUFFICES ASSUME TypeOK, Accounted, NEW k \in Child
             PROVE  IF k \in Unreaped THEN \E h \in HeldBy(k) : HeldBy(k) = {h} ELSE HeldBy(k) = {}
  BY DEF ChildAccounted
<1> DEFINE P == {c \in Ch : pid[c] = k}
           R == {i \in 1..Len(cont) : cont[i].op = "reap" /\ cont[i].pid = k}
<1>1. HeldBy(k) = {<<"pid", c>> : c \in P} \cup {<<"reap", i>> : i \in R}
  BY DEF HeldBy
<1>2. k # 0
  BY DEF Child
<1>3. R \subseteq Nat /\ \A i \in R : ReapAt(i, k)
  BY DEF ReapAt
<1>3a. \A i \in Nat : ReapAt(i, k) => i \in R
  BY DEF ReapAt
<1>4. CASE k \notin Unreaped
  <2>1. P = {}
    BY <1>2, <1>4 DEF Accounted
  <2>2. R = {}
    BY <1>3, <1>4 DEF Accounted
  <2> QED BY <1>1, <1>4, <2>1, <2>2
<1>5. ASSUME k \in Unreaped, NEW c \in Ch, pid[c] = k
      PROVE  \E h \in HeldBy(k) : HeldBy(k) = {h}
  <2>1. P = {c}
    BY <1>2, <1>5 DEF Accounted
  <2>2. R = {}
    BY <1>3, <1>5 DEF Accounted
  <2>3. HeldBy(k) = {<<"pid", c>>}
    BY <1>1, <2>1, <2>2
  <2> QED BY <2>3
<1>6. ASSUME k \in Unreaped, NEW i \in Nat, ReapAt(i, k)
      PROVE  \E h \in HeldBy(k) : HeldBy(k) = {h}
  <2>1. P = {}
    BY <1>6 DEF Accounted
  <2>2. R = {i}
    BY <1>3, <1>3a, <1>6 DEF Accounted
  <2>3. HeldBy(k) = {<<"reap", i>>}
    BY <1>1, <2>1, <2>2
  <2> QED BY <2>3
<1> QED BY <1>4, <1>5, <1>6 DEF Accounted

(* The pending waits only move: each one at i is at i + d afterwards. *)
Shifted(d) ==
  /\ \A i \in Nat : \A k \in Child : ReapAt(i, k) => i + d \in Nat /\ ReapAt(i + d, k)'
  /\ \A i \in Nat : \A k \in Child : ReapAt(i, k)' => i - d \in Nat /\ ReapAt(i - d, k)

LEMMA RunShifts ==
  ASSUME TypeOK, Busy, NEW tasks \in Seq(Task), Run(tasks), NoReap(tasks), Arg.op # "reap"
  PROVE  Len(tasks) - 1 \in Int /\ Shifted(Len(tasks) - 1)
<1>1. /\ Len(tasks) \in Nat /\ Len(cont) \in Nat
      /\ Len(cont') = Len(tasks) + Len(cont) - 1
      /\ \A i \in 1..Len(tasks) : cont'[i] = tasks[i]
      /\ \A i \in (Len(tasks) + 1)..Len(cont') : cont'[i] = cont[i - Len(tasks) + 1]
  BY RunIndex, LenProperties DEF TypeOK
<1>2. cont[1].op # "reap"
  BY TopTask DEF TypeOK
<1>3. ASSUME NEW i \in Nat, NEW k \in Child, ReapAt(i, k)
      PROVE  i + (Len(tasks) - 1) \in Nat /\ ReapAt(i + (Len(tasks) - 1), k)'
  <2>1. i \in 1..Len(cont) /\ i # 1
    BY <1>2, <1>3 DEF ReapAt
  <2> DEFINE j == i + (Len(tasks) - 1)
  <2>2. j \in (Len(tasks) + 1)..Len(cont') /\ j \in 1..Len(cont') /\ j \in Nat
    BY <1>1, <2>1
  <2>3. j - Len(tasks) + 1 = i
    BY <1>1
  <2>4. cont'[j] = cont[i]
    BY <1>1, <2>2, <2>3
  <2> QED BY <1>3, <2>2, <2>4 DEF ReapAt
<1>4. ASSUME NEW i \in Nat, NEW k \in Child, ReapAt(i, k)'
      PROVE  i - (Len(tasks) - 1) \in Nat /\ ReapAt(i - (Len(tasks) - 1), k)
  <2>1. i \in 1..Len(cont') /\ cont'[i].op = "reap" /\ cont'[i].pid = k
    BY <1>4 DEF ReapAt
  <2>2. i \notin 1..Len(tasks)
    BY <1>1, <2>1 DEF NoReap
  <2>3. i \in (Len(tasks) + 1)..Len(cont') /\ i - (Len(tasks) - 1) = i - Len(tasks) + 1
        /\ i - Len(tasks) + 1 \in 1..Len(cont)
    BY <1>1, <2>1, <2>2
  <2>4. cont'[i] = cont[i - Len(tasks) + 1]
    BY <1>1, <2>3
  <2> QED BY <2>1, <2>3, <2>4 DEF ReapAt
<1> QED BY <1>1, <1>3, <1>4 DEF Shifted

LEMMA EnterShifts ==
  ASSUME TypeOK, NEW tasks \in Seq(Task), Enter(tasks), NoReap(tasks)
  PROVE  Len(tasks) \in Int /\ Shifted(Len(tasks))
<1>1. /\ Len(tasks) \in Nat /\ Len(cont) \in Nat
      /\ Len(cont') = Len(tasks) + Len(cont)
      /\ \A i \in 1..Len(tasks) : cont'[i] = tasks[i]
      /\ \A i \in (Len(tasks) + 1)..Len(cont') : cont'[i] = cont[i - Len(tasks)]
  BY EnterIndex, LenProperties DEF TypeOK
<1>2. ASSUME NEW i \in Nat, NEW k \in Child, ReapAt(i, k)
      PROVE  i + Len(tasks) \in Nat /\ ReapAt(i + Len(tasks), k)'
  <2>1. i \in 1..Len(cont)
    BY <1>2 DEF ReapAt
  <2>2. /\ i + Len(tasks) \in (Len(tasks) + 1)..Len(cont')
        /\ i + Len(tasks) \in 1..Len(cont') /\ (i + Len(tasks)) - Len(tasks) = i
    BY <1>1, <2>1
  <2>3. cont'[i + Len(tasks)] = cont[i]
    BY <1>1, <2>2
  <2> QED BY <1>1, <1>2, <2>2, <2>3 DEF ReapAt
<1>3. ASSUME NEW i \in Nat, NEW k \in Child, ReapAt(i, k)'
      PROVE  i - Len(tasks) \in Nat /\ ReapAt(i - Len(tasks), k)
  <2>1. i \in 1..Len(cont') /\ cont'[i].op = "reap" /\ cont'[i].pid = k
    BY <1>3 DEF ReapAt
  <2>2. i \notin 1..Len(tasks)
    BY <1>1, <2>1 DEF NoReap
  <2>3. i \in (Len(tasks) + 1)..Len(cont') /\ i - Len(tasks) \in 1..Len(cont)
    BY <1>1, <2>1, <2>2
  <2> QED BY <1>1, <2>1, <2>3 DEF ReapAt
<1> QED BY <1>1, <1>2, <1>3 DEF Shifted

LEMMA AccountKept ==
  ASSUME TypeOK, Accounted, NEW d \in Int, Shifted(d), pid' = pid, Unreaped' = Unreaped
  PROVE  Accounted'
<1>1. \A c \in Ch : pid'[c] # 0 => pid'[c] \in Unreaped'
  BY DEF Accounted
<1>2. \A c, e \in Ch : pid'[c] # 0 /\ pid'[e] = pid'[c] => c = e
  BY DEF Accounted
<1>3. ASSUME NEW i \in Nat, NEW k \in Child, ReapAt(i, k)'
      PROVE  k \in Unreaped' /\ \A c \in Ch : pid'[c] # k
  BY <1>3 DEF Accounted, Shifted
<1>4. ASSUME NEW i \in Nat, NEW j \in Nat, NEW k \in Child, ReapAt(i, k)', ReapAt(j, k)'
      PROVE  i = j
  <2>1. i - d \in Nat /\ j - d \in Nat /\ ReapAt(i - d, k) /\ ReapAt(j - d, k)
    BY <1>4 DEF Shifted
  <2>2. i - d = j - d
    BY <2>1 DEF Accounted
  <2> QED BY <2>2
<1>5. ASSUME NEW k \in Unreaped'
      PROVE  (\E c \in Ch : pid'[c] = k) \/ (\E i \in Nat : ReapAt(i, k)')
  <2>1. k \in Unreaped /\ k \in Child
    BY <1>5 DEF Unreaped
  <2>2. CASE \E c \in Ch : pid[c] = k
    BY <2>2
  <2>3. ASSUME NEW i \in Nat, ReapAt(i, k)
        PROVE  \E j \in Nat : ReapAt(j, k)'
    BY <2>1, <2>3 DEF Shifted
  <2> QED BY <2>1, <2>2, <2>3 DEF Accounted
<1> QED BY <1>1, <1>2, <1>3, <1>4, <1>5 DEF Accounted

(* The pid of channel c is handed over to a pending wait, at position n. *)
LEMMA HandOver ==
  ASSUME TypeOK, Accounted, Busy, Arg.op # "reap",
         NEW c \in Ch, pid[c] # 0, pid' = [pid EXCEPT ![c] = 0], Unreaped' = Unreaped,
         NEW tasks \in Seq(Task), Run(tasks),
         NEW n \in 1..Len(tasks), tasks[n].op = "reap", tasks[n].pid = pid[c],
         \A i \in 1..Len(tasks) : tasks[i].op = "reap" => i = n
  PROVE  Accounted'
<1>0. PICK k \in Child : k = pid[c]
  BY DEF TypeOK
<1>1. /\ Len(tasks) \in Nat /\ Len(cont) \in Nat
      /\ Len(cont') = Len(tasks) + Len(cont) - 1
      /\ \A i \in 1..Len(tasks) : cont'[i] = tasks[i]
      /\ \A i \in (Len(tasks) + 1)..Len(cont') : cont'[i] = cont[i - Len(tasks) + 1]
  BY RunIndex, LenProperties DEF TypeOK
<1>2. cont[1].op # "reap" /\ Len(cont) # 0
  BY TopTask, EmptySeq DEF TypeOK, Busy
<1>3. k \in Child /\ k \in Unreaped /\ pid \in [Ch -> Child \cup {0}]
  BY <1>0 DEF TypeOK, Accounted
<1>4. n \in Nat /\ ReapAt(n, k)'
  BY <1>0, <1>1, <1>2 DEF ReapAt
<1>5. ASSUME NEW i \in Nat, NEW j \in Child, ReapAt(i, j)', i # n
      PROVE  i - Len(tasks) + 1 \in Nat /\ ReapAt(i - Len(tasks) + 1, j)
  <2>1. i \in 1..Len(cont') /\ cont'[i].op = "reap" /\ cont'[i].pid = j
    BY <1>5 DEF ReapAt
  <2>2. i \notin 1..Len(tasks)
    BY <1>1, <1>5, <2>1
  <2>3. i \in (Len(tasks) + 1)..Len(cont') /\ i - Len(tasks) + 1 \in 1..Len(cont)
    BY <1>1, <2>1, <2>2
  <2> QED BY <1>1, <2>1, <2>3 DEF ReapAt
<1>6. ASSUME NEW i \in Nat, NEW j \in Child, ReapAt(i, j)
      PROVE  i + Len(tasks) - 1 \in Nat /\ ReapAt(i + Len(tasks) - 1, j)'
  <2>1. i \in 1..Len(cont) /\ i # 1
    BY <1>2, <1>6 DEF ReapAt
  <2> DEFINE m == i + Len(tasks) - 1
  <2>2. m \in (Len(tasks) + 1)..Len(cont') /\ m \in 1..Len(cont') /\ m \in Nat
        /\ m - Len(tasks) + 1 = i
    BY <1>1, <2>1
  <2>3. cont'[m] = cont[i]
    BY <1>1, <2>2
  <2> QED BY <1>6, <2>2, <2>3 DEF ReapAt
<1>7. ASSUME NEW i \in Nat, ReapAt(i, k)' PROVE i = n
  <2> SUFFICES ASSUME i # n PROVE FALSE
    OBVIOUS
  <2>1. ReapAt(i - Len(tasks) + 1, k) /\ i - Len(tasks) + 1 \in Nat
    BY <1>3, <1>5, <1>7
  <2> QED BY <1>0, <1>3, <2>1 DEF Accounted
<1>8. \A d \in Ch : pid'[d] # 0 => d # c /\ pid'[d] = pid[d]
  BY <1>3
<1>9. \A d \in Ch : pid'[d] # 0 => pid'[d] \in Unreaped'
  BY <1>8 DEF Accounted
<1>10. \A d, e \in Ch : pid'[d] # 0 /\ pid'[e] = pid'[d] => d = e
  BY <1>8 DEF Accounted
<1>11. ASSUME NEW i \in Nat, NEW j \in Child, ReapAt(i, j)'
       PROVE  j \in Unreaped' /\ \A d \in Ch : pid'[d] # j
  <2>1. CASE i = n
    <3>1. j = k
      BY <1>4, <1>11, <2>1 DEF ReapAt
    <3> QED BY <3>1, <1>0, <1>3, <1>8 DEF Accounted, Child
  <2>2. CASE i # n
    BY <1>5, <1>8, <1>11, <2>2 DEF Accounted, Child
  <2> QED BY <2>1, <2>2
<1>12. ASSUME NEW i \in Nat, NEW j \in Nat, NEW q \in Child, ReapAt(i, q)', ReapAt(j, q)'
       PROVE  i = j
  <2>1. CASE q = k
    BY <1>7, <1>12, <2>1
  <2>2. CASE q # k
    <3>1. i # n /\ j # n
      BY <1>4, <1>12, <2>2 DEF ReapAt
    <3>2. /\ i - Len(tasks) + 1 \in Nat /\ ReapAt(i - Len(tasks) + 1, q)
          /\ j - Len(tasks) + 1 \in Nat /\ ReapAt(j - Len(tasks) + 1, q)
      BY <1>5, <1>12, <3>1
    <3>3. i - Len(tasks) + 1 = j - Len(tasks) + 1
      BY <3>2 DEF Accounted
    <3> QED BY <1>1, <3>3
  <2> QED BY <2>1, <2>2
<1>13. ASSUME NEW q \in Unreaped'
       PROVE  (\E d \in Ch : pid'[d] = q) \/ (\E i \in Nat : ReapAt(i, q)')
  <2>1. q \in Unreaped /\ q \in Child /\ q # 0
    BY <1>13 DEF Unreaped, Child
  <2>2. CASE q = k
    BY <1>4, <2>2
  <2>3. ASSUME NEW d \in Ch, pid[d] = q, q # k
        PROVE  pid'[d] = q
    BY <1>0, <1>3, <2>3
  <2>4. ASSUME NEW i \in Nat, ReapAt(i, q)
        PROVE  \E j \in Nat : ReapAt(j, q)'
    BY <1>6, <2>1, <2>4
  <2> QED BY <2>1, <2>2, <2>3, <2>4 DEF Accounted
<1> QED BY <1>9, <1>10, <1>11, <1>12, <1>13 DEF Accounted

(* The calls of io_spawn_wait() hold exactly one wait, for the pid handed over. *)
LEMMA WaitHandsOver ==
  ASSUME TypeOK, Accounted, Busy, Arg.op # "reap", NEW c \in Ch, NEW stop \in BOOLEAN,
         pid' = [pid EXCEPT ![c] = 0], Unreaped' = Unreaped,
         NEW rest \in Seq(Task), NoReap(rest), Run(WaitCalls(c, stop) \o rest)
  PROVE  Accounted'
<1>1. CASE pid[c] = 0
  <2>1. WaitCalls(c, stop) = <<>> /\ pid' = pid
    BY <1>1 DEF WaitCalls, TypeOK
  <2>2. Run(rest)
    BY <2>1, ConcatEmptySeq
  <2> QED BY <2>1, <2>2, RunShifts, AccountKept
<1>2. CASE pid[c] # 0
  <2> DEFINE pre == IF stop THEN <<Call("flush", c)>> ELSE <<>>
             mid == <<ReapCh(c, pid[c]), Call("drain", c)>>
  <2>1. pre \in Seq(Task) /\ Len(pre) \in {0, 1} /\ NoReap(pre)
    BY SimpleCalls
  <2>2. mid \in Seq(Task)
    BY <1>2 DEF ReapCh, Call, Task, TypeOK
  <2>3. Len(mid) = 2 /\ mid[1].op = "reap" /\ mid[1].pid = pid[c] /\ mid[2].op # "reap"
    BY DEF ReapCh, Call
  <2>4. WaitCalls(c, stop) = pre \o mid
    BY <1>2 DEF WaitCalls
  <2> HIDE DEF pre, mid
  <2>5. /\ pre \o mid \in Seq(Task) /\ Len(pre \o mid) = Len(pre) + 2
        /\ \A i \in 1..(Len(pre) + 2) : (pre \o mid)[i] =
             IF i <= Len(pre) THEN pre[i] ELSE mid[i - Len(pre)]
    <3>1. /\ pre \o mid \in Seq(Task) /\ Len(pre \o mid) = Len(pre) + Len(mid)
          /\ \A i \in 1..(Len(pre) + Len(mid)) : (pre \o mid)[i] =
               IF i <= Len(pre) THEN pre[i] ELSE mid[i - Len(pre)]
      BY <2>1, <2>2, ConcatProperties
    <3> QED BY <2>3, <3>1
  <2> DEFINE wait == pre \o mid
             all == wait \o rest
             n == Len(pre) + 1
  <2>6. wait[n].op = "reap" /\ wait[n].pid = pid[c]
    BY <2>1, <2>3, <2>5
  <2>7. \A i \in 1..(Len(pre) + 2) : wait[i].op = "reap" => i = n
    <3>1. ASSUME NEW i \in 1..(Len(pre) + 2), i # n PROVE wait[i].op # "reap"
      <4>1. i \in 1..Len(pre) \/ (~(i <= Len(pre)) /\ i - Len(pre) = 2)
        BY <2>1, <3>1
      <4> QED BY <4>1, <2>1, <2>3, <2>5 DEF NoReap
    <3> QED BY <3>1
  <2> HIDE DEF wait
  <2>8. /\ all \in Seq(Task) /\ Len(all) = Len(pre) + 2 + Len(rest)
        /\ \A i \in 1..(Len(pre) + 2 + Len(rest)) : all[i] =
             IF i <= Len(pre) + 2 THEN wait[i] ELSE rest[i - (Len(pre) + 2)]
    <3>1. wait \in Seq(Task) /\ Len(wait) = Len(pre) + 2
      BY <2>5 DEF wait
    <3>2. /\ all \in Seq(Task) /\ Len(all) = Len(wait) + Len(rest)
          /\ \A i \in 1..(Len(wait) + Len(rest)) : all[i] =
               IF i <= Len(wait) THEN wait[i] ELSE rest[i - Len(wait)]
      BY <3>1, ConcatProperties
    <3> QED BY <3>1, <3>2
  <2>9. Len(rest) \in Nat
    BY LenProperties
  <2>10. n \in 1..Len(all) /\ all[n].op = "reap" /\ all[n].pid = pid[c]
    BY <2>1, <2>6, <2>8, <2>9
  <2>11. ASSUME NEW i \in 1..Len(all), all[i].op = "reap" PROVE i = n
    <3>1. i \in 1..(Len(pre) + 2)
          \/ (~(i <= Len(pre) + 2) /\ i - (Len(pre) + 2) \in 1..Len(rest))
      BY <2>1, <2>8, <2>9
    <3> QED BY <2>1, <2>7, <2>8, <2>9, <2>11, <3>1 DEF NoReap
  <2>12. Run(all)
    BY <2>4 DEF wait
  <2> HIDE DEF all, n
  <2> QED BY <1>2, <2>8, <2>10, <2>11, <2>12, HandOver
<1> QED BY <1>1, <1>2

LEMMA AccountInit == Init => Accounted
<1> SUFFICES ASSUME Init PROVE Accounted
  OBVIOUS
<1>1. \A i \in Nat : \A k \in Child : ~ReapAt(i, k)
  BY EmptySeq DEF Init, ReapAt
<1>2. Unreaped = {} /\ \A c \in Ch : pid[c] = 0
  BY DEF Init, Unreaped
<1> QED BY <1>1, <1>2 DEF Accounted

(* waitpid() collects the child its wait was pending for. *)
LEMMA ReapAccounts == TypeOK /\ Accounted /\ Reap => Accounted'
<1> SUFFICES ASSUME TypeOK, Accounted, Reap PROVE Accounted'
  OBVIOUS
<1>1. Busy /\ Arg = cont[1] /\ 1 \in 1..Len(cont) /\ Arg \in Task /\ Arg.op = "reap"
  BY TopTask DEF Reap, Top, TypeOK, Arg
<1>2. PICK k \in Child : k = Arg.pid
  BY <1>1, TaskFields
<1>3. ReapAt(1, k)
  BY <1>1, <1>2 DEF ReapAt
<1>4. k \in Unreaped /\ \A c \in Ch : pid[c] # k
  BY <1>3 DEF Accounted
<1>5. /\ Len(cont) \in Nat /\ Len(cont') = Len(cont) - 1
      /\ \A i \in 1..Len(cont') : cont'[i] = cont[i + 1]
  <2>1. <<>> \in Seq(Task) /\ Len(<<>>) = 0 /\ Run(<<>>)
    BY SimpleCalls DEF Reap
  <2>2. /\ Len(cont') = 0 + Len(cont) - 1
        /\ \A i \in (0 + 1)..Len(cont') : cont'[i] = cont[i - 0 + 1]
    BY <1>1, <2>1, RunIndex DEF TypeOK
  <2>3. Len(cont) \in Nat
    BY LenProperties DEF TypeOK
  <2> QED BY <2>2, <2>3
<1>6. \A i \in Nat : \A j \in Child : ReapAt(i, j)' => i + 1 \in Nat /\ ReapAt(i + 1, j)
  BY <1>5 DEF ReapAt
<1>7. \A i \in Nat : \A j \in Child : ReapAt(i, j) /\ i # 1 => i - 1 \in Nat /\ ReapAt(i - 1, j)'
  BY <1>5 DEF ReapAt
<1>8. pid' = pid /\ Unreaped' = Unreaped \ {k}
  BY <1>2 DEF Reap, Unreaped, TypeOK
<1>9. ASSUME NEW i \in Nat, NEW j \in Child, ReapAt(i, j)'
      PROVE  j \in Unreaped' /\ \A c \in Ch : pid'[c] # j
  <2>1. ReapAt(i + 1, j) /\ i + 1 \in Nat /\ i \in 1..Len(cont')
    BY <1>6, <1>9 DEF ReapAt
  <2>2. j # k
    BY <1>3, <1>5, <2>1 DEF Accounted
  <2> QED BY <1>8, <2>1, <2>2 DEF Accounted
<1>10. \A c \in Ch : pid'[c] # 0 => pid'[c] \in Unreaped'
  BY <1>4, <1>8 DEF Accounted
<1>11. \A c, d \in Ch : pid'[c] # 0 /\ pid'[d] = pid'[c] => c = d
  BY <1>8 DEF Accounted
<1>12. ASSUME NEW i \in Nat, NEW j \in Nat, NEW q \in Child, ReapAt(i, q)', ReapAt(j, q)'
       PROVE  i = j
  <2>1. i + 1 = j + 1
    BY <1>6, <1>12 DEF Accounted
  <2> QED BY <2>1
<1>13. ASSUME NEW q \in Unreaped'
       PROVE  (\E c \in Ch : pid'[c] = q) \/ (\E i \in Nat : ReapAt(i, q)')
  <2>1. q \in Unreaped /\ q # k /\ q \in Child
    BY <1>8, <1>13 DEF Unreaped
  <2>2. ASSUME NEW i \in Nat, ReapAt(i, q)
        PROVE  \E j \in Nat : ReapAt(j, q)'
    <3>1. i # 1
      BY <1>3, <2>1, <2>2 DEF ReapAt
    <3> QED BY <1>7, <2>1, <2>2, <3>1
  <2> QED BY <1>8, <2>1, <2>2 DEF Accounted
<1> QED BY <1>9, <1>10, <1>11, <1>12, <1>13 DEF Accounted

(* A call to an idle channel puts one new child under its pid. *)
LEMMA DialAccounts == TypeOK /\ Accounted /\ Dial => Accounted'
<1> SUFFICES ASSUME TypeOK, Accounted, Dial PROVE Accounted'
  OBVIOUS
<1>1. Busy /\ Arg \in Task /\ Arg.op # "reap"
  BY TopTask DEF Dial, Top, TypeOK, Arg
<1>2. PICK c \in Ch : c = Arg.ch
  BY <1>1, TaskFields
<1>3. PICK k \in Child : k = NextChild /\ child[k] = "none"
  BY DEF Dial, NextChild, Free
<1>4. PICK d \in Int : Shifted(d)
  BY <1>1, SimpleCalls, RunShifts DEF Dial
<1>5. /\ pid' = [pid EXCEPT ![c] = k] /\ pid[c] = 0
      /\ child' = [child EXCEPT ![k] = "running"]
  BY <1>2, <1>3 DEF Dial, MayDial
<1>6. Unreaped' = Unreaped \cup {k} /\ k \notin Unreaped
  BY <1>3, <1>5 DEF Unreaped, TypeOK
<1>7. \A e \in Ch : pid[e] # k
  BY <1>6 DEF Accounted, Child
<1>8. pid'[c] = k /\ \A e \in Ch : e # c => pid'[e] = pid[e]
  BY <1>5 DEF TypeOK
<1>9. \A e \in Ch : pid'[e] # 0 => pid'[e] \in Unreaped'
  BY <1>6, <1>8 DEF Accounted
<1>10. \A e, f \in Ch : pid'[e] # 0 /\ pid'[f] = pid'[e] => e = f
  BY <1>7, <1>8 DEF Accounted
<1>11. ASSUME NEW i \in Nat, NEW q \in Child, ReapAt(i, q)'
       PROVE  q \in Unreaped' /\ \A e \in Ch : pid'[e] # q
  <2>1. i - d \in Nat /\ ReapAt(i - d, q)
    BY <1>4, <1>11 DEF Shifted
  <2>2. q \in Unreaped /\ \A e \in Ch : pid[e] # q
    BY <2>1 DEF Accounted
  <2> QED BY <1>6, <1>8, <2>2
<1>12. ASSUME NEW i \in Nat, NEW j \in Nat, NEW q \in Child, ReapAt(i, q)', ReapAt(j, q)'
       PROVE  i = j
  <2>1. i - d = j - d
    BY <1>4, <1>12 DEF Shifted, Accounted
  <2> QED BY <2>1
<1>13. ASSUME NEW q \in Unreaped'
       PROVE  (\E e \in Ch : pid'[e] = q) \/ (\E i \in Nat : ReapAt(i, q)')
  <2>1. CASE q = k
    BY <1>8, <2>1
  <2>2. CASE q # k
    <3>1. q \in Unreaped /\ q \in Child /\ q # 0
      BY <1>6, <1>13, <2>2 DEF Unreaped, Child
    <3>2. ASSUME NEW i \in Nat, ReapAt(i, q)
          PROVE  \E j \in Nat : ReapAt(j, q)'
      BY <1>4, <3>1, <3>2 DEF Shifted
    <3>3. ASSUME NEW e \in Ch, pid[e] = q
          PROVE  pid'[e] = q
      BY <1>5, <1>8, <3>1, <3>3
    <3> QED BY <3>1, <3>2, <3>3 DEF Accounted
  <2> QED BY <2>1, <2>2
<1> QED BY <1>9, <1>10, <1>11, <1>12, <1>13 DEF Accounted

(* Whether a channel is owned or not, reset_channel() loses no child. *)
LEMMA ResetAccounts == TypeOK /\ Accounted /\ Reset => Accounted'
<1> SUFFICES ASSUME TypeOK, Accounted, Reset PROVE Accounted'
  OBVIOUS
<1>1. Busy /\ Arg \in Task /\ Arg.op = "reset" /\ Arg.op # "reap"
  BY TopTask DEF Reset, Top, TypeOK, Arg
<1>2. PICK c \in Ch : c = Arg.ch
  BY <1>1, TaskFields
<1>3. PICK m \in Modes : m = Arg.to
  BY <1>1, TaskFields
<1>4. CASE owner[c]
  <2>1. Unreaped' = Unreaped
    BY <1>2, <1>4 DEF Reset, Interrupt, Unreaped, TypeOK
  <2>2. pid' = [pid EXCEPT ![c] = 0] /\ Run(WaitCalls(c, TRUE) \o HangUp(c, m))
    BY <1>2, <1>3, <1>4 DEF Reset, HangUp
  <2>3. HangUp(c, m) \in Seq(Task) /\ NoReap(HangUp(c, m))
    BY HangUpType
  <2> QED BY <1>1, <2>1, <2>2, <2>3, WaitHandsOver
<1>5. CASE ~owner[c]
  <2>1. pid' = pid /\ Unreaped' = Unreaped
    BY <1>2, <1>5 DEF Reset, Unreaped
  <2>2. \E d \in Int : Shifted(d)
    BY <1>1, <1>2, <1>3, <1>5, HangUpType, RunShifts DEF Reset
  <2> QED BY <2>1, <2>2, AccountKept
<1> QED BY <1>4, <1>5

LEMMA WaitAccounts == TypeOK /\ Accounted /\ Wait => Accounted'
<1> SUFFICES ASSUME TypeOK, Accounted, Wait PROVE Accounted'
  OBVIOUS
<1>1. Busy /\ Arg \in Task /\ Arg.op # "reap"
  BY TopTask DEF Wait, Top, TypeOK, Arg
<1>2. PICK c \in Ch : c = Arg.ch
  BY <1>1, TaskFields
<1>3. WaitCalls(c, FALSE) \o <<>> = WaitCalls(c, FALSE)
  BY WaitCallsType, ConcatEmptySeq
<1>4. pid' = [pid EXCEPT ![c] = 0] /\ Unreaped' = Unreaped /\ Run(WaitCalls(c, FALSE) \o <<>>)
  BY <1>2, <1>3 DEF Wait, Unreaped
<1> QED BY <1>1, <1>4, SimpleCalls, WaitHandsOver

(* A call that waits for nothing new only moves the pending waits. *)
LEMMA PlainRunAccounts ==
  ASSUME TypeOK, Accounted, Busy, Arg.op # "reap",
         NEW tasks \in Seq(Task), NoReap(tasks), Run(tasks), pid' = pid, Unreaped' = Unreaped
  PROVE  Accounted'
BY RunShifts, AccountKept

LEMMA EnterAccounts ==
  ASSUME TypeOK, Accounted, NEW tasks \in Seq(Task), NoReap(tasks), Enter(tasks),
         pid' = pid, Unreaped' = Unreaped
  PROVE  Accounted'
BY EnterShifts, AccountKept

LEMMA IdleAccounts ==
  ASSUME TypeOK, Accounted, cont' = cont, pid' = pid, Unreaped' = Unreaped
  PROVE  Accounted'
<1>1. Shifted(0)
  BY DEF Shifted, ReapAt
<1> QED BY <1>1, AccountKept

LEMMA ProceedAccounts == TypeOK /\ Accounted /\ Proceed => Accounted'
<1> SUFFICES ASSUME TypeOK, Accounted, Proceed PROVE Accounted'
  OBVIOUS
<1> USE DEF procVars, muxVars
<1>0. Busy /\ Arg \in Task /\ Arg.ch \in Ch
  <2>1. Busy
    BY DEF Proceed, Top, Reset, Unpty, Finish, Wait, Reap, DialRefused, DialFails, Dial,
           StartMux, Sabm, Disc, UihFrame, Input, ReadEof, Halt
  <2> QED BY <2>1, TopTask, TaskFields DEF TypeOK
<1>1. CASE Reset \/ Wait \/ Reap \/ Dial
  BY <1>1, ResetAccounts, WaitAccounts, ReapAccounts, DialAccounts
<1>2. CASE Unpty \/ Finish \/ DialRefused \/ StartMux \/ Halt
  <2>1. Run(<<>>) /\ Arg.op # "reap" /\ pid' = pid /\ Unreaped' = Unreaped
    BY <1>2 DEF Unpty, Finish, DialRefused, StartMux, Halt, Top, Arg, Unreaped
  <2> QED BY <1>0, <2>1, SimpleCalls, PlainRunAccounts
<1>3. CASE DialFails
  <2>1. PICK k \in Child : child[k] = "none" /\ child' = [child EXCEPT ![k] = "failed"]
    BY <1>3 DEF DialFails, NextChild, Free
  <2>2. Unreaped' = Unreaped
    BY <2>1 DEF Unreaped, TypeOK
  <2>3. Run(<<>>) /\ Arg.op # "reap" /\ pid' = pid
    BY <1>3 DEF DialFails, Top, Arg
  <2> QED BY <1>0, <2>2, <2>3, SimpleCalls, PlainRunAccounts
<1>4. CASE Sabm \/ Disc
  <2>1. Arg.op # "reap" /\ pid' = pid /\ Unreaped' = Unreaped
    BY <1>4 DEF Sabm, Disc, Top, Arg, Unreaped
  <2>2. Run(<<>>) \/ Run(EventCalls(Arg.ch, TRUE)) \/ Run(EventCalls(Arg.ch, FALSE))
    BY <1>4 DEF Sabm, Disc
  <2> QED BY <1>0, <2>1, <2>2, SimpleCalls, EventCallsType, PlainRunAccounts
<1>5. CASE UihFrame
  <2>1. Arg.op = "uih" /\ pid' = pid /\ Unreaped' = Unreaped
        /\ Run(UihCalls(Arg.ch, Arg.data))
    BY <1>5 DEF UihFrame, UihCalls, Top, Arg, Unreaped
  <2>2. UihCalls(Arg.ch, Arg.data) \in Seq(Task) /\ NoReap(UihCalls(Arg.ch, Arg.data))
    BY <1>0, <2>1, TaskFields, UihCallsType
  <2> QED BY <1>0, <2>1, <2>2, PlainRunAccounts
<1>6. CASE Input
  <2>1. Arg.op = "input" /\ pid' = pid /\ Unreaped' = Unreaped
        /\ Run(InputCalls(Arg.ch, Arg.data))
    BY <1>6 DEF Input, Top, Arg, Unreaped
  <2>2. InputCalls(Arg.ch, Arg.data) \in Seq(Task) /\ NoReap(InputCalls(Arg.ch, Arg.data))
    BY <1>0, <2>1, TaskFields, InputCallsType
  <2> QED BY <1>0, <2>1, <2>2, PlainRunAccounts
<1>7. CASE ReadEof
  <2>1. Arg.op = "read" /\ pid' = pid /\ Unreaped' = Unreaped /\ Run(<<Call("wait", Arg.ch)>>)
    BY <1>7 DEF ReadEof, Top, Arg, Unreaped
  <2> QED BY <1>0, <2>1, SimpleCalls, PlainRunAccounts
<1> QED BY <1>1, <1>2, <1>3, <1>4, <1>5, <1>6, <1>7 DEF Proceed

LEMMA AccountStep == TypeOK /\ Accounted /\ [Next]_vars => Accounted'
<1> SUFFICES ASSUME TypeOK, Accounted, [Next]_vars PROVE Accounted'
  OBVIOUS
<1> USE DEF procVars, muxVars
<1>1. CASE Proceed
  BY <1>1, ProceedAccounts
<1>2. CASE FlushEnd \/ ReadOutput
  <2>1. Busy /\ Arg.op # "reap" /\ Run(<<>>) /\ pid' = pid /\ Unreaped' = Unreaped
    BY <1>2 DEF FlushEnd, ReadOutput, Top, Arg, Unreaped
  <2> QED BY <2>1, SimpleCalls, PlainRunAccounts
<1>3. CASE DrainEnd
  <2>1. Busy /\ Arg.op # "reap" /\ pid' = pid /\ Unreaped' = Unreaped /\ Arg.ch \in Ch
    BY <1>3, TopTask, TaskFields DEF DrainEnd, Top, Arg, Unreaped, TypeOK
  <2>2. Run(<<>>) \/ Run(<<ResetCh(Arg.ch, "CMD")>>)
    BY <1>3 DEF DrainEnd
  <2> QED BY <2>1, <2>2, SimpleCalls, PlainRunAccounts DEF Modes
<1>4. CASE PeerText
  <2>1. PICK p \in Payloads : Enter(InputCalls(0, p)) /\ pid' = pid /\ Unreaped' = Unreaped
    BY <1>4 DEF PeerText, Unreaped
  <2>2. 0 \in Ch
    BY ChannelAssumption DEF Ch
  <2> QED BY <2>1, <2>2, InputCallsType, EnterAccounts
<1>5. CASE PeerFrames
  <2>1. PICK n \in Burst : \E fs \in [1..n -> Frame] : Enter(fs)
    BY <1>5 DEF PeerFrames
  <2>2. pid' = pid /\ Unreaped' = Unreaped
    BY <1>5 DEF PeerFrames, Unreaped
  <2> QED BY <2>1, <2>2, BurstNat, FramesType, EnterAccounts
<1>6. CASE Shutdown
  <2>1. Enter(StopCalls) /\ pid' = pid /\ Unreaped' = Unreaped
    BY <1>6 DEF Shutdown, Unreaped
  <2> QED BY <2>1, StopCallsType, EnterAccounts
<1>7. CASE DrainStray \/ Terminated \/ UNCHANGED vars
  <2>1. cont' = cont /\ pid' = pid /\ Unreaped' = Unreaped
    BY <1>7 DEF DrainStray, Terminated, vars, Unreaped
  <2> QED BY <2>1, IdleAccounts
<1>8. ASSUME NEW k \in Child, Event(k) \/ ChildExit(k)
      PROVE  Accounted'
  <2>1. CASE StdioEof(k) \/ StdioStale(k) \/ PtyEof(k)
    <3>1. home[k] \in Ch
      BY DEF TypeOK
    <3>2. /\ pid' = pid /\ Unreaped' = Unreaped
          /\ Enter(<<Call("wait", home[k])>>) \/ Enter(<<Call("read", home[k])>>)
      BY <2>1 DEF StdioEof, StdioStale, PtyEof, Unreaped
    <3> QED BY <3>1, <3>2, SimpleCalls, EnterAccounts
  <2>2. CASE PtyStale(k)
    BY <2>2, IdleAccounts DEF PtyStale, Unreaped
  <2>3. CASE ChildExit(k)
    <3>1. Unreaped' = Unreaped
      BY <2>3 DEF ChildExit, Unreaped, TypeOK
    <3> QED BY <2>3, <3>1, IdleAccounts DEF ChildExit
  <2> QED BY <1>8, <2>1, <2>2, <2>3 DEF Event
<1> QED BY <1>1, <1>2, <1>3, <1>4, <1>5, <1>6, <1>7, <1>8 DEF Next, Step, Peer

(* Every child that was started and not yet waited for is held in exactly   *)
(* one place, a channel's pid or one pending waitpid(), however the         *)
(* handlers of engine.c and io_spawn_wait() nest.                           *)
THEOREM ChildrenAccounted == SafeSpec => []ChildAccounted
<1>1. Init => TypeOK /\ Accounted
  BY TypeInit, AccountInit
<1>2. TypeOK /\ Accounted /\ [Next]_vars => TypeOK' /\ Accounted'
  BY TypeStep, AccountStep
<1>3. TypeOK /\ Accounted => ChildAccounted
  BY AccountedImplies
<1> QED BY <1>1, <1>2, <1>3, PTL DEF SafeSpec

-----------------------------------------------------------------------------
(***************************************************************************)
(* What the handlers leave behind: between them a channel's owner, child,  *)
(* pty, pipes and mode tell one story.                                     *)
(***************************************************************************)

(* The inductive invariant.  A handler that is part of the way through a    *)
(* hang-up leaves a channel inconsistent; the invariant says which call on  *)
(* the stack will put each inconsistency right, and that the calls which do *)
(* so stand where nothing can happen between them.                          *)

(* A call to op for channel c is still to be made. *)
Pending(op, c) == \E i \in 1..Len(cont) : cont[i].op = op /\ cont[i].ch = c
AboutToReset(c) == Top("reset") /\ Arg.ch = c

(* The end of a hang-up, unpty and finish, directly follows the call that   *)
(* waits for the child, with no event loop in between.                      *)
Follows(t, u) ==
  /\ u.op = "finish" => t.op = "unpty" /\ t.ch = u.ch
  /\ u.op = "unpty" => t.op \in {"drain", "reset", "finish"} /\ t.ch = u.ch
Chained(s) == \A i \in 1..Len(s) : i + 1 <= Len(s) => Follows(s[i], s[i + 1])
NoDataTarget(s) == \A i \in 1..Len(s) : s[i].op \in {"reset", "finish"} => s[i].to # "DATA"
Orderly(s) == Chained(s) /\ NoDataTarget(s)
Ends == {"unpty", "finish"}
EndsDisowned == Busy /\ Arg.op \in Ends => ~owner[Arg.ch]

(* A handle names only a child that was spawned for its own channel. *)
OwnChild(c) == \A k \in {pipes[c], pty[c]} \ {0} : home[k] = c /\ child[k] # "none"

CallUp(c) ==
  /\ pid[c] # 0 => owner[c] /\ pty[c] = pid[c]
  /\ owner[c] => pty[c] # 0 /\ pipes[c] = pty[c]
Reachable(c) == owner[c] =>
  \/ Pending("drain", c) \/ AboutToReset(c)
  \/ /\ live[c]
     /\ pty[c] \in WithRoom => {Pty(pty[c]), Stdio(pty[c])} \subseteq polled
     /\ mode[c] = "DATA" \/ (c = 0 /\ mode[c] = "CMUX")
CallDown(c) ==
  /\ owner[c] /\ pid[c] = 0 =>
       child[pty[c]] = "failed" \/ Pending("drain", c) \/ AboutToReset(c)
  /\ ~owner[c] /\ pty[c] # 0 => Pending("unpty", c)
  /\ ~owner[c] /\ mode[c] = "DATA" => Pending("finish", c)

Channel(c) == OwnChild(c) /\ CallUp(c) /\ Reachable(c) /\ CallDown(c)
(* All this until at_engine_stop() has returned. *)
Active == phase \in {"run", "stopping"}
Settling == Active =>
  Orderly(cont) /\ EndsDisowned /\ \A c \in Ch : Channel(c)

-----------------------------------------------------------------------------
(* The order of the calls on the stack, through Run and Enter. *)

LEMMA ContLength ==
  ASSUME TypeOK
  PROVE  Len(cont) \in Nat /\ (Busy <=> Len(cont) # 0)
BY LenProperties, EmptySeq DEF TypeOK, Busy

LEMMA RunOrderly ==
  ASSUME TypeOK, Busy, Orderly(cont), NEW tasks \in Seq(Task), Orderly(tasks), Run(tasks),
         tasks # <<>> /\ Len(cont) > 1 => Follows(tasks[Len(tasks)], cont[2])
  PROVE  Orderly(cont')
<1> DEFINE n == Len(tasks)
<1>1. n \in Nat /\ (tasks # <<>> <=> n # 0) /\ Len(cont) \in Nat \ {0}
  BY ContLength, LenProperties, EmptySeq
<1>2. /\ Len(cont') = n + Len(cont) - 1
      /\ \A i \in 1..n : cont'[i] = tasks[i]
      /\ \A i \in (n + 1)..Len(cont') : cont'[i] = cont[i - n + 1]
  BY RunIndex DEF TypeOK
<1> HIDE DEF n
<1>3. ASSUME NEW i \in 1..Len(cont'), i + 1 <= Len(cont')
      PROVE  Follows(cont'[i], cont'[i + 1])
  <2>1. CASE i + 1 <= n
    <3>1. i \in 1..n /\ i + 1 \in 1..n
      BY <1>1, <1>2, <2>1
    <3> QED BY <1>2, <2>1, <3>1 DEF Orderly, Chained, n
  <2>2. CASE i = n
    <3>1. /\ i \in 1..n /\ i + 1 \in (n + 1)..Len(cont')
          /\ i + 1 - n + 1 = 2 /\ Len(cont) > 1 /\ n # 0
      BY <1>1, <1>2, <1>3, <2>2
    <3>2. cont'[i] = tasks[n] /\ cont'[i + 1] = cont[2]
      BY <1>2, <2>2, <3>1
    <3> QED BY <1>1, <3>1, <3>2 DEF n
  <2>3. CASE i > n
    <3>1. /\ i \in (n + 1)..Len(cont') /\ i + 1 \in (n + 1)..Len(cont')
          /\ i - n + 1 \in 1..Len(cont) /\ i - n + 1 + 1 <= Len(cont)
          /\ i + 1 - n + 1 = i - n + 1 + 1
      BY <1>1, <1>2, <1>3, <2>3
    <3>2. cont'[i] = cont[i - n + 1] /\ cont'[i + 1] = cont[i - n + 1 + 1]
      BY <1>1, <1>2, <3>1
    <3> QED BY <3>1, <3>2 DEF Orderly, Chained
  <2> QED BY <1>1, <1>2, <2>1, <2>2, <2>3
<1>4. ASSUME NEW i \in 1..Len(cont'), cont'[i].op \in {"reset", "finish"}
      PROVE  cont'[i].to # "DATA"
  <2>1. CASE i \in 1..n
    BY <1>2, <1>4, <2>1 DEF Orderly, NoDataTarget, n
  <2>2. CASE i \notin 1..n
    <3>1. i \in (n + 1)..Len(cont') /\ i - n + 1 \in 1..Len(cont)
      BY <1>1, <1>2, <2>2
    <3> QED BY <1>2, <1>4, <3>1 DEF Orderly, NoDataTarget
  <2> QED BY <2>1, <2>2
<1> QED BY <1>3, <1>4 DEF Orderly, Chained, NoDataTarget

LEMMA EnterOrderly ==
  ASSUME TypeOK, Orderly(cont), NEW tasks \in Seq(Task), Orderly(tasks), Enter(tasks),
         Busy => Arg.op \notin Ends
  PROVE  Orderly(cont')
<1> DEFINE n == Len(tasks)
<1>1. n \in Nat /\ Len(cont) \in Nat
  BY ContLength, LenProperties
<1>2. /\ Len(cont') = n + Len(cont)
      /\ \A i \in 1..n : cont'[i] = tasks[i]
      /\ \A i \in (n + 1)..Len(cont') : cont'[i] = cont[i - n]
  BY EnterIndex DEF TypeOK
<1> HIDE DEF n
<1>3. ASSUME NEW i \in 1..Len(cont'), i + 1 <= Len(cont')
      PROVE  Follows(cont'[i], cont'[i + 1])
  <2>1. CASE i + 1 <= n
    <3>1. i \in 1..n /\ i + 1 \in 1..n
      BY <1>1, <1>2, <2>1
    <3> QED BY <1>2, <2>1, <3>1 DEF Orderly, Chained, n
  <2>2. CASE i = n
    <3>1. i + 1 \in (n + 1)..Len(cont') /\ i + 1 - n = 1 /\ Len(cont) # 0
      BY <1>1, <1>2, <1>3, <2>2
    <3>2. cont'[i + 1] = cont[1]
      BY <1>1, <1>2, <3>1
    <3>3. Busy /\ Arg = cont[1]
      BY <3>1, ContLength, TopTask DEF TypeOK
    <3> QED BY <3>2, <3>3 DEF Follows, Ends
  <2>3. CASE i > n
    <3>1. /\ i \in (n + 1)..Len(cont') /\ i + 1 \in (n + 1)..Len(cont')
          /\ i - n \in 1..Len(cont) /\ i - n + 1 <= Len(cont)
          /\ i + 1 - n = i - n + 1
      BY <1>1, <1>2, <1>3, <2>3
    <3>2. cont'[i] = cont[i - n] /\ cont'[i + 1] = cont[i - n + 1]
      BY <1>1, <1>2, <3>1
    <3> QED BY <3>1, <3>2 DEF Orderly, Chained
  <2> QED BY <1>1, <1>2, <2>1, <2>2, <2>3
<1>4. ASSUME NEW i \in 1..Len(cont'), cont'[i].op \in {"reset", "finish"}
      PROVE  cont'[i].to # "DATA"
  <2>1. CASE i \in 1..n
    BY <1>2, <1>4, <2>1 DEF Orderly, NoDataTarget, n
  <2>2. CASE i \notin 1..n
    <3>1. i \in (n + 1)..Len(cont') /\ i - n \in 1..Len(cont)
      BY <1>1, <1>2, <2>2
    <3> QED BY <1>2, <1>4, <3>1 DEF Orderly, NoDataTarget
  <2> QED BY <2>1, <2>2
<1> QED BY <1>3, <1>4 DEF Orderly, Chained, NoDataTarget

(* After any other call than those of a hang-up no hang-up's end is next. *)
LEMMA NoEndNext ==
  ASSUME TypeOK, Busy, Orderly(cont), Len(cont) > 1,
         Arg.op \notin {"unpty", "drain", "reset", "finish"}
  PROVE  cont[2].op \notin Ends
<1>1. Arg = cont[1] /\ 1 \in 1..Len(cont) /\ 1 + 1 <= Len(cont) /\ 1 + 1 = 2
  BY TopTask, ContLength DEF TypeOK
<1>2. Follows(cont[1], cont[2])
  BY <1>1 DEF Orderly, Chained
<1> QED BY <1>1, <1>2 DEF Follows, Ends

(* What runs next after Run and Enter. *)
LEMMA RunNext ==
  ASSUME TypeOK, Busy, NEW tasks \in Seq(Task), Run(tasks), Busy'
  PROVE  /\ tasks # <<>> => Arg' = tasks[1]
         /\ tasks = <<>> => Arg' = cont[2] /\ Len(cont) > 1
<1>1. Len(tasks) \in Nat /\ (tasks # <<>> <=> Len(tasks) # 0) /\ Len(cont) \in Nat \ {0}
  BY ContLength, LenProperties, EmptySeq
<1>2. /\ cont' \in Seq(Task)
      /\ Len(cont') = Len(tasks) + Len(cont) - 1
      /\ \A i \in 1..Len(tasks) : cont'[i] = tasks[i]
      /\ \A i \in (Len(tasks) + 1)..Len(cont') : cont'[i] = cont[i - Len(tasks) + 1]
  BY RunIndex DEF TypeOK
<1>3. Len(cont') # 0 /\ Arg' = cont'[1]
  BY <1>2, HeadTailProperties, EmptySeq DEF Busy, Arg
<1>4. CASE tasks # <<>>
  BY <1>1, <1>2, <1>3, <1>4
<1>5. CASE tasks = <<>>
  <2>1. 1 \in (Len(tasks) + 1)..Len(cont') /\ 1 - Len(tasks) + 1 = 2 /\ Len(cont) > 1
    BY <1>1, <1>2, <1>3, <1>5
  <2> QED BY <1>2, <1>3, <1>5, <2>1
<1> QED BY <1>4, <1>5

LEMMA EnterNext ==
  ASSUME TypeOK, NEW tasks \in Seq(Task), Enter(tasks), Busy'
  PROVE  /\ tasks # <<>> => Arg' = tasks[1]
         /\ tasks = <<>> => Arg' = Arg /\ Busy
<1>1. Len(tasks) \in Nat /\ (tasks # <<>> <=> Len(tasks) # 0)
  BY LenProperties, EmptySeq
<1>2. CASE tasks # <<>>
  <2>1. cont' \in Seq(Task) /\ \A i \in 1..Len(tasks) : cont'[i] = tasks[i]
    BY EnterIndex DEF TypeOK
  <2>2. Arg' = cont'[1]
    BY <2>1, HeadTailProperties DEF Busy, Arg
  <2> QED BY <1>1, <1>2, <2>1, <2>2
<1>3. CASE tasks = <<>>
  <2>1. cont' = cont
    BY <1>3, ConcatEmptySeq DEF Enter, TypeOK
  <2> QED BY <1>3, <2>1 DEF Busy, Arg
<1> QED BY <1>2, <1>3

(* A pending call stays pending until it is the one that runs. *)
LEMMA RunPending ==
  ASSUME TypeOK, Busy, NEW tasks \in Seq(Task), Run(tasks), NEW op, NEW c
  PROVE  /\ Pending(op, c) /\ ~(Arg.op = op /\ Arg.ch = c) => Pending(op, c)'
         /\ (\E i \in 1..Len(tasks) : tasks[i].op = op /\ tasks[i].ch = c) => Pending(op, c)'
<1>1. Len(tasks) \in Nat /\ Len(cont) \in Nat \ {0} /\ Arg = cont[1]
  BY ContLength, LenProperties, TopTask DEF TypeOK
<1>2. /\ Len(cont') = Len(tasks) + Len(cont) - 1
      /\ \A i \in 1..Len(tasks) : cont'[i] = tasks[i]
      /\ \A i \in (Len(tasks) + 1)..Len(cont') : cont'[i] = cont[i - Len(tasks) + 1]
  BY RunIndex DEF TypeOK
<1>3. ASSUME NEW i \in 1..Len(cont), cont[i].op = op, cont[i].ch = c, i # 1
      PROVE  Pending(op, c)'
  <2>1. /\ i + Len(tasks) - 1 \in (Len(tasks) + 1)..Len(cont')
        /\ i + Len(tasks) - 1 \in 1..Len(cont')
        /\ (i + Len(tasks) - 1) - Len(tasks) + 1 = i
    BY <1>1, <1>2, <1>3
  <2>2. cont'[i + Len(tasks) - 1] = cont[i]
    BY <1>2, <2>1
  <2> QED BY <1>3, <2>1, <2>2 DEF Pending
<1>4. ASSUME NEW i \in 1..Len(tasks), tasks[i].op = op, tasks[i].ch = c
      PROVE  Pending(op, c)'
  <2>1. i \in 1..Len(cont') /\ cont'[i] = tasks[i]
    BY <1>1, <1>2
  <2> QED BY <1>4, <2>1 DEF Pending
<1>5. ASSUME Pending(op, c), ~(Arg.op = op /\ Arg.ch = c)
      PROVE  Pending(op, c)'
  BY <1>1, <1>3, <1>5 DEF Pending
<1> QED BY <1>4, <1>5

LEMMA EnterPending ==
  ASSUME TypeOK, NEW tasks \in Seq(Task), Enter(tasks), NEW op, NEW c, Pending(op, c)
  PROVE  Pending(op, c)'
<1>1. Len(tasks) \in Nat /\ Len(cont) \in Nat
  BY ContLength, LenProperties
<1>2. /\ Len(cont') = Len(tasks) + Len(cont)
      /\ \A i \in (Len(tasks) + 1)..Len(cont') : cont'[i] = cont[i - Len(tasks)]
  BY EnterIndex DEF TypeOK
<1>3. PICK i \in 1..Len(cont) : cont[i].op = op /\ cont[i].ch = c
  BY DEF Pending
<1>4. /\ i + Len(tasks) \in (Len(tasks) + 1)..Len(cont')
      /\ i + Len(tasks) \in 1..Len(cont')
      /\ (i + Len(tasks)) - Len(tasks) = i
  BY <1>1, <1>2
<1> QED BY <1>2, <1>3, <1>4 DEF Pending

-----------------------------------------------------------------------------
(* What leaves a channel's story true. *)

Handles(c) == {pipes[c], pty[c]} \ {0}
Awaited == {"drain", "unpty", "finish"}
KeepsCalls(c) == \A op \in Awaited : Pending(op, c) => Pending(op, c)'
KeepsChildren(c) == \A k \in Handles(c) :
  /\ home'[k] = home[k]
  /\ child[k] # "none" => child'[k] # "none"
  /\ child[k] = "failed" => child'[k] = "failed"

LEMMA ChannelKept ==
  ASSUME NEW c \in Ch, Channel(c), ~AboutToReset(c), KeepsCalls(c), KeepsChildren(c),
         owner'[c] = owner[c], pid'[c] = pid[c], pipes'[c] = pipes[c], live'[c] = live[c],
         pty'[c] = pty[c], mode'[c] = mode[c],
         owner[c] => {Pty(pty[c]), Stdio(pty[c])} \cap polled \subseteq polled'
  PROVE  Channel(c)'
<1>1. OwnChild(c)'
  BY DEF Channel, OwnChild, KeepsChildren, Handles
<1>2. CallUp(c)' /\ Reachable(c)'
  BY DEF Channel, CallUp, Reachable, KeepsCalls, Awaited, Pty, Stdio
<1>3. CallDown(c)'
  <2>1. owner[c] => pty[c] \in Handles(c)
    BY DEF Channel, CallUp, Handles
  <2> QED BY <2>1 DEF Channel, CallDown, KeepsCalls, Awaited, KeepsChildren
<1> QED BY <1>1, <1>2, <1>3 DEF Channel

(* Two channels never hold the same child, so no step for one of them takes *)
(* a descriptor of the other out of the poll table.                         *)
LEMMA OthersPolled ==
  ASSUME NEW c \in Ch, NEW d \in Ch, c # d, Channel(c), Channel(d), owner[d],
         polled \ {Pty(pty[c]), Stdio(pipes[c])} \subseteq polled'
  PROVE  {Pty(pty[d]), Stdio(pty[d])} \cap polled \subseteq polled'
<1>1. home[pty[d]] = d /\ pty[d] # 0
  BY DEF Channel, CallUp, OwnChild
<1>2. pty[c] # pty[d] /\ pipes[c] # pty[d]
  BY <1>1 DEF Channel, OwnChild
<1> QED BY <1>2 DEF Pty, Stdio

(* The calls a handler makes when it hangs nothing up. *)
Plain(s) == /\ \A i \in 1..Len(s) : s[i].op \notin Ends
            /\ NoDataTarget(s)

LEMMA PlainOrderly ==
  ASSUME NEW s \in Seq(Task), Plain(s)
  PROVE  Orderly(s)
<1>1. Len(s) \in Nat
  BY LenProperties
<1> QED BY <1>1 DEF Plain, Orderly, Chained, Follows, Ends

LEMMA PlainRun ==
  ASSUME TypeOK, Busy, Orderly(cont), EndsDisowned, NEW tasks \in Seq(Task), Plain(tasks),
         Run(tasks), Arg.op \notin {"unpty", "drain", "reset", "finish"}
  PROVE  Orderly(cont') /\ EndsDisowned'
<1>1. Len(tasks) \in Nat /\ (tasks # <<>> <=> Len(tasks) # 0)
  BY LenProperties, EmptySeq
<1>2. Len(cont) > 1 => cont[2].op \notin Ends
  BY NoEndNext
<1>3. Orderly(cont')
  BY <1>2, PlainOrderly, RunOrderly DEF Follows, Ends
<1>4. Busy' => Arg'.op \notin Ends
  BY <1>1, <1>2, RunNext DEF Plain
<1> QED BY <1>3, <1>4 DEF EndsDisowned

LEMMA PlainEnter ==
  ASSUME TypeOK, Orderly(cont), NEW tasks \in Seq(Task), Plain(tasks), Enter(tasks),
         Busy => Arg.op \notin Ends
  PROVE  Orderly(cont') /\ EndsDisowned'
<1>1. Len(tasks) \in Nat /\ (tasks # <<>> <=> Len(tasks) # 0)
  BY LenProperties, EmptySeq
<1>2. Orderly(cont')
  BY PlainOrderly, EnterOrderly
<1>3. Busy' => Arg'.op \notin Ends
  BY <1>1, EnterNext DEF Plain
<1> QED BY <1>2, <1>3 DEF EndsDisowned

LEMMA PlainConcat ==
  ASSUME NEW s \in Seq(Task), NEW t \in Seq(Task), Plain(s), Plain(t)
  PROVE  s \o t \in Seq(Task) /\ Plain(s \o t)
<1>1. /\ s \o t \in Seq(Task)
      /\ Len(s \o t) = Len(s) + Len(t)
      /\ \A i \in 1..(Len(s) + Len(t)) :
           (s \o t)[i] = IF i <= Len(s) THEN s[i] ELSE t[i - Len(s)]
  BY ConcatProperties
<1>2. Len(s) \in Nat /\ Len(t) \in Nat
  BY LenProperties
<1>3. ASSUME NEW i \in 1..(Len(s) + Len(t))
      PROVE  /\ (s \o t)[i].op \notin Ends
             /\ (s \o t)[i].op \in {"reset", "finish"} => (s \o t)[i].to # "DATA"
  <2>1. i \in 1..Len(s) \/ (~(i <= Len(s)) /\ i - Len(s) \in 1..Len(t))
    BY <1>2
  <2> QED BY <2>1, <1>1, <1>2 DEF Plain, NoDataTarget
<1> QED BY <1>1, <1>3 DEF Plain, NoDataTarget

LEMMA PlainCalls ==
  /\ Plain(<<>>)
  /\ \A c \in Ch : \A op \in {"read", "wait", "flush", "drain", "dial", "cmux"} :
       Plain(<<Call(op, c)>>)
  /\ \A c \in Ch, m \in Modes \ {"DATA"} : Plain(<<ResetCh(c, m)>>)
  /\ \A c \in Ch, p \in Payloads : Plain(<<Deliver(c, p)>>)
BY DEF Plain, NoDataTarget, Ends, Call, ResetCh, Deliver

LEMMA ClosesOthersPlain ==
  LET others == [i \in 1..MaxChannel |-> ResetCh(i, "CLOSED")] IN
    others \in Seq(Task) /\ Plain(others)
<1> DEFINE others == [i \in 1..MaxChannel |-> ResetCh(i, "CLOSED")]
<1>1. others \in Seq(Task) /\ Len(others) = MaxChannel
  BY ClosesOthers, ChannelAssumption
<1> QED BY <1>1 DEF Plain, NoDataTarget, Ends, ResetCh

LEMMA EventCallsPlain ==
  ASSUME NEW c \in Ch, NEW opened \in BOOLEAN
  PROVE  EventCalls(c, opened) \in Seq(Task) /\ Plain(EventCalls(c, opened))
<1>1. {"CMD", "CMUX", "CLOSED"} \subseteq Modes \ {"DATA"} /\ 0 \in Ch
  BY ChannelAssumption DEF Modes, Ch
<1>2. CASE c = 0
  BY <1>1, <1>2, SimpleCalls, PlainCalls, ClosesOthersPlain, PlainConcat DEF EventCalls
<1>3. CASE c # 0
  BY <1>1, <1>3, SimpleCalls, PlainCalls DEF EventCalls
<1> QED BY <1>2, <1>3

LEMMA InputCallsPlain ==
  ASSUME NEW c \in Ch, NEW p \in Payloads
  PROVE  Plain(InputCalls(c, p))
<1>1. CASE mode[c] = "CMD" /\ p # Escape
  <2>1. Len(p) \in Nat /\ \A i \in 1..Len(p) : p[i] \in Commands
    BY <1>1, LinesAssumption, LenProperties, ElementOfSeq DEF Payloads
  <2>2. \A i \in 1..Len(p) : Call(p[i], c).op \notin Ends \cup {"reset", "finish"}
    BY <2>1 DEF Call, Commands, Ends
  <2> QED BY <1>1, <2>1, <2>2 DEF InputCalls, Plain, NoDataTarget
<1>2. "CMD" \in Modes \ {"DATA"}
  BY DEF Modes
<1> QED BY <1>1, <1>2, PlainCalls DEF InputCalls

LEMMA UihCallsPlain ==
  ASSUME NEW c \in Ch, NEW p \in Payloads
  PROVE  UihCalls(c, p) \in Seq(Task) /\ Plain(UihCalls(c, p))
<1> DEFINE s == IF chState[c] # "OPEN" /\ c # 0 THEN EventCalls(c, TRUE) ELSE <<>>
           t == IF c # 0 THEN <<Deliver(c, p)>> ELSE <<>>
<1>1. s \in Seq(Task) /\ Plain(s)
  BY EventCallsPlain, SimpleCalls, PlainCalls
<1>2. t \in Seq(Task) /\ Plain(t)
  BY SimpleCalls, PlainCalls
<1> HIDE DEF s, t
<1>3. s \o t \in Seq(Task) /\ Plain(s \o t)
  BY <1>1, <1>2, PlainConcat
<1> QED BY <1>3 DEF UihCalls, s, t

LEMMA StopCallsPlain == StopCalls \in Seq(Task) /\ Plain(StopCalls)
<1>1. /\ <<ResetCh(0, "CMD"), Call("halt", 0)>> \in Seq(Task)
      /\ Plain(<<ResetCh(0, "CMD"), Call("halt", 0)>>)
  <2>1. ResetCh(0, "CMD") \in Task /\ Call("halt", 0) \in Task
    BY ChannelAssumption DEF ResetCh, Call, Task, Ch, Modes
  <2> QED BY <2>1 DEF Plain, NoDataTarget, Ends, ResetCh, Call
<1> QED BY <1>1, ClosesOthersPlain, PlainConcat DEF StopCalls

LEMMA FramesPlain ==
  ASSUME NEW n \in Nat, NEW fs \in [1..n -> Frame]
  PROVE  Plain(fs)
<1>1. \A f \in Frame : f.op \notin Ends \cup {"reset", "finish"}
  BY DEF Frame, Ends
<1>2. Len(fs) = n
  BY FramesType DEF Plain
<1> QED BY <1>1, <1>2 DEF Plain, NoDataTarget

(* A step that changes nothing of any channel, and makes only plain calls. *)
Quietly == /\ owner' = owner /\ pid' = pid /\ pipes' = pipes /\ live' = live /\ pty' = pty
           /\ mode' = mode /\ home' = home /\ polled' = polled
           /\ \A k \in Child : /\ child[k] # "none" => child'[k] # "none"
                               /\ child[k] = "failed" => child'[k] = "failed"

LEMMA HandlesAreChildren ==
  ASSUME TypeOK, NEW c \in Ch
  PROVE  Handles(c) \subseteq Child
BY DEF TypeOK, Handles, Child

LEMMA QuietRun ==
  ASSUME TypeOK, Orderly(cont), EndsDisowned, \A c \in Ch : Channel(c),
         Busy, Arg.op \notin Ends \cup {"drain", "reset"},
         NEW tasks \in Seq(Task), Plain(tasks), Run(tasks), Quietly
  PROVE  Orderly(cont') /\ EndsDisowned' /\ \A c \in Ch : Channel(c)'
<1>1. Orderly(cont') /\ EndsDisowned'
  BY PlainRun DEF Ends
<1>2. ASSUME NEW c \in Ch
      PROVE  Channel(c)'
  <2>1. ~AboutToReset(c)
    BY DEF AboutToReset, Top, Arg
  <2>2. KeepsCalls(c)
    BY RunPending DEF KeepsCalls, Awaited, Ends
  <2>3. KeepsChildren(c)
    BY HandlesAreChildren DEF KeepsChildren, Quietly
  <2> QED BY <2>1, <2>2, <2>3, ChannelKept DEF Quietly
<1> QED BY <1>1, <1>2

LEMMA QuietEnter ==
  ASSUME TypeOK, Orderly(cont), EndsDisowned, \A c \in Ch : Channel(c),
         Busy => Arg.op \notin Ends \cup {"reset"},
         NEW tasks \in Seq(Task), Plain(tasks), Enter(tasks), Quietly
  PROVE  Orderly(cont') /\ EndsDisowned' /\ \A c \in Ch : Channel(c)'
<1>1. Orderly(cont') /\ EndsDisowned'
  BY PlainEnter
<1>2. ASSUME NEW c \in Ch
      PROVE  Channel(c)'
  <2>1. ~AboutToReset(c)
    BY DEF AboutToReset, Top, Arg
  <2>2. KeepsCalls(c)
    BY EnterPending DEF KeepsCalls
  <2>3. KeepsChildren(c)
    BY HandlesAreChildren DEF KeepsChildren, Quietly
  <2> QED BY <2>1, <2>2, <2>3, ChannelKept DEF Quietly
<1> QED BY <1>1, <1>2

-----------------------------------------------------------------------------
(* The steps that do change a channel. *)

Told == Orderly(cont) /\ EndsDisowned /\ \A c \in Ch : Channel(c)

LEMMA ToldInit == Init => Settling
<1> SUFFICES ASSUME Init PROVE Settling
  OBVIOUS
<1>1. Len(cont) = 0 /\ ~Busy
  BY EmptySeq DEF Init, Busy
<1>2. Orderly(cont) /\ EndsDisowned
  BY <1>1 DEF Orderly, Chained, NoDataTarget, EndsDisowned
<1>3. \A c \in Ch : Channel(c)
  BY DEF Init, Channel, OwnChild, CallUp, Reachable, CallDown
<1> QED BY <1>2, <1>3 DEF Settling

(* The call a hang-up's end follows is for the same channel. *)
LEMMA NextOnStack ==
  ASSUME TypeOK, Orderly(cont), Busy, Len(cont) > 1
  PROVE  Follows(Arg, cont[2])
<1>1. Arg = cont[1] /\ 1 \in 1..Len(cont) /\ 1 + 1 <= Len(cont) /\ 1 + 1 = 2
  BY TopTask, ContLength DEF TypeOK
<1> QED BY <1>1 DEF Orderly, Chained

LEMMA EmptyOrderly == <<>> \in Seq(Task) /\ Orderly(<<>>) /\ Len(<<>>) = 0
BY SimpleCalls, PlainCalls, PlainOrderly

LEMMA UnptyTold == TypeOK /\ Told /\ Unpty => Told'
<1> SUFFICES ASSUME TypeOK, Told, Unpty PROVE Told'
  OBVIOUS
<1>1. Busy /\ Arg.op = "unpty" /\ Run(<<>>) /\ Arg \in Task
  BY TopTask DEF Unpty, Top, Arg, TypeOK
<1>2. PICK c \in Ch : c = Arg.ch
  BY <1>1, TaskFields
<1>3. ~owner[c] /\ pid[c] = 0
  BY <1>1, <1>2 DEF Told, EndsDisowned, Ends, Channel, CallUp
<1>4. /\ pty' = [pty EXCEPT ![c] = 0] /\ polled' = polled \ {Pty(pty[c])}
      /\ owner' = owner /\ pid' = pid /\ pipes' = pipes /\ live' = live /\ mode' = mode
      /\ home' = home /\ child' = child
  BY <1>2 DEF Unpty
<1>5. Len(cont) > 1 => Follows(Arg, cont[2])
  BY <1>1, NextOnStack DEF Told
<1>6. Orderly(cont')
  BY <1>1, EmptyOrderly, RunOrderly DEF Told
<1>7. EndsDisowned'
  <2>1. Busy' => Arg' = cont[2] /\ Len(cont) > 1
    BY <1>1, EmptyOrderly, RunNext
  <2>2. Busy' => (Arg'.op \in Ends => Arg'.ch = c)
    BY <1>1, <1>2, <1>5, <2>1 DEF Follows, Ends
  <2> QED BY <1>3, <1>4, <2>2 DEF EndsDisowned
<1>8. ASSUME NEW d \in Ch
      PROVE  Channel(d)'
  <2>0. ~AboutToReset(d)
    BY <1>1 DEF AboutToReset, Top, Arg
  <2>1. CASE d # c
    <3>1. KeepsCalls(d)
      BY <1>1, <1>2, <2>1, EmptyOrderly, RunPending DEF KeepsCalls
    <3>2. KeepsChildren(d)
      BY <1>4 DEF KeepsChildren
    <3>3. owner[d] => {Pty(pty[d]), Stdio(pty[d])} \cap polled \subseteq polled'
      BY <1>4, <2>1, OthersPolled DEF Told
    <3>4. pty'[d] = pty[d]
      BY <1>4, <2>1 DEF TypeOK
    <3> QED BY <1>4, <2>0, <3>1, <3>2, <3>3, <3>4, ChannelKept DEF Told
  <2>2. CASE d = c
    <3>1. Pending("finish", c) => Pending("finish", c)'
      BY <1>1, EmptyOrderly, RunPending
    <3>2. pty'[c] = 0
      BY <1>4 DEF TypeOK
    <3>3. Channel(c)
      BY DEF Told
    <3> QED BY <1>3, <1>4, <2>2, <3>1, <3>2, <3>3
            DEF Channel, OwnChild, CallUp, Reachable, CallDown
  <2> QED BY <2>1, <2>2
<1> QED BY <1>6, <1>7, <1>8 DEF Told

LEMMA FinishTold == TypeOK /\ Told /\ Finish => Told'
<1> SUFFICES ASSUME TypeOK, Told, Finish PROVE Told'
  OBVIOUS
<1>1. Busy /\ Arg.op = "finish" /\ Run(<<>>) /\ Arg \in Task
  BY TopTask DEF Finish, Top, Arg, TypeOK
<1>2. PICK c \in Ch : c = Arg.ch
  BY <1>1, TaskFields
<1>3. ~owner[c] /\ pid[c] = 0
  BY <1>1, <1>2 DEF Told, EndsDisowned, Ends, Channel, CallUp
<1>4. Arg.to # "DATA"
  BY <1>1, TopTask DEF Told, Orderly, NoDataTarget, TypeOK
<1>5. /\ mode' = [mode EXCEPT ![c] = Arg.to]
      /\ owner' = owner /\ pid' = pid /\ pipes' = pipes /\ live' = live /\ pty' = pty
      /\ home' = home /\ child' = child /\ polled' = polled
  BY <1>2 DEF Finish, procVars
<1>6. Len(cont) > 1 => Follows(Arg, cont[2])
  BY <1>1, NextOnStack DEF Told
<1>7. Orderly(cont')
  BY <1>1, EmptyOrderly, RunOrderly DEF Told
<1>8. EndsDisowned'
  <2>1. Busy' => Arg' = cont[2] /\ Len(cont) > 1
    BY <1>1, EmptyOrderly, RunNext
  <2>2. Busy' => (Arg'.op \in Ends => Arg'.ch = c)
    BY <1>1, <1>2, <1>6, <2>1 DEF Follows, Ends
  <2> QED BY <1>3, <1>5, <2>2 DEF EndsDisowned
<1>9. ASSUME NEW d \in Ch
      PROVE  Channel(d)'
  <2>0. ~AboutToReset(d)
    BY <1>1 DEF AboutToReset, Top, Arg
  <2>1. CASE d # c
    <3>1. KeepsCalls(d)
      BY <1>1, <1>2, <2>1, EmptyOrderly, RunPending DEF KeepsCalls
    <3>2. KeepsChildren(d)
      BY <1>5 DEF KeepsChildren
    <3>3. mode'[d] = mode[d]
      BY <1>5, <2>1 DEF TypeOK
    <3> QED BY <1>5, <2>0, <3>1, <3>2, <3>3, ChannelKept DEF Told
  <2>2. CASE d = c
    <3>1. Pending("unpty", c) => Pending("unpty", c)'
      BY <1>1, EmptyOrderly, RunPending
    <3>2. mode'[c] # "DATA"
      BY <1>4, <1>5 DEF TypeOK
    <3>3. Channel(c)
      BY DEF Told
    <3> QED BY <1>3, <1>5, <2>2, <3>1, <3>2, <3>3
            DEF Channel, OwnChild, CallUp, Reachable, CallDown
  <2> QED BY <2>1, <2>2
<1> QED BY <1>7, <1>8, <1>9 DEF Told

(* The pipes are closed; a channel owned by a new call is reset next. *)
LEMMA DrainTold == TypeOK /\ Told /\ DrainEnd => Told'
<1> SUFFICES ASSUME TypeOK, Told, DrainEnd PROVE Told'
  OBVIOUS
<1>1. Busy /\ Arg.op = "drain" /\ Arg \in Task
  BY TopTask DEF DrainEnd, Top, Arg, TypeOK
<1>2. PICK c \in Ch : c = Arg.ch
  BY <1>1, TaskFields
<1> DEFINE tasks == IF owner[c] THEN <<ResetCh(c, "CMD")>> ELSE <<>>
<1>3. tasks \in Seq(Task) /\ Plain(tasks) /\ Run(tasks)
  BY <1>2, SimpleCalls, PlainCalls DEF DrainEnd, Modes
<1>4. /\ live' = [live EXCEPT ![c] = FALSE]
      /\ polled \ {Stdio(pipes[c])} \subseteq polled'
      /\ owner' = owner /\ pid' = pid /\ pipes' = pipes /\ pty' = pty /\ mode' = mode
      /\ home' = home /\ child' = child
  BY <1>2 DEF DrainEnd, Deregister
<1>5. owner[c] => tasks # <<>> /\ Len(tasks) = 1 /\ tasks[1] = ResetCh(c, "CMD")
  OBVIOUS
<1>6. ~owner[c] => tasks = <<>>
  OBVIOUS
<1> HIDE DEF tasks
<1>7. Len(cont) > 1 => Follows(Arg, cont[2])
  BY <1>1, NextOnStack DEF Told
<1>8. Orderly(cont')
  <2>1. Len(cont) > 1 /\ owner[c] => Follows(ResetCh(c, "CMD"), cont[2])
    BY <1>1, <1>2, <1>7 DEF Follows, ResetCh
  <2> QED BY <1>1, <1>3, <1>5, <1>6, <2>1, PlainOrderly, RunOrderly DEF Told
<1>9. EndsDisowned'
  <2>1. CASE owner[c]
    <3>1. Busy' => Arg'.op = "reset"
      BY <1>1, <1>3, <1>5, <2>1, RunNext DEF ResetCh
    <3> QED BY <3>1 DEF EndsDisowned, Ends
  <2>2. CASE ~owner[c]
    <3>1. Busy' => Arg' = cont[2] /\ Len(cont) > 1
      BY <1>1, <1>3, <1>6, <2>2, RunNext
    <3>2. Busy' => (Arg'.op \in Ends => Arg'.ch = c)
      BY <1>1, <1>2, <1>7, <3>1 DEF Follows, Ends
    <3> QED BY <1>4, <2>2, <3>2 DEF EndsDisowned
  <2> QED BY <2>1, <2>2
<1>10. ASSUME NEW d \in Ch
       PROVE  Channel(d)'
  <2>0. ~AboutToReset(d)
    BY <1>1 DEF AboutToReset, Top, Arg
  <2>1. CASE d # c
    <3>1. KeepsCalls(d)
      BY <1>1, <1>2, <1>3, <2>1, RunPending DEF KeepsCalls
    <3>2. KeepsChildren(d)
      BY <1>4 DEF KeepsChildren
    <3>3. owner[d] => {Pty(pty[d]), Stdio(pty[d])} \cap polled \subseteq polled'
      BY <1>4, <2>1, OthersPolled DEF Told
    <3>4. live'[d] = live[d]
      BY <1>4, <2>1 DEF TypeOK
    <3> QED BY <1>4, <2>0, <3>1, <3>2, <3>3, <3>4, ChannelKept DEF Told
  <2>2. CASE d = c
    <3>1. \A op \in {"unpty", "finish"} : Pending(op, c) => Pending(op, c)'
      BY <1>1, <1>3, RunPending
    <3>2. owner[c] => AboutToReset(c)'
      <4>1. SUFFICES ASSUME owner[c] PROVE AboutToReset(c)'
        OBVIOUS
      <4>2. Len(cont') = Len(tasks) + Len(cont) - 1
        BY <1>1, <1>3, RunIndex DEF TypeOK
      <4>3. cont' \in Seq(Task) /\ Len(cont') # 0
        BY <1>1, <1>3, <1>5, <4>1, <4>2, ContLength, RunIndex DEF TypeOK
      <4>4. Busy'
        BY <4>3, EmptySeq DEF Busy
      <4>5. Arg' = ResetCh(c, "CMD")
        BY <1>1, <1>3, <1>5, <4>1, <4>4, RunNext
      <4> QED BY <4>4, <4>5 DEF AboutToReset, Top, Arg, ResetCh
    <3>3. Channel(c)
      BY DEF Told
    <3> QED BY <1>4, <2>2, <3>1, <3>2, <3>3
            DEF Channel, OwnChild, CallUp, Reachable, CallDown
  <2> QED BY <2>1, <2>2
<1> QED BY <1>8, <1>9, <1>10 DEF Told

(* What reset_channel() still has to do once the channel is disowned. *)
FinishCh(c, m) == [op |-> "finish", ch |-> c, to |-> m]
LEMMA ResetCallsAre ==
  ASSUME TypeOK, NEW c \in Ch, NEW m \in Modes
  PROVE  LET tasks == WaitCalls(c, TRUE) \o HangUp(c, m) IN
         /\ pid[c] = 0 => /\ Len(tasks) = 2
                          /\ tasks[1] = Call("unpty", c) /\ tasks[2] = FinishCh(c, m)
         /\ pid[c] # 0 => /\ Len(tasks) = 5 /\ tasks[1] = Call("flush", c)
                          /\ tasks[2] = ReapCh(c, pid[c]) /\ tasks[3] = Call("drain", c)
                          /\ tasks[4] = Call("unpty", c) /\ tasks[5] = FinishCh(c, m)
<1> DEFINE wait == WaitCalls(c, TRUE)
           end == HangUp(c, m)
<1>1. wait \in Seq(Task) /\ end \in Seq(Task)
  BY WaitCallsType, HangUpType
<1>2. Len(end) = 2 /\ end[1] = Call("unpty", c) /\ end[2] = FinishCh(c, m)
  BY DEF HangUp, FinishCh
<1>3. pid[c] = 0 => wait = <<>>
  BY DEF WaitCalls
<1>4. pid[c] # 0 => /\ Len(wait) = 3 /\ wait[1] = Call("flush", c)
                    /\ wait[2] = ReapCh(c, pid[c]) /\ wait[3] = Call("drain", c)
  BY DEF WaitCalls
<1> HIDE DEF wait, end
<1> DEFINE all == wait \o end
<1>5. /\ Len(all) = Len(wait) + Len(end)
      /\ \A i \in 1..(Len(wait) + Len(end)) :
           all[i] = IF i <= Len(wait) THEN wait[i] ELSE end[i - Len(wait)]
  BY <1>1, ConcatProperties
<1>6. CASE pid[c] = 0
  BY <1>1, <1>2, <1>3, <1>6, ConcatEmptySeq DEF wait, end
<1>7. CASE pid[c] # 0
  <2> HIDE DEF all
  <2>1. Len(wait) = 3
    BY <1>4, <1>7
  <2>2. Len(all) = 5 /\ \A i \in 1..5 : all[i] = IF i <= 3 THEN wait[i] ELSE end[i - 3]
    BY <1>2, <1>5, <2>1
  <2>3. all[1] = wait[1] /\ all[2] = wait[2] /\ all[3] = wait[3]
    BY <2>2
  <2>4. all[4] = end[1] /\ all[5] = end[2]
    BY <2>2
  <2> QED BY <1>2, <1>4, <1>7, <2>2, <2>3, <2>4 DEF all, wait, end
<1> QED BY <1>6, <1>7

LEMMA ResetCallsOrderly ==
  ASSUME TypeOK, NEW c \in Ch, NEW m \in Modes \ {"DATA"}
  PROVE  LET tasks == WaitCalls(c, TRUE) \o HangUp(c, m) IN
           /\ tasks \in Seq(Task) /\ Len(tasks) \in {2, 5} /\ Orderly(tasks)
           /\ tasks[Len(tasks)] = FinishCh(c, m)
           /\ tasks[1].op \in Ends => tasks[1].ch = c
           /\ \A op \in Ends : \E i \in 1..Len(tasks) : tasks[i].op = op /\ tasks[i].ch = c
<1> DEFINE tasks == WaitCalls(c, TRUE) \o HangUp(c, m)
<1>1. tasks \in Seq(Task)
  BY WaitCallsType, HangUpType, ConcatProperties
<1>2. CASE pid[c] = 0
  <2>1. Len(tasks) = 2 /\ tasks[1] = Call("unpty", c) /\ tasks[2] = FinishCh(c, m)
    BY <1>2, ResetCallsAre
  <2> HIDE DEF tasks
  <2>2. Orderly(tasks)
    BY <2>1 DEF Orderly, Chained, Follows, NoDataTarget, Call, FinishCh
  <2>3. \A op \in Ends : \E i \in 1..2 : tasks[i].op = op /\ tasks[i].ch = c
    BY <2>1 DEF Ends, Call, FinishCh
  <2>4. tasks[1].ch = c
    BY <2>1 DEF Call
  <2> QED BY <1>1, <2>1, <2>2, <2>3, <2>4 DEF tasks
<1>3. CASE pid[c] # 0
  <2>1. /\ Len(tasks) = 5 /\ tasks[1] = Call("flush", c) /\ tasks[2] = ReapCh(c, pid[c])
        /\ tasks[3] = Call("drain", c) /\ tasks[4] = Call("unpty", c)
        /\ tasks[5] = FinishCh(c, m)
    BY <1>3, ResetCallsAre
  <2> HIDE DEF tasks
  <2>2. Chained(tasks)
    <3>1. \A i \in 1..5 : i + 1 <= 5 => i \in {1, 2, 3, 4}
      OBVIOUS
    <3> QED BY <2>1, <3>1 DEF Chained, Follows, Call, ReapCh, FinishCh
  <2>3. NoDataTarget(tasks)
    <3>1. \A i \in 1..5 : i \in {1, 2, 3, 4, 5}
      OBVIOUS
    <3> QED BY <2>1, <3>1 DEF NoDataTarget, Call, ReapCh, FinishCh
  <2>4. \A op \in Ends : \E i \in 1..5 : tasks[i].op = op /\ tasks[i].ch = c
    BY <2>1 DEF Ends, Call, FinishCh
  <2>5. tasks[1].op \notin Ends
    BY <2>1 DEF Ends, Call
  <2> QED BY <1>1, <2>1, <2>2, <2>3, <2>4, <2>5 DEF tasks, Orderly
<1> QED BY <1>2, <1>3

LEMMA ResetTold == TypeOK /\ Told /\ Reset => Told'
<1> SUFFICES ASSUME TypeOK, Told, Reset PROVE Told'
  OBVIOUS
<1>1. Busy /\ Arg.op = "reset" /\ Arg \in Task
  BY TopTask DEF Reset, Top, Arg, TypeOK
<1>2. PICK c \in Ch : c = Arg.ch
  BY <1>1, TaskFields
<1>3. PICK m \in Modes \ {"DATA"} : m = Arg.to
  BY <1>1, TopTask, TaskFields DEF Told, Orderly, NoDataTarget, TypeOK
<1>4. /\ \A d \in Ch \ {c} : owner'[d] = owner[d] /\ pid'[d] = pid[d]
      /\ pipes' = pipes /\ live' = live /\ pty' = pty /\ mode' = mode
      /\ home' = home /\ polled' = polled
      /\ \A k \in Child : /\ child[k] # "none" => child'[k] # "none"
                          /\ child[k] = "failed" => child'[k] = "failed"
  <2>1. owner[c] => child' = Interrupt(pid[c])
    BY <1>2 DEF Reset
  <2>2. ~owner[c] => child' = child
    BY <1>2 DEF Reset
  <2>3. \A k \in Child : /\ child[k] # "none" => child'[k] # "none"
                         /\ child[k] = "failed" => child'[k] = "failed"
    BY <2>1, <2>2 DEF Interrupt
  <2>4. \A d \in Ch \ {c} : owner'[d] = owner[d] /\ pid'[d] = pid[d]
    BY <1>2 DEF Reset, TypeOK
  <2> QED BY <2>3, <2>4 DEF Reset
<1>5. ~owner'[c] /\ pid'[c] = 0
  <2>1. CASE owner[c]
    BY <1>2, <2>1 DEF Reset, TypeOK
  <2>2. CASE ~owner[c]
    BY <1>2, <2>2 DEF Reset, Told, Channel, CallUp
  <2> QED BY <2>1, <2>2
<1>6. Len(cont) > 1 => Follows(Arg, cont[2])
  BY <1>1, NextOnStack DEF Told
(* Either way the channel is left in the hands of a finish. *)
<1>7. PICK tasks \in Seq(Task) :
        /\ Run(tasks) /\ Orderly(tasks) /\ Len(tasks) \in Nat \ {0}
        /\ tasks[Len(tasks)] = FinishCh(c, m)
        /\ tasks[1].op \in Ends => tasks[1].ch = c
        /\ owner[c] => \A op \in Ends :
             \E i \in 1..Len(tasks) : tasks[i].op = op /\ tasks[i].ch = c
  <2>1. CASE owner[c]
    <3> DEFINE tasks == WaitCalls(c, TRUE) \o HangUp(c, m)
    <3>1. Run(tasks)
      BY <1>2, <1>3, <2>1 DEF Reset, HangUp
    <3>2. /\ tasks \in Seq(Task) /\ Len(tasks) \in {2, 5} /\ Orderly(tasks)
          /\ tasks[Len(tasks)] = FinishCh(c, m)
          /\ tasks[1].op \in Ends => tasks[1].ch = c
          /\ \A op \in Ends : \E i \in 1..Len(tasks) : tasks[i].op = op /\ tasks[i].ch = c
      BY ResetCallsOrderly
    <3> HIDE DEF tasks
    <3> QED BY <3>1, <3>2
  <2>2. CASE ~owner[c]
    <3> DEFINE tasks == <<FinishCh(c, m)>>
    <3>1. Run(tasks) /\ tasks \in Seq(Task)
      BY <1>2, <1>3, <2>2, HangUpType DEF Reset, FinishCh
    <3>2. Len(tasks) = 1 /\ tasks[1] = FinishCh(c, m)
      OBVIOUS
    <3> HIDE DEF tasks
    <3>3. Orderly(tasks)
      BY <3>2 DEF Orderly, Chained, NoDataTarget, FinishCh
    <3> QED BY <2>2, <3>1, <3>2, <3>3 DEF FinishCh
  <2> QED BY <2>1, <2>2
<1>8. tasks # <<>>
  BY <1>7, EmptySeq
<1>9. Orderly(cont')
  <2>1. Len(cont) > 1 => Follows(FinishCh(c, m), cont[2])
    BY <1>1, <1>2, <1>6 DEF Follows, FinishCh
  <2> QED BY <1>1, <1>7, <2>1, RunOrderly DEF Told
<1>10. EndsDisowned'
  <2>1. Busy' => Arg' = tasks[1]
    BY <1>1, <1>7, <1>8, RunNext
  <2> QED BY <1>5, <1>7, <2>1 DEF EndsDisowned
<1>11. ASSUME NEW d \in Ch
       PROVE  Channel(d)'
  <2>1. CASE d # c
    <3>0. ~AboutToReset(d)
      BY <1>2, <2>1 DEF AboutToReset
    <3>1. KeepsCalls(d)
      BY <1>1, <1>2, <1>7, <2>1, RunPending DEF KeepsCalls
    <3>2. KeepsChildren(d)
      BY <1>4, HandlesAreChildren DEF KeepsChildren
    <3> QED BY <1>4, <2>1, <3>0, <3>1, <3>2, ChannelKept DEF Told
  <2>2. CASE d = c
    <3>1. Channel(c)
      BY DEF Told
    <3>2. OwnChild(c)'
      <4>1. Handles(c) \subseteq Child
        BY HandlesAreChildren
      <4> QED BY <1>4, <3>1, <4>1 DEF Channel, OwnChild, Handles
    <3>3. \A op \in Ends : Pending(op, c) => Pending(op, c)'
      BY <1>1, <1>7, RunPending DEF Ends
    <3>4. owner[c] => \A op \in Ends : Pending(op, c)'
      BY <1>1, <1>7, RunPending
    <3>5. CallDown(c)'
      BY <1>4, <1>5, <3>1, <3>3, <3>4 DEF Channel, CallDown, Ends
    <3> QED BY <1>5, <2>2, <3>2, <3>5 DEF Channel, CallUp, Reachable
  <2> QED BY <2>1, <2>2
<1> QED BY <1>9, <1>10, <1>11 DEF Told

LEMMA WaitCallsAre ==
  ASSUME TypeOK, NEW c \in Ch
  PROVE  LET tasks == WaitCalls(c, FALSE) IN
         /\ pid[c] = 0 => tasks = <<>>
         /\ pid[c] # 0 => /\ Len(tasks) = 2
                          /\ tasks[1] = ReapCh(c, pid[c]) /\ tasks[2] = Call("drain", c)
<1> DEFINE tasks == WaitCalls(c, FALSE)
<1>1. CASE pid[c] = 0
  BY <1>1 DEF WaitCalls
<1>2. CASE pid[c] # 0
  <2>1. \A t, u \in Task : <<>> \o <<t, u>> = <<t, u>>
    OBVIOUS
  <2>2. Call("drain", c) \in Task /\ ReapCh(c, pid[c]) \in Task
    BY <1>2 DEF Call, ReapCh, Task, TypeOK
  <2>3. tasks = <<ReapCh(c, pid[c]), Call("drain", c)>>
    BY <1>2, <2>1, <2>2 DEF WaitCalls
  <2> HIDE DEF tasks
  <2>4. Len(tasks) = 2 /\ tasks[1] = ReapCh(c, pid[c]) /\ tasks[2] = Call("drain", c)
    BY <2>3
  <2> QED BY <1>2, <2>4 DEF tasks
<1> QED BY <1>1, <1>2

(* io_spawn_wait() from end of file: the drain will reset the channel. *)
LEMMA WaitTold == TypeOK /\ Told /\ Wait => Told'
<1> SUFFICES ASSUME TypeOK, Told, Wait PROVE Told'
  OBVIOUS
<1>1. Busy /\ Arg.op = "wait" /\ Arg \in Task
  BY TopTask DEF Wait, Top, Arg, TypeOK
<1>2. PICK c \in Ch : c = Arg.ch
  BY <1>1, TaskFields
<1> DEFINE tasks == WaitCalls(c, FALSE)
<1>3. tasks \in Seq(Task) /\ Run(tasks)
  BY <1>2, WaitCallsType DEF Wait
<1>4. /\ pid[c] = 0 => tasks = <<>>
      /\ pid[c] # 0 => /\ Len(tasks) = 2
                       /\ tasks[1] = ReapCh(c, pid[c]) /\ tasks[2] = Call("drain", c)
  BY WaitCallsAre
<1> HIDE DEF tasks
<1>5. Plain(tasks)
  <2>1. CASE pid[c] = 0
    BY <1>4, <2>1, PlainCalls
  <2>2. CASE pid[c] # 0
    <3>1. \A i \in 1..2 : i \in {1, 2}
      OBVIOUS
    <3> QED BY <1>4, <2>2, <3>1 DEF Plain, NoDataTarget, Ends, ReapCh, Call
  <2> QED BY <2>1, <2>2
<1>6. pid[c] # 0 => \E i \in 1..Len(tasks) : tasks[i].op = "drain" /\ tasks[i].ch = c
  BY <1>4 DEF Call
<1>7. /\ pid' = [pid EXCEPT ![c] = 0]
      /\ owner' = owner /\ pipes' = pipes /\ live' = live /\ pty' = pty /\ mode' = mode
      /\ home' = home /\ child' = child /\ polled' = polled
  BY <1>2 DEF Wait
<1>8. Orderly(cont') /\ EndsDisowned'
  BY <1>1, <1>3, <1>5, PlainRun DEF Told
<1>9. ASSUME NEW d \in Ch
      PROVE  Channel(d)'
  <2>1. ~AboutToReset(d)
    BY <1>1 DEF AboutToReset, Top, Arg
  <2>2. KeepsCalls(d)
    BY <1>1, <1>3, RunPending DEF KeepsCalls, Awaited
  <2>3. KeepsChildren(d)
    BY <1>7 DEF KeepsChildren
  <2>4. CASE d # c
    <3>1. pid'[d] = pid[d]
      BY <1>7, <2>4 DEF TypeOK
    <3> QED BY <1>7, <2>1, <2>2, <2>3, <3>1, ChannelKept DEF Told
  <2>5. CASE d = c
    <3>1. Channel(c) /\ pid'[c] = 0
      BY <1>7 DEF Told, TypeOK
    <3>2. OwnChild(c)' /\ CallUp(c)'
      BY <1>7, <3>1 DEF Channel, OwnChild, CallUp
    <3>3. pid[c] # 0 => Pending("drain", c)'
      BY <1>1, <1>3, <1>6, RunPending
    <3>3a. Reachable(c)'
      BY <1>7, <2>1, <2>2, <2>5, <3>1 DEF Channel, Reachable, KeepsCalls, Awaited
    <3>4. CallDown(c)'
      BY <1>7, <2>1, <2>2, <2>5, <3>1, <3>3 DEF Channel, CallDown, KeepsCalls, Awaited
    <3> QED BY <2>5, <3>2, <3>3a, <3>4 DEF Channel
  <2> QED BY <2>4, <2>5
<1> QED BY <1>8, <1>9 DEF Told

(* A new call goes to a channel that holds nothing, or whose handles are    *)
(* about to be closed by the hang-up it interrupts.                         *)
LEMMA BeginTold ==
  ASSUME TypeOK, Told, Busy, Arg.op = "dial", Run(<<>>), NEW c \in Ch, c = Arg.ch,
         NEW k \in Child, child[k] = "none", CallBegins(c, k),
         NEW fate \in {"running", "failed"}, child' = [child EXCEPT ![k] = fate],
         pid' = IF fate = "failed" THEN pid ELSE [pid EXCEPT ![c] = k], pid[c] = 0
  PROVE  Told'
<1>1. k # 0
  BY DEF Child
<1>2. /\ home' = [home EXCEPT ![k] = c] /\ owner' = [owner EXCEPT ![c] = TRUE]
      /\ pipes' = [pipes EXCEPT ![c] = k] /\ live' = [live EXCEPT ![c] = TRUE]
      /\ pty' = [pty EXCEPT ![c] = k] /\ mode' = [mode EXCEPT ![c] = "DATA"]
  BY DEF CallBegins
<1>3. PICK r \in Registered(k) : polled' = polled \cup r
  BY DEF CallBegins
<1>4. Orderly(cont')
  BY EmptyOrderly, PlainCalls, PlainRun DEF Told
<1>5. EndsDisowned'
  <2>1. Busy' => Arg' = cont[2] /\ Len(cont) > 1
    BY EmptyOrderly, RunNext
  <2>2. Busy' => Arg'.op \notin Ends
    BY <2>1, NoEndNext DEF Told
  <2> QED BY <2>2 DEF EndsDisowned
<1>6. ASSUME NEW d \in Ch
      PROVE  Channel(d)'
  <2>1. CASE d # c
    <3>1. ~AboutToReset(d)
      BY DEF AboutToReset, Top, Arg
    <3>2. KeepsCalls(d)
      BY EmptyOrderly, RunPending DEF KeepsCalls, Awaited
    <3>3. KeepsChildren(d)
      <4>1. Handles(d) \subseteq Child /\ k \notin Handles(d)
        BY HandlesAreChildren DEF Told, Channel, OwnChild, Handles
      <4> QED BY <1>2, <4>1 DEF KeepsChildren, TypeOK
    <3>4. /\ owner'[d] = owner[d] /\ pid'[d] = pid[d] /\ pipes'[d] = pipes[d]
          /\ live'[d] = live[d] /\ pty'[d] = pty[d] /\ mode'[d] = mode[d]
      BY <1>2, <2>1 DEF TypeOK
    <3> QED BY <1>3, <3>1, <3>2, <3>3, <3>4, ChannelKept DEF Told
  <2>2. CASE d = c
    <3>1. /\ owner'[c] /\ pipes'[c] = k /\ live'[c] /\ pty'[c] = k
          /\ mode'[c] = "DATA" /\ home'[k] = c /\ child'[k] = fate
          /\ pid'[c] = IF fate = "failed" THEN 0 ELSE k
      BY <1>2 DEF TypeOK
    <3>2. k \in WithRoom => {Pty(k), Stdio(k)} \subseteq polled'
      BY <1>3 DEF Registered
    <3>3. OwnChild(c)' /\ CallUp(c)' /\ CallDown(c)'
      BY <1>1, <3>1 DEF OwnChild, CallUp, CallDown
    <3>4. Reachable(c)'
      BY <3>1, <3>2 DEF Reachable
    <3> QED BY <2>2, <3>3, <3>4 DEF Channel
  <2> QED BY <2>1, <2>2
<1> QED BY <1>4, <1>5, <1>6 DEF Told

LEMMA DialTold == TypeOK /\ Told /\ Dial => Told'
<1> SUFFICES ASSUME TypeOK, Told, Dial PROVE Told'
  OBVIOUS
<1>1. Busy /\ Arg.op = "dial" /\ Arg \in Task /\ Run(<<>>)
  BY TopTask DEF Dial, Top, Arg, TypeOK
<1>2. PICK c \in Ch : c = Arg.ch
  BY <1>1, TaskFields
<1>3. PICK k \in Child : k = NextChild /\ child[k] = "none"
  BY DEF Dial, NextChild, Free
<1>4. /\ CallBegins(c, k) /\ child' = [child EXCEPT ![k] = "running"]
      /\ pid' = [pid EXCEPT ![c] = k] /\ pid[c] = 0
  BY <1>2, <1>3 DEF Dial, MayDial
<1> QED BY <1>1, <1>2, <1>3, <1>4, BeginTold

LEMMA DialFailsTold == TypeOK /\ Told /\ DialFails => Told'
<1> SUFFICES ASSUME TypeOK, Told, DialFails PROVE Told'
  OBVIOUS
<1>1. Busy /\ Arg.op = "dial" /\ Arg \in Task /\ Run(<<>>)
  BY TopTask DEF DialFails, Top, Arg, TypeOK
<1>2. PICK c \in Ch : c = Arg.ch
  BY <1>1, TaskFields
<1>3. PICK k \in Child : k = NextChild /\ child[k] = "none"
  BY DEF DialFails, NextChild, Free
<1>4. /\ CallBegins(c, k) /\ child' = [child EXCEPT ![k] = "failed"]
      /\ pid' = pid /\ pid[c] = 0
  BY <1>2, <1>3 DEF DialFails, MayDial
<1> QED BY <1>1, <1>2, <1>3, <1>4, BeginTold

(* AT+CMUX=0 leaves a call on channel 0 up, in mux mode. *)
LEMMA StartMuxTold == TypeOK /\ Told /\ StartMux => Told'
<1> SUFFICES ASSUME TypeOK, Told, StartMux PROVE Told'
  OBVIOUS
<1>1. Busy /\ Arg.op = "cmux" /\ Run(<<>>)
  BY DEF StartMux, Top, Arg
<1>2. /\ owner' = owner /\ pid' = pid /\ pipes' = pipes /\ live' = live /\ pty' = pty
      /\ home' = home /\ child' = child /\ polled' = polled
  BY DEF StartMux, procVars
<1>3. mode' = mode \/ mode' = [mode EXCEPT ![0] = "CMUX"]
  BY DEF StartMux
<1>4. Orderly(cont') /\ EndsDisowned'
  BY <1>1, SimpleCalls, PlainCalls, PlainRun DEF Told
<1>5. ASSUME NEW d \in Ch
      PROVE  Channel(d)'
  <2>1. ~AboutToReset(d)
    BY <1>1 DEF AboutToReset, Top, Arg
  <2>2. KeepsCalls(d)
    BY <1>1, EmptyOrderly, RunPending DEF KeepsCalls, Awaited
  <2>3. KeepsChildren(d)
    BY <1>2 DEF KeepsChildren
  <2>4. CASE mode'[d] = mode[d]
    BY <1>2, <2>1, <2>2, <2>3, <2>4, ChannelKept DEF Told
  <2>5. CASE mode'[d] # mode[d]
    <3>1. d = 0 /\ mode'[d] = "CMUX" /\ Channel(d)
      BY <1>3, <2>5 DEF TypeOK, Told
    <3>2. OwnChild(d)' /\ CallUp(d)' /\ Reachable(d)'
      BY <1>2, <2>1, <2>2, <3>1
         DEF Channel, OwnChild, CallUp, Reachable, KeepsCalls, Awaited
    <3>3. CallDown(d)'
      BY <1>2, <2>1, <2>2, <3>1 DEF Channel, CallDown, KeepsCalls, Awaited
    <3> QED BY <3>2, <3>3 DEF Channel
  <2> QED BY <2>4, <2>5
<1> QED BY <1>4, <1>5 DEF Told

(* A DISC on channel 0 leaves mux mode, and resets the channel next. *)
LEMMA DiscTold == TypeOK /\ Told /\ Disc => Told'
<1> SUFFICES ASSUME TypeOK, Told, Disc PROVE Told'
  OBVIOUS
<1>1. Busy /\ Arg.op = "disc" /\ Arg \in Task /\ Run(EventCalls(Arg.ch, FALSE))
  BY TopTask DEF Disc, Top, Arg, TypeOK
<1>2. PICK c \in Ch : c = Arg.ch
  BY <1>1, TaskFields
<1> DEFINE tasks == EventCalls(c, FALSE)
<1>3. tasks \in Seq(Task) /\ Plain(tasks) /\ Run(tasks)
  BY <1>1, <1>2, EventCallsPlain
<1>4. c = 0 => tasks # <<>> /\ tasks[1] = ResetCh(0, "CMD")
  <2>1. SUFFICES ASSUME c = 0 PROVE tasks # <<>> /\ tasks[1] = ResetCh(0, "CMD")
    OBVIOUS
  <2> DEFINE others == [i \in 1..MaxChannel |-> ResetCh(i, "CLOSED")]
             first == <<ResetCh(0, "CMD")>>
  <2>2. others \in Seq(Task) /\ first \in Seq(Task) /\ Len(first) = 1
        /\ first[1] = ResetCh(0, "CMD")
    BY ClosesOthers, SimpleCalls, <2>1 DEF Modes
  <2>3. tasks = first \o others
    BY <2>1 DEF EventCalls
  <2> HIDE DEF tasks, first, others
  <2>4. /\ tasks \in Seq(Task) /\ Len(tasks) = Len(first) + Len(others)
        /\ \A i \in 1..(Len(first) + Len(others)) :
             tasks[i] = IF i <= Len(first) THEN first[i] ELSE others[i - Len(first)]
    BY <2>2, <2>3, ConcatProperties
  <2>5. Len(others) \in Nat
    BY <2>2, LenProperties
  <2>6. Len(tasks) # 0 /\ tasks[1] = first[1]
    BY <2>2, <2>4, <2>5
  <2> QED BY <2>2, <2>6, EmptySeq
<1> HIDE DEF tasks
<1>5. /\ owner' = owner /\ pid' = pid /\ pipes' = pipes /\ live' = live /\ pty' = pty
      /\ home' = home /\ child' = child /\ polled' = polled
      /\ mode' = IF c = 0 THEN [mode EXCEPT ![0] = "CMD"] ELSE mode
  BY <1>2 DEF Disc, procVars
<1>6. Orderly(cont') /\ EndsDisowned'
  BY <1>1, <1>3, PlainRun DEF Told
<1>7. ASSUME NEW d \in Ch
      PROVE  Channel(d)'
  <2>1. ~AboutToReset(d)
    BY <1>1 DEF AboutToReset, Top, Arg
  <2>2. KeepsCalls(d)
    BY <1>1, <1>3, RunPending DEF KeepsCalls, Awaited
  <2>3. KeepsChildren(d)
    BY <1>5 DEF KeepsChildren
  <2>4. CASE c # 0 \/ d # 0
    <3>1. mode'[d] = mode[d]
      BY <1>5, <2>4 DEF TypeOK
    <3> QED BY <1>5, <2>1, <2>2, <2>3, <3>1, ChannelKept DEF Told
  <2>5. CASE c = 0 /\ d = 0
    <3>1. mode'[d] = "CMD" /\ Channel(d)
      BY <1>5, <2>5 DEF TypeOK, Told
    <3>2. AboutToReset(d)'
      <4>1. /\ cont' \in Seq(Task) /\ Len(cont') = Len(tasks) + Len(cont) - 1
            /\ Len(tasks) \in Nat \ {0}
        BY <1>1, <1>3, <1>4, <2>5, RunIndex, LenProperties, EmptySeq DEF TypeOK
      <4>2. Busy'
        BY <1>1, <4>1, ContLength, EmptySeq DEF Busy
      <4>3. Arg' = ResetCh(0, "CMD")
        BY <1>1, <1>3, <1>4, <2>5, <4>2, RunNext
      <4> QED BY <2>5, <4>2, <4>3 DEF AboutToReset, Top, Arg, ResetCh
    <3>3. OwnChild(d)' /\ CallUp(d)' /\ Reachable(d)'
      BY <1>5, <3>1, <3>2 DEF Channel, OwnChild, CallUp, Reachable
    <3>4. CallDown(d)'
      BY <1>5, <2>1, <2>2, <3>1 DEF Channel, CallDown, KeepsCalls, Awaited
    <3> QED BY <3>3, <3>4 DEF Channel
  <2> QED BY <2>4, <2>5
<1> QED BY <1>6, <1>7 DEF Told

-----------------------------------------------------------------------------
(* Every step. *)

LEMMA ProceedTold == TypeOK /\ Told /\ Proceed /\ Active' => Told'
<1> SUFFICES ASSUME TypeOK, Told, Proceed, Active' PROVE Told'
  OBVIOUS
<1>0. Busy /\ Arg \in Task /\ Arg.ch \in Ch
  <2>1. Busy
    BY DEF Proceed, Top, Reset, Unpty, Finish, Wait, Reap, DialRefused, DialFails, Dial,
           StartMux, Sabm, Disc, UihFrame, Input, ReadEof, Halt
  <2> QED BY <2>1, TopTask, TaskFields DEF TypeOK
<1>1. CASE Reset \/ Unpty \/ Finish \/ Wait
  BY <1>1, ResetTold, UnptyTold, FinishTold, WaitTold
<1>2. CASE Dial \/ DialFails \/ StartMux \/ Disc
  BY <1>2, DialTold, DialFailsTold, StartMuxTold, DiscTold
<1>3. CASE Reap \/ DialRefused
  <2>1. Arg.op \in {"reap", "dial"} /\ Run(<<>>)
    BY <1>3 DEF Reap, DialRefused, Top, Arg
  <2>2. Quietly
    BY <1>0, <1>3 DEF Reap, DialRefused, Quietly, procVars, TypeOK
  <2>3. Arg.op \notin Ends \cup {"drain", "reset"}
    BY <2>1 DEF Ends
  <2> QED BY <1>0, <2>1, <2>2, <2>3, SimpleCalls, PlainCalls, QuietRun DEF Told
<1>4. CASE Sabm
  <2>1. Arg.op \notin Ends \cup {"drain", "reset"} /\ Quietly
    BY <1>4 DEF Sabm, Top, Arg, Ends, Quietly, procVars
  <2>2. Run(<<>>) \/ Run(EventCalls(Arg.ch, TRUE)) \/ Run(EventCalls(Arg.ch, FALSE))
    BY <1>4 DEF Sabm
  <2> QED BY <1>0, <2>1, <2>2, SimpleCalls, PlainCalls, EventCallsPlain, QuietRun DEF Told
<1>5. CASE UihFrame
  <2>1. Arg.op = "uih" /\ Run(UihCalls(Arg.ch, Arg.data)) /\ Quietly
    BY <1>5 DEF UihFrame, UihCalls, Top, Arg, Quietly, procVars
  <2>2. Arg.op \notin Ends \cup {"drain", "reset"} /\ Arg.data \in Payloads
    BY <1>0, <2>1, TaskFields DEF Ends
  <2> QED BY <1>0, <2>1, <2>2, UihCallsPlain, QuietRun DEF Told
<1>6. CASE Input
  <2>1. Arg.op = "input" /\ Run(InputCalls(Arg.ch, Arg.data)) /\ Quietly
    BY <1>6 DEF Input, Top, Arg, Quietly, procVars
  <2>2. Arg.op \notin Ends \cup {"drain", "reset"} /\ Arg.data \in Payloads
    BY <1>0, <2>1, TaskFields DEF Ends
  <2> QED BY <1>0, <2>1, <2>2, InputCallsType, InputCallsPlain, QuietRun DEF Told
<1>7. CASE ReadEof
  <2>1. Arg.op \notin Ends \cup {"drain", "reset"} /\ Quietly
    BY <1>7 DEF ReadEof, Top, Arg, Ends, Quietly, procVars
  <2>2. Run(<<Call("wait", Arg.ch)>>)
    BY <1>7 DEF ReadEof
  <2> QED BY <1>0, <2>1, <2>2, SimpleCalls, PlainCalls, QuietRun DEF Told
<1>8. CASE Halt
  BY <1>8 DEF Halt, Active
<1> QED BY <1>1, <1>2, <1>3, <1>4, <1>5, <1>6, <1>7, <1>8 DEF Proceed

(* The engine runs until it is stopped. *)
LEMMA PhaseStep ==
  [Next]_vars => \/ phase' = phase
                 \/ Quiet /\ phase' = "stopping"
                 \/ phase' \in {"stopped", "crashed"}
<1> SUFFICES ASSUME [Next]_vars
             PROVE  \/ phase' = phase
                    \/ Quiet /\ phase' = "stopping"
                    \/ phase' \in {"stopped", "crashed"}
  OBVIOUS
<1>1. CASE Proceed
  BY <1>1 DEF Proceed, Reset, Unpty, Finish, Wait, Reap, DialRefused, DialFails, Dial,
     StartMux, Sabm, Disc, UihFrame, Input, ReadEof, Halt
<1>2. CASE FlushEnd \/ DrainEnd \/ DrainStray \/ ReadOutput \/ Peer \/ Shutdown
  BY <1>2 DEF FlushEnd, DrainEnd, DrainStray, ReadOutput, Peer, PeerText, PeerFrames, Shutdown
<1>3. CASE Terminated \/ UNCHANGED vars
  BY <1>3 DEF Terminated, vars
<1>4. ASSUME NEW k \in Child, Event(k) \/ ChildExit(k)
      PROVE  phase' = phase \/ phase' = "crashed"
  BY <1>4 DEF Event, StdioEof, StdioStale, PtyEof, PtyStale, ChildExit
<1> QED BY <1>1, <1>2, <1>3, <1>4 DEF Next, Step

LEMMA ToldStep == TypeOK /\ Settling /\ [Next]_vars => Settling'
<1> SUFFICES ASSUME TypeOK, Settling, [Next]_vars, Active' PROVE Told'
  BY DEF Settling, Told
<1>0. Told
  <2>1. Active
    BY PhaseStep DEF Active, Quiet
  <2> QED BY <2>1 DEF Settling, Told
<1>1. CASE Proceed
  BY <1>0, <1>1, ProceedTold
<1>2. CASE DrainEnd
  BY <1>0, <1>2, DrainTold
<1>3. CASE FlushEnd \/ ReadOutput
  <2>1. Busy /\ Arg.op \notin Ends \cup {"drain", "reset"} /\ Run(<<>>) /\ Quietly
    BY <1>3 DEF FlushEnd, ReadOutput, Top, Arg, Ends, Quietly, procVars
  <2> QED BY <1>0, <2>1, SimpleCalls, PlainCalls, QuietRun DEF Told
(* An event is dispatched where no hang-up's end is next. *)
<1>4. Polling => (Busy => Arg.op \notin Ends \cup {"reset"})
  BY DEF Polling, Quiet, Top, Arg, Ends
<1>5. CASE PeerText
  <2>1. PICK p \in Payloads : Enter(InputCalls(0, p))
    BY <1>5 DEF PeerText
  <2>2. Quietly /\ Polling /\ 0 \in Ch
    BY <1>5, ChannelAssumption DEF PeerText, PeerMaySend, Quietly, procVars, Ch
  <2> QED BY <1>0, <1>4, <2>1, <2>2, InputCallsType, InputCallsPlain, QuietEnter DEF Told
<1>6. CASE PeerFrames
  <2>1. PICK n \in Burst : \E fs \in [1..n -> Frame] : Enter(fs)
    BY <1>6 DEF PeerFrames
  <2>2. PICK fs \in [1..n -> Frame] : Enter(fs)
    BY <2>1
  <2>3. fs \in Seq(Task) /\ Plain(fs)
    BY BurstNat, FramesType, FramesPlain
  <2>4. Quietly /\ Polling
    BY <1>6 DEF PeerFrames, PeerMaySend, Quietly, procVars
  <2> QED BY <1>0, <1>4, <2>2, <2>3, <2>4, QuietEnter DEF Told
<1>7. CASE Shutdown
  <2>1. Enter(StopCalls) /\ Quietly /\ ~Busy
    BY <1>7 DEF Shutdown, Quiet, Quietly, procVars
  <2> QED BY <1>0, <2>1, StopCallsPlain, QuietEnter DEF Told
<1>8. CASE Terminated \/ UNCHANGED vars
  BY <1>0, <1>8 DEF Terminated, vars, procVars, Told, Orderly, Chained, NoDataTarget,
     EndsDisowned, Channel, OwnChild, CallUp, Reachable, CallDown, AboutToReset, Pending,
     Busy, Top, Arg
<1>9. ASSUME NEW k \in Child, Event(k) \/ ChildExit(k)
      PROVE  Told'
  <2>1. CASE StdioEof(k) \/ StdioStale(k) \/ PtyEof(k)
    <3>1. home[k] \in Ch
      BY DEF TypeOK
    <3>2. /\ Quietly /\ Polling
          /\ Enter(<<Call("wait", home[k])>>) \/ Enter(<<Call("read", home[k])>>)
      BY <2>1 DEF StdioEof, StdioStale, PtyEof, Quietly, procVars
    <3> QED BY <1>0, <1>4, <3>1, <3>2, SimpleCalls, PlainCalls, QuietEnter DEF Told
  <2>2. CASE PtyStale(k)
    BY <2>2 DEF PtyStale, Active
  <2>3. CASE ChildExit(k)
    <3>1. /\ cont' = cont /\ owner' = owner /\ pid' = pid /\ pipes' = pipes /\ live' = live
          /\ pty' = pty /\ mode' = mode /\ home' = home /\ polled' = polled
          /\ \A j \in Child : /\ child[j] # "none" => child'[j] # "none"
                              /\ child[j] = "failed" => child'[j] = "failed"
      BY <2>3 DEF ChildExit, TypeOK
    <3>2. Orderly(cont') /\ EndsDisowned'
      BY <1>0, <3>1 DEF Told, EndsDisowned, Busy, Arg
    <3>3. ASSUME NEW c \in Ch PROVE Channel(c)'
      <4>1. Channel(c) /\ Handles(c) \subseteq Child
        BY <1>0, HandlesAreChildren DEF Told
      <4>2. OwnChild(c)'
        BY <3>1, <4>1 DEF Channel, OwnChild, Handles
      <4>3. CallUp(c)' /\ Reachable(c)'
        BY <3>1, <4>1 DEF Channel, CallUp, Reachable, AboutToReset, Pending, Busy, Top, Arg
      <4>4. owner[c] /\ child[pty[c]] = "failed" => child'[pty[c]] = "failed"
        BY <3>1, <4>1 DEF Channel, CallUp, Handles
      <4>5. CallDown(c)'
        BY <3>1, <4>1, <4>4 DEF Channel, CallDown, AboutToReset, Pending, Busy, Top, Arg
      <4> QED BY <4>2, <4>3, <4>5 DEF Channel
    <3> QED BY <3>2, <3>3 DEF Told
  <2> QED BY <1>9, <2>1, <2>2, <2>3 DEF Event
<1>10. ~DrainStray
  BY DEF DrainStray, Active
<1> QED BY <1>1, <1>2, <1>3, <1>5, <1>6, <1>7, <1>8, <1>9, <1>10 DEF Next, Step, Peer

LEMMA SettlingImplies == TypeOK /\ Settling => SessionConsistent
<1> SUFFICES ASSUME TypeOK, Settling, Quiet, NEW c \in Ch
             PROVE  /\ owner[c] <=> pty[c] # 0
                    /\ pid[c] # pty[c] => pid[c] = 0 /\ child[pty[c]] = "failed"
                    /\ mode[c] = "DATA" => owner[c]
                    /\ owner[c] => /\ pipes[c] = pty[c] /\ live[c]
                                   /\ pty[c] \in WithRoom =>
                                        {Pty(pty[c]), Stdio(pty[c])} \subseteq polled
                                   /\ mode[c] = "DATA" \/ (c = 0 /\ mode[c] = "CMUX")
  BY DEF SessionConsistent
<1>1. Channel(c) /\ ~AboutToReset(c)
  BY DEF Settling, Active, Quiet, AboutToReset, Top
<1>2. \A op : ~Pending(op, c)
  BY ContLength DEF Quiet, Pending
<1>3. owner[c] \in BOOLEAN
  BY DEF TypeOK
<1>4. CASE owner[c]
  BY <1>1, <1>2, <1>4 DEF Channel, CallUp, Reachable, CallDown
<1>5. CASE ~owner[c]
  BY <1>1, <1>2, <1>5 DEF Channel, CallUp, CallDown
<1> QED BY <1>3, <1>4, <1>5

(* Between handlers a channel is owned exactly while it has a pty, its      *)
(* process and its pipes are those of that pty and watched where there was  *)
(* room, and data mode means such a call: reset_channel() and               *)
(* io_spawn_wait() undo all that at_engine_start_ppp_server() did, whatever *)
(* was dialled or closed meanwhile.  Only a call whose posix_spawnp()       *)
(* failed has no process.                                                   *)
THEOREM SessionsConsistent == SafeSpec => []SessionConsistent
<1>1. Init => TypeOK /\ Settling
  BY TypeInit, ToldInit
<1>2. TypeOK /\ Settling /\ [Next]_vars => TypeOK' /\ Settling'
  BY TypeStep, ToldStep
<1>3. TypeOK /\ Settling => SessionConsistent
  BY SettlingImplies
<1> QED BY <1>1, <1>2, <1>3, PTL DEF SafeSpec

-----------------------------------------------------------------------------
(* What the engine guarantees to a peer that waits for the answer to what  *)
(* it has sent: hang-ups undo exactly what the dials did, closed channels  *)
(* stay closed and the stop leaves nothing behind.                         *)

-----------------------------------------------------------------------------
(* The stack has two layers: below, what is left of the peer's last read;   *)
(* above, the calls of the handler that is working on its first command.    *)
(* So nothing is dialled or closed by the peer within a hang-up.  Nothing   *)
(* is above a read(), which blocks the engine.                              *)
Outer == {"dial", "cmux", "sabm", "disc", "uih", "input"}
Layered(s) == \A i, j \in 1..Len(s) : i < j /\ s[i].op \in Outer => s[j].op \in Outer
Inner(s) == \A i \in 1..Len(s) : s[i].op \notin Outer \cup {"halt", "read"}
HaltsLast == \A i \in 1..Len(cont) : cont[i].op = "halt" => i = Len(cont) /\ phase # "run"
NoneOuter == phase = "stopping" => \A i \in 1..Len(cont) : cont[i].op \notin Outer
ReadsFirst == \A i \in 2..Len(cont) : cont[i].op # "read"
Layers == patient /\ Active => Layered(cont) /\ HaltsLast /\ NoneOuter /\ ReadsFirst

-----------------------------------------------------------------------------
(* Descriptors: which of them are open, and which call on the stack closes  *)
(* those of a child that no channel has under its pid any more.             *)
(* The pipes of a spawn that failed stay open, and so may their entries in  *)
(* the poll table stay.                                                     *)
PtysOpen == \A k \in Child : Pty(k) \in open <=> pty[home[k]] = k
PipesHeld == \A k \in Child : Stdio(k) \in open =>
  \/ child[k] = "failed"
  \/ /\ pipes[home[k]] = k /\ live[home[k]]
     /\ pid[home[k]] = k \/ Pending("drain", home[k])
FailedOpen == \A k \in Child : child[k] = "failed" => Stdio(k) \in open
PipesOpen == \A c \in Ch : pid[c] # 0 => Stdio(pid[c]) \in open

(* A drain is for a channel without a child, whose pipes are those of the   *)
(* child waited for just before it; each channel has one at most.           *)
DrainAt(i, c) == i \in 1..Len(cont) /\ cont[i].op = "drain" /\ cont[i].ch = c
Reaped(i, k) ==
  child[k] = "reaped" \/ \E j \in 1..Len(cont) : j < i /\ cont[j].op = "reap" /\ cont[j].pid = k
Drains(i, c) == /\ pid[c] = 0 /\ pipes[c] # 0
                /\ Stdio(pipes[c]) \in open /\ Reaped(i, pipes[c])
EachDrains == \A i \in Nat, c \in Ch : DrainAt(i, c) =>
  Drains(i, c) /\ \A j \in Nat : DrainAt(j, c) => j = i
Tables == /\ polled \subseteq open /\ PtysOpen /\ PipesHeld /\ FailedOpen
          /\ PipesOpen /\ EachDrains
Descriptors == patient /\ Active => Tables
Reading == patient /\ Active => (Top("read") => FailedOn(Arg.ch))

-----------------------------------------------------------------------------
(* A channel that a SABM has closed: every hang-up of it on the stack ends  *)
(* in CLOSED, and one is there unless it already is.                        *)
ClosesOnly(s, c) == \A i \in 1..Len(s) :
  s[i].op \in {"reset", "finish"} /\ s[i].ch = c => s[i].to = "CLOSED"
Sticks(c) ==
  /\ ClosesOnly(cont, c)
  /\ mode[c] = "CLOSED" \/ Pending("reset", c) \/ Pending("finish", c)
  /\ owner[c] => AboutToReset(c)
Closing == patient /\ Active => \A c \in Ch \ {0} : chState[c] = "CLOSE" => Sticks(c)

(* The stop: a channel is owned only as long as its reset is to come, and   *)
(* nothing leads the engine astray before.                                  *)
Leftover == {Stdio(k) : k \in Failed}
Stopping ==
  patient => /\ phase = "stopping" => \A c \in Ch : owner[c] => Pending("reset", c)
             /\ phase = "stopped" => cont = <<>> /\ Unreaped = {} /\ polled \subseteq Leftover
             /\ phase # "crashed"

-----------------------------------------------------------------------------
(* Where the calls on the stack come from. *)

LEMMA RunFrom ==
  ASSUME TypeOK, Busy, NEW tasks \in Seq(Task), Run(tasks)
  PROVE  /\ Len(tasks) \in Nat /\ Len(cont) \in Nat \ {0}
         /\ cont' \in Seq(Task) /\ Len(cont') = Len(tasks) + Len(cont) - 1
         /\ \A i \in 1..Len(cont') :
              \/ i \in 1..Len(tasks) /\ cont'[i] = tasks[i]
              \/ /\ i > Len(tasks) /\ i - Len(tasks) + 1 \in 2..Len(cont)
                 /\ cont'[i] = cont[i - Len(tasks) + 1]
         /\ \A j \in 2..Len(cont) :
              j + Len(tasks) - 1 \in 1..Len(cont') /\ cont'[j + Len(tasks) - 1] = cont[j]
         /\ \A j \in 1..Len(tasks) : j \in 1..Len(cont') /\ cont'[j] = tasks[j]
<1>1. Len(tasks) \in Nat /\ Len(cont) \in Nat \ {0}
  BY ContLength, LenProperties
<1>2. /\ cont' \in Seq(Task) /\ Len(cont') = Len(tasks) + Len(cont) - 1
      /\ \A i \in 1..Len(tasks) : cont'[i] = tasks[i]
      /\ \A i \in (Len(tasks) + 1)..Len(cont') : cont'[i] = cont[i - Len(tasks) + 1]
  BY RunIndex DEF TypeOK
<1>3. ASSUME NEW i \in 1..Len(cont')
      PROVE  \/ i \in 1..Len(tasks) /\ cont'[i] = tasks[i]
             \/ /\ i > Len(tasks) /\ i - Len(tasks) + 1 \in 2..Len(cont)
                /\ cont'[i] = cont[i - Len(tasks) + 1]
  <2>1. i \in 1..Len(tasks) \/ (i > Len(tasks) /\ i \in (Len(tasks) + 1)..Len(cont'))
    BY <1>1, <1>2
  <2>2. i > Len(tasks) => i - Len(tasks) + 1 \in 2..Len(cont)
    BY <1>1, <1>2
  <2> QED BY <1>2, <2>1, <2>2
<1>4. ASSUME NEW j \in 2..Len(cont)
      PROVE  j + Len(tasks) - 1 \in 1..Len(cont') /\ cont'[j + Len(tasks) - 1] = cont[j]
  <2>1. /\ j + Len(tasks) - 1 \in 1..Len(cont')
        /\ j + Len(tasks) - 1 \in (Len(tasks) + 1)..Len(cont')
        /\ (j + Len(tasks) - 1) - Len(tasks) + 1 = j
    BY <1>1, <1>2
  <2>2. cont'[j + Len(tasks) - 1] = cont[(j + Len(tasks) - 1) - Len(tasks) + 1]
    BY <1>2, <2>1
  <2> QED BY <2>1, <2>2
<1>5. \A j \in 1..Len(tasks) : j \in 1..Len(cont')
  BY <1>1, <1>2
<1> QED BY <1>1, <1>2, <1>3, <1>4, <1>5

LEMMA EnterFrom ==
  ASSUME TypeOK, NEW tasks \in Seq(Task), Enter(tasks)
  PROVE  /\ Len(tasks) \in Nat /\ Len(cont) \in Nat
         /\ cont' \in Seq(Task) /\ Len(cont') = Len(tasks) + Len(cont)
         /\ \A i \in 1..Len(cont') :
              \/ i \in 1..Len(tasks) /\ cont'[i] = tasks[i]
              \/ /\ i > Len(tasks) /\ i - Len(tasks) \in 1..Len(cont)
                 /\ cont'[i] = cont[i - Len(tasks)]
         /\ \A j \in 1..Len(cont) :
              j + Len(tasks) \in 1..Len(cont') /\ cont'[j + Len(tasks)] = cont[j]
<1>1. Len(tasks) \in Nat /\ Len(cont) \in Nat
  BY ContLength, LenProperties
<1>2. /\ cont' \in Seq(Task) /\ Len(cont') = Len(tasks) + Len(cont)
      /\ \A i \in 1..Len(tasks) : cont'[i] = tasks[i]
      /\ \A i \in (Len(tasks) + 1)..Len(cont') : cont'[i] = cont[i - Len(tasks)]
  BY EnterIndex DEF TypeOK
<1>3. ASSUME NEW i \in 1..Len(cont')
      PROVE  \/ i \in 1..Len(tasks) /\ cont'[i] = tasks[i]
             \/ /\ i > Len(tasks) /\ i - Len(tasks) \in 1..Len(cont)
                /\ cont'[i] = cont[i - Len(tasks)]
  <2>1. i \in 1..Len(tasks) \/ (i > Len(tasks) /\ i \in (Len(tasks) + 1)..Len(cont'))
    BY <1>1, <1>2
  <2>2. i > Len(tasks) => i - Len(tasks) \in 1..Len(cont)
    BY <1>1, <1>2
  <2> QED BY <1>2, <2>1, <2>2
<1>4. ASSUME NEW j \in 1..Len(cont)
      PROVE  j + Len(tasks) \in 1..Len(cont') /\ cont'[j + Len(tasks)] = cont[j]
  <2>1. /\ j + Len(tasks) \in 1..Len(cont') /\ j + Len(tasks) \in (Len(tasks) + 1)..Len(cont')
        /\ (j + Len(tasks)) - Len(tasks) = j
    BY <1>1, <1>2
  <2>2. cont'[j + Len(tasks)] = cont[(j + Len(tasks)) - Len(tasks)]
    BY <1>2, <2>1
  <2> QED BY <2>1, <2>2
<1> QED BY <1>1, <1>2, <1>3, <1>4

LEMMA PatientStep == [Next]_vars => patient' = patient
<1> SUFFICES ASSUME [Next]_vars PROVE patient' = patient
  OBVIOUS
<1> USE DEF muxVars
<1>1. CASE Proceed
  BY <1>1 DEF Proceed, Reset, Unpty, Finish, Wait, Reap, DialRefused, DialFails, Dial,
     StartMux, Sabm, Disc, UihFrame, Input, ReadEof, Halt
<1>2. CASE FlushEnd \/ DrainEnd \/ DrainStray \/ ReadOutput \/ Peer \/ Shutdown
  BY <1>2 DEF FlushEnd, DrainEnd, DrainStray, ReadOutput, Peer, PeerText, PeerFrames, Shutdown
<1>3. CASE Terminated \/ UNCHANGED vars
  BY <1>3 DEF Terminated, vars
<1>4. ASSUME NEW k \in Child, Event(k) \/ ChildExit(k)
      PROVE  patient' = patient
  BY <1>4 DEF Event, StdioEof, StdioStale, PtyEof, PtyStale, ChildExit
<1> QED BY <1>1, <1>2, <1>3, <1>4 DEF Next, Step

-----------------------------------------------------------------------------
(* The two layers. *)

InLayers == Layered(cont) /\ HaltsLast /\ NoneOuter /\ ReadsFirst
NoRead == \A i \in 1..Len(cont) : cont[i].op # "read"
Tame(s) == \A i \in 1..Len(s) : s[i].op \notin {"halt", "read"}

(* While the peer's own command is next, nothing else is on the stack. *)
LEMMA OuterTop ==
  ASSUME TypeOK, InLayers, Busy, Arg.op \in Outer
  PROVE  /\ \A i \in 1..Len(cont) : cont[i].op \in Outer
         /\ \A op, c : op \notin Outer => ~Pending(op, c)
<1>1. Arg = cont[1] /\ Len(cont) \in Nat /\ 1 \in 1..Len(cont)
  BY TopTask, ContLength DEF TypeOK
<1>2. \A i \in 1..Len(cont) : cont[i].op \in Outer
  <2>1. \A i \in 1..Len(cont) : i # 1 => 1 < i
    BY <1>1
  <2> QED BY <1>1, <2>1 DEF InLayers, Layered
<1> QED BY <1>2 DEF Pending

LEMMA RunLayers ==
  ASSUME TypeOK, InLayers, Busy, NEW tasks \in Seq(Task), Run(tasks),
         Layered(tasks), Tame(tasks), phase' = phase,
         Arg.op \notin Outer => \A i \in 1..Len(tasks) : tasks[i].op \notin Outer
  PROVE  InLayers' /\ NoRead'
<1> DEFINE n == Len(tasks)
<1>1. /\ n \in Nat /\ Len(cont) \in Nat \ {0} /\ Len(cont') = n + Len(cont) - 1
      /\ \A i \in 1..Len(cont') :
           \/ i \in 1..n /\ cont'[i] = tasks[i]
           \/ i > n /\ i - n + 1 \in 2..Len(cont) /\ cont'[i] = cont[i - n + 1]
  BY RunFrom
<1>2. Arg.op \in Outer => \A i \in 1..Len(cont) : cont[i].op \in Outer
  BY OuterTop
<1> HIDE DEF n
<1>3. Layered(cont')
  <2> SUFFICES ASSUME NEW i \in 1..Len(cont'), NEW j \in 1..Len(cont'), i < j,
                      cont'[i].op \in Outer
               PROVE  cont'[j].op \in Outer
    BY DEF Layered
  <2>1. CASE i \in 1..n /\ cont'[i] = tasks[i]
    <3>1. Arg.op \in Outer
      BY <2>1 DEF n
    <3>2. CASE j \in 1..n /\ cont'[j] = tasks[j]
      BY <2>1, <3>2 DEF Layered, n
    <3>3. CASE j > n /\ j - n + 1 \in 2..Len(cont) /\ cont'[j] = cont[j - n + 1]
      <4>1. j - n + 1 \in 1..Len(cont)
        BY <1>1, <3>3
      <4> QED BY <1>2, <3>1, <3>3, <4>1
    <3> QED BY <1>1, <3>2, <3>3
  <2>2. CASE i > n /\ i - n + 1 \in 2..Len(cont) /\ cont'[i] = cont[i - n + 1]
    <3>1. j > n /\ j \notin 1..n
      BY <1>1, <2>2
    <3>2. j - n + 1 \in 2..Len(cont) /\ cont'[j] = cont[j - n + 1]
      BY <1>1, <3>1
    <3>3. i - n + 1 \in 1..Len(cont) /\ j - n + 1 \in 1..Len(cont) /\ i - n + 1 < j - n + 1
      BY <1>1, <2>2, <3>2
    <3> QED BY <2>2, <3>2, <3>3 DEF InLayers, Layered
  <2> QED BY <1>1, <2>1, <2>2
<1>4. HaltsLast'
  <2> SUFFICES ASSUME NEW i \in 1..Len(cont'), cont'[i].op = "halt"
               PROVE  i = Len(cont') /\ phase # "run"
    BY DEF HaltsLast
  <2>1. i > n /\ i - n + 1 \in 2..Len(cont) /\ cont'[i] = cont[i - n + 1]
    BY <1>1 DEF Tame, n
  <2>2. i - n + 1 \in 1..Len(cont)
    BY <1>1, <2>1
  <2>3. i - n + 1 = Len(cont) /\ phase # "run"
    BY <2>1, <2>2 DEF InLayers, HaltsLast
  <2> QED BY <1>1, <2>3
<1>5. NoneOuter'
  <2> SUFFICES ASSUME phase = "stopping", NEW i \in 1..Len(cont')
               PROVE  cont'[i].op \notin Outer
    BY DEF NoneOuter
  <2>1. Arg.op \notin Outer
    <3>1. 1 \in 1..Len(cont) /\ Arg = cont[1]
      BY TopTask DEF TypeOK
    <3> QED BY <3>1 DEF InLayers, NoneOuter
  <2>2. CASE i \in 1..n /\ cont'[i] = tasks[i]
    BY <2>1, <2>2 DEF n
  <2>3. CASE i > n /\ i - n + 1 \in 2..Len(cont) /\ cont'[i] = cont[i - n + 1]
    <3>1. i - n + 1 \in 1..Len(cont)
      BY <1>1, <2>3
    <3> QED BY <2>3, <3>1 DEF InLayers, NoneOuter
  <2> QED BY <1>1, <2>2, <2>3
<1>6. NoRead'
  <2> SUFFICES ASSUME NEW i \in 1..Len(cont') PROVE cont'[i].op # "read"
    BY DEF NoRead
  <2>1. CASE i \in 1..n /\ cont'[i] = tasks[i]
    BY <2>1 DEF Tame, n
  <2>2. CASE i > n /\ i - n + 1 \in 2..Len(cont) /\ cont'[i] = cont[i - n + 1]
    BY <2>2 DEF InLayers, ReadsFirst
  <2> QED BY <1>1, <2>1, <2>2
<1>7. ReadsFirst'
  BY <1>1, <1>6 DEF NoRead, ReadsFirst
<1> QED BY <1>3, <1>4, <1>5, <1>6, <1>7 DEF InLayers

(* The calls of an event that a nested loop dispatches. *)
Entered(s) == \A i \in 1..Len(s) :
  s[i].op \notin Outer \cup {"halt"} /\ (i # 1 => s[i].op # "read")

LEMMA EnterLayers ==
  ASSUME TypeOK, InLayers, NEW tasks \in Seq(Task), Enter(tasks), Entered(tasks), phase' = phase,
         Busy => Arg.op # "read"
  PROVE  InLayers'
<1> DEFINE n == Len(tasks)
<1>1. /\ n \in Nat /\ Len(cont) \in Nat /\ Len(cont') = n + Len(cont)
      /\ \A i \in 1..Len(cont') :
           \/ i \in 1..n /\ cont'[i] = tasks[i]
           \/ i > n /\ i - n \in 1..Len(cont) /\ cont'[i] = cont[i - n]
  BY EnterFrom
<1>2. ASSUME NEW i \in 1..Len(cont'), cont'[i].op \in Outer \cup {"halt"}
      PROVE  i > n /\ i - n \in 1..Len(cont) /\ cont'[i] = cont[i - n]
  BY <1>1, <1>2 DEF Entered, n
<1>2a. ReadsFirst'
  <2> SUFFICES ASSUME NEW i \in 2..Len(cont') PROVE cont'[i].op # "read"
    BY DEF ReadsFirst
  <2>1. CASE i \in 1..n /\ cont'[i] = tasks[i]
    BY <2>1 DEF Entered, n
  <2>2. CASE i > n /\ i - n \in 1..Len(cont) /\ cont'[i] = cont[i - n]
    <3>1. CASE i - n = 1
      <4>1. Busy /\ Arg = cont[1]
        BY <2>2, TopTask, EmptySeq DEF TypeOK, Busy
      <4> QED BY <2>2, <3>1, <4>1
    <3>2. CASE i - n # 1
      <4>1. i - n \in 2..Len(cont)
        BY <1>1, <2>2, <3>2
      <4> QED BY <2>2, <4>1 DEF InLayers, ReadsFirst
    <3> QED BY <3>1, <3>2
  <2>3. i \in 1..Len(cont')
    BY <1>1
  <2> QED BY <1>1, <2>1, <2>2, <2>3
<1> HIDE DEF n
<1>3. Layered(cont')
  <2> SUFFICES ASSUME NEW i \in 1..Len(cont'), NEW j \in 1..Len(cont'), i < j,
                      cont'[i].op \in Outer
               PROVE  cont'[j].op \in Outer
    BY DEF Layered
  <2>1. i > n /\ i - n \in 1..Len(cont) /\ cont'[i] = cont[i - n]
    BY <1>2
  <2>2. j > n /\ j \notin 1..n
    BY <1>1, <2>1
  <2>3. j - n \in 1..Len(cont) /\ cont'[j] = cont[j - n] /\ i - n < j - n
    BY <1>1, <2>2
  <2> QED BY <2>1, <2>3 DEF InLayers, Layered
<1>4. HaltsLast'
  <2> SUFFICES ASSUME NEW i \in 1..Len(cont'), cont'[i].op = "halt"
               PROVE  i = Len(cont') /\ phase # "run"
    BY DEF HaltsLast
  <2>1. i > n /\ i - n \in 1..Len(cont) /\ cont'[i] = cont[i - n]
    BY <1>2
  <2>2. i - n = Len(cont) /\ phase # "run"
    BY <2>1 DEF InLayers, HaltsLast
  <2> QED BY <1>1, <2>2
<1>5. NoneOuter'
  BY <1>2 DEF InLayers, NoneOuter
<1> QED BY <1>2a, <1>3, <1>4, <1>5 DEF InLayers

(* What an idle engine is given to do. *)
LEMMA StartLayers ==
  ASSUME TypeOK, ~Busy, NEW tasks \in Seq(Task), Enter(tasks), Layered(tasks), Tame(tasks),
         phase' = "run"
  PROVE  InLayers' /\ NoRead'
<1>1. cont' = tasks /\ Len(tasks) \in Nat
  BY ConcatEmptySeq, LenProperties DEF Enter, Busy
<1>2. NoRead'
  BY <1>1 DEF NoRead, Tame
<1>3. ReadsFirst'
  BY <1>1, <1>2 DEF NoRead, ReadsFirst
<1> QED BY <1>1, <1>2, <1>3 DEF InLayers, HaltsLast, NoneOuter, Tame

(* The calls of each handler, layer by layer; none of them waits itself. *)
AllOuter(s) == \A i \in 1..Len(s) : s[i].op \in Outer
Waits == {"drain", "reap"}
Waitless(s) == \A i \in 1..Len(s) : s[i].op \notin Waits
Resets(s) == \A i \in 1..Len(s) : s[i].op = "reset"

LEMMA InnerLayered ==
  ASSUME NEW s, Inner(s)
  PROVE  Layered(s) /\ Tame(s) /\ \A i \in 1..Len(s) : s[i].op \notin Outer
BY DEF Inner, Layered, Tame

LEMMA OuterLayered ==
  ASSUME NEW s, AllOuter(s)
  PROVE  Layered(s) /\ Tame(s) /\ Waitless(s)
BY DEF AllOuter, Layered, Tame, Waitless, Waits, Outer

LEMMA ResetsInner ==
  ASSUME NEW s, Resets(s)
  PROVE  Inner(s) /\ Waitless(s)
BY DEF Resets, Inner, Waitless, Waits, Outer

LEMMA ConcatAt ==
  ASSUME NEW s \in Seq(Task), NEW t \in Seq(Task)
  PROVE  /\ s \o t \in Seq(Task) /\ Len(s) \in Nat /\ Len(t) \in Nat
         /\ Len(s \o t) = Len(s) + Len(t)
         /\ \A i \in 1..Len(s \o t) :
              \/ i \in 1..Len(s) /\ (s \o t)[i] = s[i]
              \/ i > Len(s) /\ i - Len(s) \in 1..Len(t) /\ (s \o t)[i] = t[i - Len(s)]
<1> DEFINE st == s \o t
<1>1. /\ st \in Seq(Task)
      /\ Len(st) = Len(s) + Len(t)
      /\ \A i \in 1..(Len(s) + Len(t)) : st[i] = IF i <= Len(s) THEN s[i] ELSE t[i - Len(s)]
  BY ConcatProperties
<1>2. Len(s) \in Nat /\ Len(t) \in Nat
  BY LenProperties
<1> HIDE DEF st
<1>3. ASSUME NEW i \in 1..Len(st)
      PROVE  \/ i \in 1..Len(s) /\ st[i] = s[i]
             \/ i > Len(s) /\ i - Len(s) \in 1..Len(t) /\ st[i] = t[i - Len(s)]
  <2>1. CASE i <= Len(s)
    BY <1>1, <1>2, <2>1
  <2>2. CASE ~(i <= Len(s))
    BY <1>1, <1>2, <2>2
  <2> QED BY <2>1, <2>2
<1> QED BY <1>1, <1>2, <1>3 DEF st

LEMMA ConcatResets ==
  ASSUME NEW s \in Seq(Task), NEW t \in Seq(Task), Resets(s), Resets(t)
  PROVE  Resets(s \o t)
BY ConcatAt DEF Resets

LEMMA ConcatLayered ==
  ASSUME NEW s \in Seq(Task), NEW t \in Seq(Task), Resets(s), AllOuter(t)
  PROVE  Layered(s \o t) /\ Tame(s \o t) /\ Waitless(s \o t)
<1> DEFINE st == s \o t
<1>1. /\ Len(s) \in Nat /\ Len(t) \in Nat
      /\ \A i \in 1..Len(st) :
              \/ i \in 1..Len(s) /\ st[i] = s[i]
              \/ i > Len(s) /\ i - Len(s) \in 1..Len(t) /\ st[i] = t[i - Len(s)]
  BY ConcatAt
<1> HIDE DEF st
<1>2. ASSUME NEW i \in 1..Len(st)
      PROVE  \/ i \in 1..Len(s) /\ st[i].op = "reset"
             \/ i > Len(s) /\ st[i].op \in Outer
  BY <1>1 DEF Resets, AllOuter
<1>3. Layered(st)
  <2> SUFFICES ASSUME NEW i \in 1..Len(st), NEW j \in 1..Len(st), i < j, st[i].op \in Outer
               PROVE  st[j].op \in Outer
    BY DEF Layered
  <2>1. i > Len(s)
    BY <1>2 DEF Outer
  <2>2. j \notin 1..Len(s)
    BY <1>1, <2>1
  <2> QED BY <1>2, <2>2
<1>4. Tame(st) /\ Waitless(st)
  BY <1>2 DEF Tame, Waitless, Waits, Outer
<1> QED BY <1>3, <1>4 DEF st

LEMMA OthersResets == Resets([i \in 1..MaxChannel |-> ResetCh(i, "CLOSED")])
<1> DEFINE others == [i \in 1..MaxChannel |-> ResetCh(i, "CLOSED")]
<1>1. others \in Seq(Task) /\ Len(others) = MaxChannel
  BY ClosesOthers, ChannelAssumption
<1> QED BY <1>1 DEF Resets, ResetCh

LEMMA EventResets ==
  ASSUME NEW c \in Ch, NEW opened \in BOOLEAN
  PROVE  Resets(EventCalls(c, opened))
<1>1. \A d \in Ch, m \in Modes : Resets(<<ResetCh(d, m)>>)
  BY DEF Resets, ResetCh
<1>2. {"CMD", "CMUX", "CLOSED"} \subseteq Modes /\ 0 \in Ch
  BY ChannelAssumption DEF Modes, Ch
<1>3. CASE c = 0
  BY <1>1, <1>2, <1>3, SimpleCalls, ClosesOthers, OthersResets, ConcatResets DEF EventCalls
<1>4. CASE c # 0
  BY <1>1, <1>2, <1>4 DEF EventCalls
<1> QED BY <1>3, <1>4

LEMMA UihLayered ==
  ASSUME NEW c \in Ch, NEW p \in Payloads
  PROVE  Layered(UihCalls(c, p)) /\ Tame(UihCalls(c, p)) /\ Waitless(UihCalls(c, p))
<1> DEFINE s == IF chState[c] # "OPEN" /\ c # 0 THEN EventCalls(c, TRUE) ELSE <<>>
           t == IF c # 0 THEN <<Deliver(c, p)>> ELSE <<>>
<1>1. s \in Seq(Task) /\ Resets(s)
  <2>1. EventCalls(c, TRUE) \in Seq(Task) /\ Resets(EventCalls(c, TRUE))
    BY EventCallsType, EventResets
  <2>2. <<>> \in Seq(Task) /\ Resets(<<>>)
    BY SimpleCalls DEF Resets
  <2> QED BY <2>1, <2>2
<1>2. t \in Seq(Task) /\ AllOuter(t)
  BY SimpleCalls DEF AllOuter, Deliver, Outer
<1> HIDE DEF s, t
<1>3. Layered(s \o t) /\ Tame(s \o t) /\ Waitless(s \o t)
  BY <1>1, <1>2, ConcatLayered
<1> QED BY <1>3 DEF UihCalls, s, t

LEMMA InputLayered ==
  ASSUME NEW c \in Ch, NEW p \in Payloads
  PROVE  LET s == InputCalls(c, p) IN Layered(s) /\ Tame(s) /\ Waitless(s)
<1>1. CASE mode[c] = "CMD" /\ p # Escape
  <2>1. Len(p) \in Nat /\ \A i \in 1..Len(p) : p[i] \in Commands
    BY <1>1, LinesAssumption, LenProperties, ElementOfSeq DEF Payloads
  <2>2. \A i \in 1..Len(p) : Call(p[i], c).op \in Outer
    BY <2>1 DEF Call, Commands, Outer
  <2>3. AllOuter(InputCalls(c, p))
    BY <1>1, <2>1, <2>2 DEF InputCalls, AllOuter
  <2> QED BY <2>3, OuterLayered
<1>2. CASE ~(mode[c] = "CMD" /\ p # Escape)
  <2>1. Resets(<<>>) /\ Resets(<<ResetCh(c, "CMD")>>)
    BY DEF Resets, ResetCh
  <2>2. Resets(InputCalls(c, p))
    BY <1>2, <2>1 DEF InputCalls
  <2> QED BY <2>2, ResetsInner, InnerLayered
<1> QED BY <1>1, <1>2

LEMMA FramesLayered ==
  ASSUME NEW n \in Nat, NEW fs \in [1..n -> Frame]
  PROVE  Layered(fs) /\ Tame(fs) /\ Waitless(fs)
<1>1. \A f \in Frame : f.op \in Outer
  BY DEF Frame, Outer
<1>2. Len(fs) = n
  BY FramesType
<1>3. AllOuter(fs)
  BY <1>1, <1>2 DEF AllOuter
<1> QED BY <1>3, OuterLayered

LEMMA StopInOrder ==
  /\ StopCalls \in Seq(Task)
  /\ \A i \in 1..Len(StopCalls) :
       StopCalls[i].op = "reset" \/ (StopCalls[i].op = "halt" /\ i = Len(StopCalls))
<1> DEFINE s == [i \in 1..MaxChannel |-> ResetCh(i, "CLOSED")]
           t == <<ResetCh(0, "CMD"), Call("halt", 0)>>
<1>1. s \in Seq(Task) /\ Resets(s)
  BY ClosesOthers, OthersResets
<1>2. t \in Seq(Task) /\ Len(t) = 2 /\ t[1].op = "reset" /\ t[2].op = "halt"
  <2>1. ResetCh(0, "CMD") \in Task /\ Call("halt", 0) \in Task
    BY ChannelAssumption DEF ResetCh, Call, Task, Ch, Modes
  <2> QED BY <2>1 DEF ResetCh, Call
<1>3. StopCalls = s \o t
  BY DEF StopCalls
<1> HIDE DEF s, t
<1>4. /\ StopCalls \in Seq(Task) /\ Len(s) \in Nat /\ Len(StopCalls) = Len(s) + 2
      /\ \A i \in 1..Len(StopCalls) :
              \/ i \in 1..Len(s) /\ StopCalls[i] = s[i]
              \/ i > Len(s) /\ i - Len(s) \in 1..2 /\ StopCalls[i] = t[i - Len(s)]
  BY <1>1, <1>2, <1>3, ConcatAt
<1>5. ASSUME NEW i \in 1..Len(StopCalls)
      PROVE  StopCalls[i].op = "reset" \/ (StopCalls[i].op = "halt" /\ i = Len(StopCalls))
  <2>1. CASE i \in 1..Len(s) /\ StopCalls[i] = s[i]
    BY <1>1, <2>1 DEF Resets
  <2>2. CASE i > Len(s) /\ i - Len(s) \in 1..2 /\ StopCalls[i] = t[i - Len(s)]
    <3>1. i - Len(s) = 1 \/ (i - Len(s) = 2 /\ i = Len(StopCalls))
      BY <1>4, <2>2
    <3> QED BY <1>2, <2>2, <3>1
  <2> QED BY <1>4, <2>1, <2>2
<1> QED BY <1>4, <1>5

LEMMA SingleInner ==
  /\ Inner(<<>>) /\ Waitless(<<>>)
  /\ \A c : Inner(<<Call("wait", c)>>) /\ Entered(<<Call("wait", c)>>)
  /\ \A c : Entered(<<Call("read", c)>>)
  /\ \A c : \A op \in {"wait", "read"} : Waitless(<<Call(op, c)>>)
  /\ \A c, m : Inner(<<ResetCh(c, m)>>) /\ Waitless(<<ResetCh(c, m)>>)
  /\ \A c, m : Inner(<<FinishCh(c, m)>>) /\ Waitless(<<FinishCh(c, m)>>)
BY DEF Inner, Entered, Waitless, Waits, Outer, Call, ResetCh, FinishCh

LEMMA ResetCallsInner ==
  ASSUME TypeOK, NEW c \in Ch, NEW m \in Modes
  PROVE  Inner(WaitCalls(c, TRUE) \o HangUp(c, m))
<1> DEFINE tasks == WaitCalls(c, TRUE) \o HangUp(c, m)
<1>1. CASE pid[c] = 0
  <2>0. Len(tasks) = 2 /\ tasks[1] = Call("unpty", c) /\ tasks[2] = FinishCh(c, m)
    BY <1>1, ResetCallsAre
  <2> HIDE DEF tasks
  <2>1. Len(tasks) = 2 /\ tasks[1].op = "unpty" /\ tasks[2].op = "finish"
    BY <2>0 DEF Call, FinishCh
  <2>2. \A i \in 1..2 : i \in {1, 2}
    OBVIOUS
  <2>3. Inner(tasks)
    BY <2>1, <2>2 DEF Inner, Outer
  <2> QED BY <2>3 DEF tasks
<1>2. CASE pid[c] # 0
  <2>0. /\ Len(tasks) = 5 /\ tasks[1] = Call("flush", c) /\ tasks[2] = ReapCh(c, pid[c])
        /\ tasks[3] = Call("drain", c) /\ tasks[4] = Call("unpty", c)
        /\ tasks[5] = FinishCh(c, m)
    BY <1>2, ResetCallsAre
  <2> HIDE DEF tasks
  <2>1. /\ Len(tasks) = 5 /\ tasks[1].op = "flush" /\ tasks[2].op = "reap"
        /\ tasks[3].op = "drain" /\ tasks[4].op = "unpty" /\ tasks[5].op = "finish"
    BY <2>0 DEF Call, ReapCh, FinishCh
  <2>2. \A i \in 1..5 : i \in {1, 2, 3, 4, 5}
    OBVIOUS
  <2>3. Inner(tasks)
    BY <2>1, <2>2 DEF Inner, Outer
  <2> QED BY <2>3 DEF tasks
<1> QED BY <1>1, <1>2

LEMMA WaitCallsInner ==
  ASSUME TypeOK, NEW c \in Ch
  PROVE  Inner(WaitCalls(c, FALSE))
<1> DEFINE tasks == WaitCalls(c, FALSE)
<1>1. CASE pid[c] = 0
  BY <1>1, WaitCallsAre, SingleInner
<1>2. CASE pid[c] # 0
  <2>0. Len(tasks) = 2 /\ tasks[1] = ReapCh(c, pid[c]) /\ tasks[2] = Call("drain", c)
    BY <1>2, WaitCallsAre
  <2> HIDE DEF tasks
  <2>1. Len(tasks) = 2 /\ tasks[1].op = "reap" /\ tasks[2].op = "drain"
    BY <2>0 DEF Call, ReapCh
  <2>2. \A i \in 1..2 : i \in {1, 2}
    OBVIOUS
  <2>3. Inner(tasks)
    BY <2>1, <2>2 DEF Inner, Outer
  <2> QED BY <2>3 DEF tasks
<1> QED BY <1>1, <1>2

(* The calls a step of the thread makes keep the layers. *)
LEMMA ProceedLayers == TypeOK /\ InLayers /\ Proceed /\ Active' => InLayers' /\ NoRead'
<1> SUFFICES ASSUME TypeOK, InLayers, Proceed, Active' PROVE InLayers' /\ NoRead'
  OBVIOUS
<1>0. Busy /\ Arg \in Task /\ Arg.ch \in Ch
  <2>1. Busy
    BY DEF Proceed, Top, Reset, Unpty, Finish, Wait, Reap, DialRefused, DialFails, Dial,
           StartMux, Sabm, Disc, UihFrame, Input, ReadEof, Halt
  <2> QED BY <2>1, TopTask, TaskFields DEF TypeOK
<1>1. CASE Reset
  <2>1. phase' = phase /\ Arg.to \in Modes
    BY <1>0, <1>1, TaskFields DEF Reset, Top, Arg
  <2>2. CASE owner[Arg.ch]
    <3>1. WaitCalls(Arg.ch, TRUE) \o HangUp(Arg.ch, Arg.to) \in Seq(Task)
      BY <1>0, <2>1, WaitCallsType, HangUpType, ConcatProperties
    <3>2. Run(WaitCalls(Arg.ch, TRUE) \o HangUp(Arg.ch, Arg.to))
      BY <1>1, <2>2 DEF Reset, HangUp
    <3> QED BY <1>0, <2>1, <3>1, <3>2, ResetCallsInner, InnerLayered, RunLayers
  <2>3. CASE ~owner[Arg.ch]
    <3>1. Run(<<FinishCh(Arg.ch, Arg.to)>>)
      BY <1>1, <2>3 DEF Reset, FinishCh
    <3>2. <<FinishCh(Arg.ch, Arg.to)>> \in Seq(Task)
      BY <1>0, <2>1, HangUpType DEF FinishCh
    <3> QED BY <1>0, <2>1, <3>1, <3>2, SingleInner, InnerLayered, RunLayers
  <2> QED BY <2>2, <2>3
<1>2. CASE Unpty \/ Finish \/ Reap \/ DialRefused \/ DialFails \/ Dial \/ StartMux
  <2>1. Run(<<>>) /\ phase' = phase
    BY <1>2 DEF Unpty, Finish, Reap, DialRefused, DialFails, Dial, StartMux
  <2> QED BY <1>0, <2>1, SimpleCalls, SingleInner, InnerLayered, RunLayers
<1>3. CASE Wait
  <2>1. Run(WaitCalls(Arg.ch, FALSE)) /\ phase' = phase
    BY <1>3 DEF Wait
  <2> QED BY <1>0, <2>1, WaitCallsType, WaitCallsInner, InnerLayered, RunLayers
<1>4. CASE Sabm \/ Disc
  <2>1. phase' = phase
    BY <1>4 DEF Sabm, Disc
  <2>2. Run(<<>>) \/ Run(EventCalls(Arg.ch, TRUE)) \/ Run(EventCalls(Arg.ch, FALSE))
    BY <1>4 DEF Sabm, Disc
  <2> QED BY <1>0, <2>1, <2>2, SimpleCalls, SingleInner, EventCallsType, EventResets,
             ResetsInner, InnerLayered, RunLayers
<1>5. CASE UihFrame
  <2>1. Arg.op = "uih" /\ Run(UihCalls(Arg.ch, Arg.data)) /\ phase' = phase
    BY <1>5 DEF UihFrame, UihCalls, Top, Arg
  <2>2. Arg.data \in Payloads /\ Arg.op \in Outer
    BY <1>0, <2>1, TaskFields DEF Outer
  <2> QED BY <1>0, <2>1, <2>2, UihCallsType, UihLayered, RunLayers
<1>6. CASE Input
  <2>1. Arg.op = "input" /\ Run(InputCalls(Arg.ch, Arg.data)) /\ phase' = phase
    BY <1>6 DEF Input, Top, Arg
  <2>2. Arg.data \in Payloads /\ Arg.op \in Outer
    BY <1>0, <2>1, TaskFields DEF Outer
  <2> QED BY <1>0, <2>1, <2>2, InputCallsType, InputLayered, RunLayers
<1>7. CASE ReadEof
  <2>1. phase' = phase /\ Run(<<Call("wait", Arg.ch)>>)
    BY <1>7 DEF ReadEof
  <2> QED BY <1>0, <2>1, SimpleCalls, SingleInner, InnerLayered, RunLayers
<1>8. CASE Halt
  BY <1>8 DEF Halt, Active
<1> QED BY <1>1, <1>2, <1>3, <1>4, <1>5, <1>6, <1>7, <1>8 DEF Proceed

(* What leads the engine to a read(): a ready pipe of another child than    *)
(* its handle describes.                                                    *)
ReadBegins == NoRead' \/ (\E k \in Child : StdioStale(k) \/ ChildExit(k)) \/ UNCHANGED vars

LEMMA LayersFollow ==
  TypeOK /\ Layers /\ [Next]_vars => (patient' /\ Active' => InLayers' /\ ReadBegins)
<1> SUFFICES ASSUME TypeOK, Layers, [Next]_vars, patient', Active'
             PROVE  InLayers' /\ ReadBegins
  OBVIOUS
<1>0. InLayers /\ patient
  <2>1. patient /\ TypeOK /\ [Next]_vars
    BY PatientStep
  <2>2. Active
    BY PhaseStep DEF Active, Quiet
  <2> QED BY <2>1, <2>2 DEF Layers, InLayers
<1>1. CASE Proceed
  BY <1>0, <1>1, ProceedLayers DEF ReadBegins
<1>2. CASE FlushEnd \/ DrainEnd \/ ReadOutput
  <2>1. Busy /\ Arg.ch \in Ch /\ phase' = phase
    BY <1>2, TopTask, TaskFields DEF FlushEnd, DrainEnd, ReadOutput, Top, TypeOK
  <2>2. Run(<<>>) \/ Run(<<ResetCh(Arg.ch, "CMD")>>)
    BY <1>2 DEF FlushEnd, DrainEnd, ReadOutput
  <2>3. "CMD" \in Modes
    BY DEF Modes
  <2>4. InLayers' /\ NoRead'
    BY <1>0, <2>1, <2>2, <2>3, SimpleCalls, SingleInner, InnerLayered, RunLayers
  <2> QED BY <2>4 DEF ReadBegins
<1>3. CASE PeerText
  <2>1. PICK p \in Payloads : Enter(InputCalls(0, p))
    BY <1>3 DEF PeerText
  <2>2. ~Busy /\ phase' = "run" /\ 0 \in Ch
    BY <1>0, <1>3, ChannelAssumption DEF PeerText, PeerMaySend, Polling, Quiet, Top, Ch
  <2> QED BY <2>1, <2>2, InputCallsType, InputLayered, StartLayers DEF ReadBegins
<1>4. CASE PeerFrames
  <2>1. PICK n \in Burst : \E fs \in [1..n -> Frame] : Enter(fs)
    BY <1>4 DEF PeerFrames
  <2>2. PICK fs \in [1..n -> Frame] : Enter(fs)
    BY <2>1
  <2>3. ~Busy /\ phase' = "run"
    BY <1>0, <1>4 DEF PeerFrames, PeerMaySend, Polling, Quiet, Top
  <2> QED BY <2>2, <2>3, BurstNat, FramesType, FramesLayered, StartLayers DEF ReadBegins
<1>5. CASE Shutdown
  <2>1. ~Busy /\ Enter(StopCalls) /\ phase' = "stopping"
    BY <1>5 DEF Shutdown, Quiet
  <2>2. cont' = StopCalls
    BY <2>1, StopInOrder, ConcatEmptySeq DEF Enter, Busy
  <2>3. \A i \in 1..Len(cont') : cont'[i].op \notin Outer
    BY <2>2, StopInOrder DEF Outer
  <2>4. \A i \in 1..Len(cont') : cont'[i].op = "halt" => i = Len(cont')
    BY <2>2, StopInOrder
  <2>5. Layered(cont')
    BY <2>3 DEF Layered
  <2>6. HaltsLast' /\ NoneOuter'
    BY <2>1, <2>3, <2>4 DEF HaltsLast, NoneOuter
  <2>7. NoRead' /\ ReadsFirst'
    <3>1. NoRead' /\ Len(cont') \in Nat
      BY <2>2, StopInOrder, LenProperties DEF NoRead
    <3> QED BY <3>1 DEF NoRead, ReadsFirst
  <2> QED BY <2>5, <2>6, <2>7 DEF InLayers, ReadBegins
<1>6. CASE Terminated \/ UNCHANGED vars
  <2>1. cont' = cont /\ phase' = phase /\ UNCHANGED vars
    BY <1>6 DEF Terminated, vars
  <2> QED BY <1>0, <2>1 DEF InLayers, Layered, HaltsLast, NoneOuter, ReadsFirst, ReadBegins
<1>7. ASSUME NEW k \in Child, Event(k) \/ ChildExit(k)
      PROVE  InLayers' /\ ReadBegins
  <2>1. CASE StdioEof(k) \/ StdioStale(k) \/ PtyEof(k)
    <3>0. Busy => Arg.op # "read"
      BY <2>1 DEF StdioEof, StdioStale, PtyEof, Polling, Quiet, Top, Arg
    <3>1. home[k] \in Ch
      BY DEF TypeOK
    <3>2. /\ phase' = phase
          /\ Enter(<<Call("wait", home[k])>>) \/ Enter(<<Call("read", home[k])>>)
      BY <2>1 DEF StdioEof, StdioStale, PtyEof
    <3>3. InLayers'
      BY <1>0, <3>0, <3>1, <3>2, SimpleCalls, SingleInner, EnterLayers
    <3>4. NoRead' \/ StdioStale(k)
      <4> SUFFICES ASSUME Enter(<<Call("wait", home[k])>>) PROVE NoRead'
        BY <2>1 DEF StdioEof, PtyEof
      <4> DEFINE tasks == <<Call("wait", home[k])>>
      <4>1. tasks \in Seq(Task) /\ Len(tasks) = 1 /\ tasks[1].op = "wait"
        BY <3>1, SimpleCalls DEF Call
      <4>2. \A i \in 1..Len(cont') :
              \/ i \in 1..1 /\ cont'[i] = tasks[i]
              \/ i > 1 /\ i - 1 \in 1..Len(cont) /\ cont'[i] = cont[i - 1]
        BY <4>1, EnterFrom
      <4> HIDE DEF tasks
      <4>3. \A i \in 1..Len(cont) : cont[i].op # "read"
        <5>1. ASSUME NEW i \in 1..Len(cont), i # 1 PROVE i \in 2..Len(cont)
          BY <5>1, ContLength
        <5>2. ASSUME 1 \in 1..Len(cont) PROVE Busy /\ Arg = cont[1]
          BY <5>2, TopTask, EmptySeq DEF TypeOK, Busy
        <5> QED BY <1>0, <3>0, <5>1, <5>2 DEF InLayers, ReadsFirst
      <4>4. \A i \in 1..1 : i = 1
        OBVIOUS
      <4> QED BY <4>1, <4>2, <4>3, <4>4 DEF NoRead
    <3> QED BY <3>3, <3>4 DEF ReadBegins
  <2>2. CASE PtyStale(k)
    BY <2>2 DEF PtyStale, Active
  <2>3. CASE ChildExit(k)
    <3>1. cont' = cont /\ phase' = phase
      BY <2>3 DEF ChildExit
    <3> QED BY <1>0, <2>3, <3>1
            DEF InLayers, Layered, HaltsLast, NoneOuter, ReadsFirst, ReadBegins
  <2> QED BY <1>7, <2>1, <2>2, <2>3 DEF Event
<1>8. ~DrainStray
  BY DEF DrainStray, Active
<1> QED BY <1>1, <1>2, <1>3, <1>4, <1>5, <1>6, <1>7, <1>8 DEF Next, Step, Peer

LEMMA LayersStep == TypeOK /\ Layers /\ [Next]_vars => Layers'
BY LayersFollow DEF Layers, InLayers

-----------------------------------------------------------------------------
(* The descriptors.  A step carries the waits on the stack d places on: no  *)
(* drain is new, and a reap is still there unless it has been done.         *)
ReapsCarried(d) == \A i \in 1..Len(cont) : cont[i].op = "reap" =>
  child'[cont[i].pid] = "reaped" \/ (i + d \in 1..Len(cont') /\ cont'[i + d] = cont[i])
Carried(d) ==
  /\ \A i \in Nat, c \in Ch : DrainAt(i, c)' => i - d \in Nat /\ DrainAt(i - d, c)
  /\ ReapsCarried(d)

LEMMA RunReaps ==
  ASSUME TypeOK, Busy, NEW tasks \in Seq(Task), Run(tasks),
         Arg.op = "reap" => child'[Arg.pid] = "reaped"
  PROVE  ReapsCarried(Len(tasks) - 1)
<1> DEFINE n == Len(tasks)
<1>1. /\ n \in Nat /\ Len(cont) \in Nat \ {0} /\ Arg = cont[1]
      /\ \A j \in 2..Len(cont) : j + n - 1 \in 1..Len(cont') /\ cont'[j + n - 1] = cont[j]
  BY RunFrom, TopTask DEF TypeOK
<1> HIDE DEF n
<1>2. ASSUME NEW i \in 1..Len(cont), cont[i].op = "reap"
      PROVE  \/ child'[cont[i].pid] = "reaped"
             \/ i + (n - 1) \in 1..Len(cont') /\ cont'[i + (n - 1)] = cont[i]
  <2>1. CASE i = 1
    BY <1>1, <1>2, <2>1
  <2>2. CASE i # 1
    <3>1. i \in 2..Len(cont) /\ i + (n - 1) = i + n - 1
      BY <1>1, <2>2
    <3> QED BY <1>1, <3>1
  <2> QED BY <2>1, <2>2
<1> QED BY <1>2 DEF ReapsCarried, n

LEMMA RunDrains ==
  ASSUME TypeOK, Busy, NEW tasks \in Seq(Task), Run(tasks), NEW i \in Nat, NEW c \in Ch,
         DrainAt(i, c)'
  PROVE  \/ i \in 1..Len(tasks) /\ tasks[i].op = "drain" /\ tasks[i].ch = c
         \/ i - (Len(tasks) - 1) \in Nat /\ DrainAt(i - (Len(tasks) - 1), c)
<1> DEFINE n == Len(tasks)
<1>1. /\ n \in Nat /\ Len(cont) \in Nat \ {0}
      /\ \A j \in 1..Len(cont') :
           \/ j \in 1..n /\ cont'[j] = tasks[j]
           \/ j > n /\ j - n + 1 \in 2..Len(cont) /\ cont'[j] = cont[j - n + 1]
  BY RunFrom
<1> HIDE DEF n
<1>2. i \in 1..Len(cont') /\ cont'[i].op = "drain" /\ cont'[i].ch = c
  BY DEF DrainAt
<1>3. CASE i \in 1..n /\ cont'[i] = tasks[i]
  BY <1>2, <1>3 DEF n
<1>4. CASE i > n /\ i - n + 1 \in 2..Len(cont) /\ cont'[i] = cont[i - n + 1]
  <2>1. i - (n - 1) = i - n + 1 /\ i - n + 1 \in 1..Len(cont) /\ i - n + 1 \in Nat
    BY <1>1, <1>4
  <2>2. DrainAt(i - (n - 1), c)
    BY <1>2, <1>4, <2>1 DEF DrainAt
  <2> QED BY <2>1, <2>2 DEF n
<1> QED BY <1>1, <1>2, <1>3, <1>4

LEMMA RunCarries ==
  ASSUME TypeOK, Busy, NEW tasks \in Seq(Task), Run(tasks), Waitless(tasks),
         Arg.op = "reap" => child'[Arg.pid] = "reaped"
  PROVE  Carried(Len(tasks) - 1)
<1>1. ASSUME NEW i \in Nat, NEW c \in Ch, DrainAt(i, c)'
      PROVE  i - (Len(tasks) - 1) \in Nat /\ DrainAt(i - (Len(tasks) - 1), c)
  BY <1>1, RunDrains DEF Waitless, Waits
<1> QED BY <1>1, RunReaps DEF Carried

LEMMA EmptyCarries ==
  ASSUME TypeOK, Busy, Run(<<>>), Arg.op = "reap" => child'[Arg.pid] = "reaped"
  PROVE  Carried(-1)
<1>1. PICK tasks \in Seq(Task) : tasks = <<>>
  BY EmptyOrderly
<1>2. Waitless(tasks) /\ Len(tasks) = 0 /\ Run(tasks)
  BY <1>1, SingleInner, EmptySeq
<1>3. Carried(Len(tasks) - 1)
  BY <1>2, RunCarries
<1>4. Len(tasks) - 1 = -1
  BY <1>2
<1> QED BY <1>3, <1>4

LEMMA EnterCarries ==
  ASSUME TypeOK, NEW tasks \in Seq(Task), Enter(tasks), Waitless(tasks)
  PROVE  Carried(Len(tasks))
<1> DEFINE n == Len(tasks)
<1>1. /\ n \in Nat /\ Len(cont) \in Nat
      /\ \A i \in 1..Len(cont') :
           \/ i \in 1..n /\ cont'[i] = tasks[i]
           \/ i > n /\ i - n \in 1..Len(cont) /\ cont'[i] = cont[i - n]
      /\ \A j \in 1..Len(cont) : j + n \in 1..Len(cont') /\ cont'[j + n] = cont[j]
  BY EnterFrom
<1> HIDE DEF n
<1>2. ASSUME NEW i \in Nat, NEW c \in Ch, DrainAt(i, c)'
      PROVE  i - n \in Nat /\ DrainAt(i - n, c)
  <2>1. i \in 1..Len(cont') /\ cont'[i].op = "drain" /\ cont'[i].ch = c
    BY <1>2 DEF DrainAt
  <2>2. i > n /\ i - n \in 1..Len(cont) /\ cont'[i] = cont[i - n]
    BY <1>1, <2>1 DEF Waitless, Waits, n
  <2>3. i - n \in Nat
    BY <1>1, <2>2
  <2> QED BY <2>1, <2>2, <2>3 DEF DrainAt
<1>3. Carried(n)
  BY <1>1, <1>2 DEF Carried, ReapsCarried
<1> QED BY <1>3 DEF n

LEMMA IdleCarries ==
  ASSUME TypeOK, cont' = cont
  PROVE  Carried(0)
<1>1. Len(cont) \in Nat
  BY ContLength
<1>2. \A i \in Nat : i - 0 = i /\ i + 0 = i
  OBVIOUS
<1>3. \A i \in 1..Len(cont) : i + 0 = i
  BY <1>1
<1> QED BY <1>2, <1>3 DEF Carried, ReapsCarried, DrainAt

LEMMA DrainPending ==
  ASSUME TypeOK, NEW c \in Ch
  PROVE  Pending("drain", c) <=> \E i \in Nat : DrainAt(i, c)
<1>1. 1..Len(cont) \subseteq Nat
  BY ContLength
<1> QED BY <1>1 DEF Pending, DrainAt

LEMMA ReapedCarried ==
  ASSUME TypeOK, NEW d \in Int, ReapsCarried(d),
         \A k \in Child : child[k] = "reaped" => child'[k] = "reaped",
         NEW i \in Nat, NEW k \in Child, Reaped(i, k)
  PROVE  Reaped(i + d, k)'
<1>1. CASE child[k] = "reaped"
  BY <1>1 DEF Reaped
<1>2. ASSUME NEW j \in 1..Len(cont), j < i, cont[j].op = "reap", cont[j].pid = k
      PROVE  Reaped(i + d, k)'
  <2>1. CASE child'[k] = "reaped"
    BY <2>1 DEF Reaped
  <2>2. CASE j + d \in 1..Len(cont') /\ cont'[j + d] = cont[j]
    <3>1. j + d < i + d
      BY <1>2, ContLength
    <3> QED BY <1>2, <2>2, <3>1 DEF Reaped
  <2> QED BY <1>2, <2>1, <2>2 DEF ReapsCarried
<1> QED BY <1>1, <1>2 DEF Reaped

LEMMA DrainsCarried ==
  ASSUME TypeOK, EachDrains, NEW d \in Int, Carried(d),
         \A k \in Child : child[k] = "reaped" => child'[k] = "reaped",
         \A c \in Ch : Pending("drain", c) /\ (\E i \in Nat : DrainAt(i, c)') =>
           /\ pid'[c] = 0 /\ pipes'[c] = pipes[c]
           /\ Stdio(pipes[c]) \in open => Stdio(pipes[c]) \in open'
  PROVE  EachDrains'
<1> SUFFICES ASSUME NEW i \in Nat, NEW c \in Ch, DrainAt(i, c)'
             PROVE  Drains(i, c)' /\ \A j \in Nat : DrainAt(j, c)' => j = i
  BY DEF EachDrains
<1>1. i - d \in Nat /\ DrainAt(i - d, c)
  BY DEF Carried
<1>2. Drains(i - d, c) /\ Pending("drain", c)
  BY <1>1, DrainPending DEF EachDrains
<1>3. /\ pid'[c] = 0 /\ pipes'[c] = pipes[c] /\ pipes[c] # 0 /\ pipes[c] \in Child
      /\ Stdio(pipes[c]) \in open'
  BY <1>2 DEF Drains, TypeOK
<1>4. Reaped(i, pipes[c])'
  <2>1. Reaped((i - d) + d, pipes[c])'
    BY <1>1, <1>2, <1>3, ReapedCarried DEF Drains, Carried
  <2>2. (i - d) + d = i
    OBVIOUS
  <2> QED BY <2>1, <2>2
<1>5. ASSUME NEW j \in Nat, DrainAt(j, c)' PROVE j = i
  <2>1. j - d \in Nat /\ DrainAt(j - d, c)
    BY <1>5 DEF Carried
  <2>2. j - d = i - d
    BY <1>1, <2>1 DEF EachDrains
  <2> QED BY <2>2
<1> QED BY <1>3, <1>4, <1>5 DEF Drains

(* A step that changes nothing the tables are about. *)
KeepsFates == \A k \in Child : /\ child'[k] = "failed" <=> child[k] = "failed"
                               /\ child[k] = "reaped" => child'[k] = "reaped"
SameBooks == /\ pid' = pid /\ pipes' = pipes /\ pty' = pty /\ live' = live /\ home' = home
             /\ open' = open /\ polled' = polled /\ KeepsFates
KeepsDrains == \A c \in Ch : Pending("drain", c) => Pending("drain", c)'

LEMMA StillTables ==
  ASSUME TypeOK, Tables, NEW d \in Int, Carried(d), SameBooks, KeepsDrains
  PROVE  Tables'
<1>1. EachDrains'
  <2>1. \A c \in Ch : Pending("drain", c) => pid[c] = 0
    BY DrainPending DEF Tables, EachDrains, Drains
  <2> QED BY <2>1, DrainsCarried DEF Tables, SameBooks, KeepsFates
<1>2. polled' \subseteq open' /\ PtysOpen' /\ PipesOpen'
  BY DEF Tables, SameBooks, PtysOpen, PipesOpen
<1>3. PipesHeld'
  BY DEF Tables, SameBooks, PipesHeld, KeepsDrains, KeepsFates, TypeOK
<1>4. FailedOpen'
  BY DEF Tables, SameBooks, FailedOpen, KeepsFates
<1> QED BY <1>1, <1>2, <1>3, <1>4 DEF Tables

(* io_spawn_wait() is called: the child waited for passes from the pid of   *)
(* its channel to the drain, which finds its pipes where the dial put them. *)
LEMMA WaitHandsPipes ==
  ASSUME TypeOK, Told, Tables, Busy, Arg.op \notin Waits, NEW c \in Ch, pid[c] # 0,
         NEW tasks \in Seq(Task), Run(tasks),
         NEW n \in 1..Len(tasks), tasks[n] = ReapCh(c, pid[c]), n + 1 \in 1..Len(tasks),
         tasks[n + 1] = Call("drain", c),
         \A i \in 1..Len(tasks) : tasks[i].op = "drain" => i = n + 1,
         pid' = [pid EXCEPT ![c] = 0], pipes' = pipes, pty' = pty, live' = live, home' = home,
         open' = open, polled' = polled, KeepsFates
  PROVE  Tables'
<1> DEFINE d == Len(tasks) - 1
<1>0. Len(tasks) \in Nat /\ d \in Int /\ n \in Nat
  BY LenProperties
<1>1. pid'[c] = 0 /\ \A e \in Ch : e # c => pid'[e] = pid[e]
  BY DEF TypeOK
<1>2. /\ Channel(c) /\ pipes[c] = pid[c] /\ pid[c] \in Child
      /\ Stdio(pid[c]) \in open
  BY DEF Told, Channel, CallUp, Tables, PipesOpen, TypeOK
<1>3. ReapsCarried(d)
  BY RunReaps DEF Waits
<1>4. /\ n \in 1..Len(cont') /\ cont'[n] = ReapCh(c, pid[c])
      /\ n + 1 \in 1..Len(cont') /\ cont'[n + 1] = Call("drain", c)
  BY RunFrom
<1>5. Reaped(n + 1, pipes[c])'
  <2>1. n < n + 1 /\ cont'[n].op = "reap" /\ cont'[n].pid = pipes'[c]
    BY <1>0, <1>2, <1>4 DEF ReapCh
  <2> QED BY <1>4, <2>1 DEF Reaped
<1> HIDE DEF d
<1>6. ASSUME NEW i \in Nat, NEW e \in Ch, DrainAt(i, e)'
      PROVE  \/ i = n + 1 /\ e = c
             \/ i - d \in Nat /\ DrainAt(i - d, e) /\ Drains(i - d, e) /\ e # c
  <2>1. CASE i \in 1..Len(tasks) /\ tasks[i].op = "drain" /\ tasks[i].ch = e
    <3>1. i = n + 1
      BY <2>1
    <3>2. e = c
      BY <2>1, <3>1 DEF Call
    <3> QED BY <3>1, <3>2
  <2>2. CASE i - d \in Nat /\ DrainAt(i - d, e)
    BY <2>2 DEF Tables, EachDrains, Drains
  <2> QED BY <1>6, <2>1, <2>2, RunDrains DEF d
<1>7. EachDrains'
  <2> SUFFICES ASSUME NEW i \in Nat, NEW e \in Ch, DrainAt(i, e)'
               PROVE  Drains(i, e)' /\ \A j \in Nat : DrainAt(j, e)' => j = i
    BY DEF EachDrains
  <2>1. CASE i = n + 1 /\ e = c
    <3>1. Drains(i, e)'
      BY <1>1, <1>2, <1>5, <2>1 DEF Drains, Child
    <3>2. \A j \in Nat : DrainAt(j, e)' => j = i
      BY <1>6, <2>1
    <3> QED BY <3>1, <3>2
  <2>2. CASE i - d \in Nat /\ DrainAt(i - d, e) /\ Drains(i - d, e) /\ e # c
    <3>1. /\ pid'[e] = 0 /\ pipes[e] # 0 /\ Stdio(pipes[e]) \in open /\ pipes[e] \in Child
          /\ Reaped(i - d, pipes[e])
      BY <1>1, <2>2 DEF Drains, TypeOK
    <3>2. Reaped((i - d) + d, pipes[e])' /\ (i - d) + d = i
      BY <1>0, <1>3, <2>2, <3>1, ReapedCarried DEF KeepsFates
    <3>3. Drains(i, e)'
      BY <3>1, <3>2 DEF Drains
    <3>4. ASSUME NEW j \in Nat, DrainAt(j, e)' PROVE j = i
      <4>1. j - d \in Nat /\ DrainAt(j - d, e)
        BY <1>6, <2>2, <3>4
      <4>2. j - d = i - d
        BY <2>2, <4>1 DEF Tables, EachDrains
      <4> QED BY <1>0, <4>2
    <3> QED BY <3>3, <3>4
  <2> QED BY <1>6, <2>1, <2>2
<1>8. PipesHeld'
  <2>1. Pending("drain", c)'
    BY <1>4 DEF Pending, Call
  <2>2. \A e \in Ch : Pending("drain", e) => Pending("drain", e)'
    BY RunPending DEF Waits
  <2> QED BY <1>1, <2>1, <2>2 DEF Tables, PipesHeld, KeepsFates, TypeOK
<1>9. polled' \subseteq open' /\ PtysOpen' /\ FailedOpen' /\ PipesOpen'
  <2>1. polled' \subseteq open' /\ PtysOpen' /\ FailedOpen'
    BY DEF Tables, PtysOpen, FailedOpen, KeepsFates
  <2>2. PipesOpen'
    BY <1>1 DEF Tables, PipesOpen
  <2> QED BY <2>1, <2>2
<1> QED BY <1>7, <1>8, <1>9 DEF Tables

LEMMA ResetTables == TypeOK /\ Told /\ Tables /\ Reset => Tables'
<1> SUFFICES ASSUME TypeOK, Told, Tables, Reset PROVE Tables'
  OBVIOUS
<1>1. Busy /\ Arg.op = "reset" /\ Arg \in Task
  BY TopTask DEF Reset, Top, Arg, TypeOK
<1>2. PICK c \in Ch : c = Arg.ch
  BY <1>1, TaskFields
<1>3. PICK m \in Modes : m = Arg.to
  BY <1>1, TaskFields
<1>4. /\ pipes' = pipes /\ pty' = pty /\ live' = live /\ home' = home
      /\ open' = open /\ polled' = polled
  BY DEF Reset
<1>5. KeepsFates
  <2>1. child' = Interrupt(pid[c]) \/ child' = child
    BY <1>2 DEF Reset
  <2> QED BY <2>1 DEF KeepsFates, Interrupt
<1>6. CASE owner[c] /\ pid[c] # 0
  <2> DEFINE tasks == WaitCalls(c, TRUE) \o HangUp(c, m)
  <2>1. tasks \in Seq(Task) /\ Run(tasks)
    BY <1>2, <1>3, <1>6, WaitCallsType, HangUpType, ConcatProperties DEF Reset, HangUp
  <2>2. /\ Len(tasks) = 5 /\ tasks[1] = Call("flush", c) /\ tasks[2] = ReapCh(c, pid[c])
        /\ tasks[3] = Call("drain", c) /\ tasks[4] = Call("unpty", c)
        /\ tasks[5] = FinishCh(c, m)
    BY <1>6, ResetCallsAre
  <2> HIDE DEF tasks
  <2>3. ASSUME NEW i \in 1..Len(tasks), tasks[i].op = "drain"
        PROVE  i = 2 + 1
    <3>1. i \in {1, 2, 3, 4, 5}
      BY <2>2
    <3> QED BY <2>2, <2>3, <3>1 DEF Call, ReapCh, FinishCh
  <2>4. 2 \in 1..Len(tasks) /\ 2 + 1 \in 1..Len(tasks) /\ tasks[2 + 1] = Call("drain", c)
    BY <2>2
  <2>5. pid' = [pid EXCEPT ![c] = 0]
    BY <1>2, <1>6 DEF Reset
  <2>6. Arg.op \notin Waits
    BY <1>1 DEF Waits
  <2>7. tasks[2] = ReapCh(c, pid[c])
    BY <2>2
  <2> QED BY <1>1, <1>4, <1>5, <1>6, <2>1, <2>3, <2>4, <2>5, <2>6, <2>7, WaitHandsPipes
<1>7. CASE ~(owner[c] /\ pid[c] # 0)
  <2>1. pid[c] = 0
    BY <1>7 DEF Told, Channel, CallUp
  <2>2. pid' = pid
    <3>1. pid' = [pid EXCEPT ![c] = 0] \/ pid' = pid
      BY <1>2 DEF Reset
    <3> QED BY <2>1, <3>1 DEF TypeOK
  <2>3. PICK tasks \in Seq(Task) : Run(tasks) /\ Waitless(tasks)
    <3>1. CASE owner[c]
      <4> DEFINE tasks == WaitCalls(c, TRUE) \o HangUp(c, m)
      <4>1. tasks \in Seq(Task) /\ Run(tasks)
        BY <1>2, <1>3, <3>1, WaitCallsType, HangUpType, ConcatProperties DEF Reset, HangUp
      <4>2. Len(tasks) = 2 /\ tasks[1] = Call("unpty", c) /\ tasks[2] = FinishCh(c, m)
        BY <2>1, ResetCallsAre
      <4> HIDE DEF tasks
      <4>3. \A i \in 1..2 : i \in {1, 2}
        OBVIOUS
      <4>4. Waitless(tasks)
        BY <4>2, <4>3 DEF Waitless, Waits, Call, FinishCh
      <4> QED BY <4>1, <4>4
    <3>2. CASE ~owner[c]
      <4>1. Run(<<FinishCh(c, m)>>) /\ <<FinishCh(c, m)>> \in Seq(Task)
        BY <1>2, <1>3, <3>2, HangUpType DEF Reset, FinishCh
      <4> QED BY <4>1, SingleInner
    <3> QED BY <3>1, <3>2
  <2>4. Carried(Len(tasks) - 1) /\ Len(tasks) - 1 \in Int
    BY <1>1, <2>3, RunCarries, LenProperties
  <2>5. KeepsDrains
    BY <1>1, <2>3, RunPending DEF KeepsDrains
  <2> QED BY <1>4, <1>5, <2>2, <2>4, <2>5, StillTables DEF SameBooks
<1> QED BY <1>6, <1>7

LEMMA WaitTables == TypeOK /\ Told /\ Tables /\ Wait => Tables'
<1> SUFFICES ASSUME TypeOK, Told, Tables, Wait PROVE Tables'
  OBVIOUS
<1>1. Busy /\ Arg.op = "wait" /\ Arg \in Task
  BY TopTask DEF Wait, Top, Arg, TypeOK
<1>2. PICK c \in Ch : c = Arg.ch
  BY <1>1, TaskFields
<1>3. /\ pid' = [pid EXCEPT ![c] = 0]
      /\ pipes' = pipes /\ pty' = pty /\ live' = live /\ home' = home
      /\ open' = open /\ polled' = polled
  BY <1>2 DEF Wait
<1>4. KeepsFates
  BY DEF Wait, KeepsFates
<1> DEFINE tasks == WaitCalls(c, FALSE)
<1>5. tasks \in Seq(Task) /\ Run(tasks)
  BY <1>2, WaitCallsType DEF Wait
<1>6. /\ pid[c] = 0 => tasks = <<>>
      /\ pid[c] # 0 => /\ Len(tasks) = 2
                       /\ tasks[1] = ReapCh(c, pid[c]) /\ tasks[2] = Call("drain", c)
  BY WaitCallsAre
<1> HIDE DEF tasks
<1>7. CASE pid[c] # 0
  <2>1. ASSUME NEW i \in 1..Len(tasks), tasks[i].op = "drain"
        PROVE  i = 1 + 1
    <3>1. \A j \in 1..2 : j \in {1, 2}
      OBVIOUS
    <3>2. i \in {1, 2}
      BY <1>6, <1>7, <3>1
    <3> QED BY <1>6, <1>7, <2>1, <3>2 DEF ReapCh
  <2>2. /\ 1 \in 1..Len(tasks) /\ 1 + 1 \in 1..Len(tasks)
        /\ tasks[1] = ReapCh(c, pid[c]) /\ tasks[1 + 1] = Call("drain", c)
    BY <1>6, <1>7
  <2>3. Arg.op \notin Waits
    BY <1>1 DEF Waits
  <2> QED BY <1>1, <1>3, <1>4, <1>5, <1>7, <2>1, <2>2, <2>3, WaitHandsPipes
<1>8. CASE pid[c] = 0
  <2>1. pid' = pid
    BY <1>3, <1>8 DEF TypeOK
  <2>2. Waitless(tasks)
    BY <1>6, <1>8, SingleInner
  <2>3. Carried(Len(tasks) - 1)
    BY <1>1, <1>5, <2>2, RunCarries
  <2>4. Len(tasks) - 1 \in Int
    BY <1>5, LenProperties
  <2>5. KeepsDrains
    BY <1>1, <1>5, RunPending DEF KeepsDrains
  <2> QED BY <1>3, <1>4, <2>1, <2>3, <2>4, <2>5, StillTables DEF SameBooks
<1> QED BY <1>7, <1>8

(* The pty of a disowned channel is closed and forgotten. *)
LEMMA UnptyTables == TypeOK /\ Told /\ Tables /\ Unpty => Tables'
<1> SUFFICES ASSUME TypeOK, Told, Tables, Unpty PROVE Tables'
  OBVIOUS
<1>1. Busy /\ Arg.op = "unpty" /\ Arg \in Task /\ Run(<<>>)
  BY TopTask DEF Unpty, Top, Arg, TypeOK
<1>2. PICK c \in Ch : c = Arg.ch
  BY <1>1, TaskFields
<1>3. /\ open' = open \ {Pty(pty[c])} /\ polled' = polled \ {Pty(pty[c])}
      /\ pid' = pid /\ pipes' = pipes /\ live' = live /\ home' = home /\ child' = child
      /\ pty' = [pty EXCEPT ![c] = 0]
  BY <1>2 DEF Unpty
<1>4. \A k : Stdio(k) # Pty(pty[c])
  BY DEF Pty, Stdio
<1>5. Carried(-1)
  BY <1>1, EmptyCarries
<1>5a. KeepsDrains
  BY <1>1, EmptyOrderly, RunPending DEF KeepsDrains
<1>6. EachDrains'
  <2>1. \A d \in Ch : Pending("drain", d) => pid[d] = 0
    BY DrainPending DEF Tables, EachDrains, Drains
  <2> QED BY <1>3, <1>4, <1>5, <2>1, DrainsCarried DEF Tables
<1>7. PtysOpen'
  <2> SUFFICES ASSUME NEW k \in Child PROVE Pty(k) \in open' <=> pty'[home[k]] = k
    BY <1>3 DEF PtysOpen
  <2>1. home[k] \in Ch /\ k # 0 /\ (Pty(k) \in open <=> pty[home[k]] = k)
    BY DEF Tables, PtysOpen, TypeOK, Child
  <2>2. CASE k = pty[c]
    <3>1. home[k] = c
      BY <2>1, <2>2 DEF Told, Channel, OwnChild
    <3> QED BY <1>3, <2>1, <2>2, <3>1 DEF TypeOK
  <2>3. CASE k # pty[c]
    <3>1. Pty(k) \in open' <=> Pty(k) \in open
      BY <1>3, <2>3 DEF Pty
    <3>2. pty'[home[k]] = k <=> pty[home[k]] = k
      BY <1>3, <2>1, <2>3 DEF TypeOK
    <3> QED BY <2>1, <3>1, <3>2
  <2> QED BY <2>2, <2>3
<1>8. PipesHeld' /\ PipesOpen'
  <2>1. PipesHeld'
    BY <1>3, <1>5a DEF Tables, PipesHeld, KeepsDrains, TypeOK
  <2>2. PipesOpen'
    BY <1>3, <1>4 DEF Tables, PipesOpen
  <2> QED BY <2>1, <2>2
<1>9. polled' \subseteq open' /\ FailedOpen'
  BY <1>3, <1>4 DEF Tables, FailedOpen
<1> QED BY <1>6, <1>7, <1>8, <1>9 DEF Tables

(* The pipes a drain closes are those of the child waited for: nobody else  *)
(* reads them, and they are in the poll table only while the handle lives.  *)
LEMMA DrainTables == TypeOK /\ Told /\ Tables /\ DrainEnd => Tables'
<1> SUFFICES ASSUME TypeOK, Told, Tables, DrainEnd PROVE Tables'
  OBVIOUS
<1>1. Busy /\ Arg.op = "drain" /\ Arg \in Task /\ Arg = cont[1] /\ 1 \in 1..Len(cont)
  BY TopTask DEF DrainEnd, Top, Arg, TypeOK
<1>2. PICK c \in Ch : c = Arg.ch
  BY <1>1, TaskFields
<1>3. DrainAt(1, c)
  BY <1>1, <1>2 DEF DrainAt
<1>4. PICK p \in Child : p = pipes[c] /\ p # 0
  BY <1>3 DEF Tables, EachDrains, Drains, TypeOK
<1>5. pid[c] = 0 /\ home[p] = c /\ Channel(c)
  BY <1>3, <1>4 DEF Tables, EachDrains, Drains, Told, Channel, OwnChild
<1>6. child[p] = "reaped"
  <2>1. Reaped(1, p)
    BY <1>3, <1>4 DEF Tables, EachDrains, Drains
  <2>2. \A j \in 1..Len(cont) : ~(j < 1)
    BY ContLength
  <2> QED BY <2>1, <2>2 DEF Reaped
<1>7. polled' = polled \ {Stdio(p)}
  <2>1. live[c]
    BY <1>3, <1>4, <1>5, <1>6 DEF Tables, EachDrains, Drains, PipesHeld
  <2>2. polled' = IF live[c] THEN polled \ {Stdio(p)} ELSE polled
    BY <1>2, <1>4 DEF DrainEnd, Deregister
  <2> QED BY <2>1, <2>2
<1>8. /\ open' = open \ {Stdio(p)} /\ live' = [live EXCEPT ![c] = FALSE]
      /\ pid' = pid /\ pipes' = pipes /\ pty' = pty /\ home' = home /\ child' = child
  BY <1>2, <1>4 DEF DrainEnd
<1> DEFINE tasks == IF owner[c] THEN <<ResetCh(c, "CMD")>> ELSE <<>>
<1>9. tasks \in Seq(Task) /\ Run(tasks) /\ Waitless(tasks)
  BY <1>2, SimpleCalls, SingleInner DEF DrainEnd, Modes
<1> HIDE DEF tasks
<1>10. Carried(Len(tasks) - 1) /\ Len(tasks) - 1 \in Int
  BY <1>1, <1>9, RunCarries, LenProperties
(* Of this channel that was the only drain. *)
<1>11. ASSUME NEW i \in Nat, DrainAt(i, c)'
       PROVE  FALSE
  <2> DEFINE n == Len(tasks)
  <2>1. /\ n \in Nat
        /\ \A j \in 1..Len(cont') :
              \/ j \in 1..n /\ cont'[j] = tasks[j]
              \/ j > n /\ j - n + 1 \in 2..Len(cont) /\ cont'[j] = cont[j - n + 1]
    BY <1>1, <1>9, RunFrom
  <2>2. \A j \in 1..n : tasks[j].op # "drain"
    BY <1>9 DEF Waitless, Waits
  <2> HIDE DEF n
  <2>3. i - n + 1 \in 2..Len(cont) /\ cont'[i] = cont[i - n + 1]
    BY <1>11, <2>1, <2>2 DEF DrainAt
  <2>4. i - n + 1 \in Nat /\ i - n + 1 # 1 /\ DrainAt(i - n + 1, c)
    BY <1>1, <1>11, <2>3 DEF DrainAt
  <2> QED BY <1>3, <2>4 DEF Tables, EachDrains
<1>12. ASSUME NEW d \in Ch, d # c
       PROVE  pipes[d] # p
  BY <1>4, <1>5, <1>12 DEF Told, Channel, OwnChild
<1>13. EachDrains'
  <2>1. ASSUME NEW d \in Ch, Pending("drain", d), \E i \in Nat : DrainAt(i, d)'
        PROVE  /\ pid'[d] = 0 /\ pipes'[d] = pipes[d]
               /\ Stdio(pipes[d]) \in open => Stdio(pipes[d]) \in open'
    <3>1. d # c /\ pid[d] = 0
      BY <1>11, <2>1, DrainPending DEF Tables, EachDrains, Drains
    <3> QED BY <1>8, <1>12, <3>1 DEF Stdio
  <2> QED BY <1>8, <1>10, <2>1, DrainsCarried DEF Tables
<1>14. PipesHeld'
  <2>1. ASSUME NEW k \in Child, Stdio(k) \in open', child'[k] # "failed"
        PROVE  /\ pipes'[home'[k]] = k /\ live'[home'[k]]
               /\ pid'[home'[k]] = k \/ Pending("drain", home[k])'
    <3>1. PICK h \in Ch : h = home[k] /\ h = home'[k]
      BY <1>8 DEF TypeOK
    <3>2. Stdio(k) \in open /\ k # p /\ child[k] # "failed"
      BY <1>8, <2>1
    <3>3. pipes[h] = k /\ live[h] /\ h # c /\ (pid[h] = k \/ Pending("drain", h))
      BY <1>4, <3>1, <3>2 DEF Tables, PipesHeld
    <3>4. Pending("drain", h) => Pending("drain", h)'
      BY <1>1, <1>2, <1>9, <3>3, RunPending
    <3>5. pipes'[h] = k /\ live'[h] /\ (pid'[h] = k \/ Pending("drain", h)')
      BY <1>8, <3>3, <3>4 DEF TypeOK
    <3> QED BY <3>1, <3>5 DEF Pending
  <2> QED BY <2>1 DEF PipesHeld
<1>15. polled' \subseteq open' /\ PtysOpen' /\ FailedOpen'
  <2>1. \A k : Pty(k) # Stdio(p)
    BY DEF Pty, Stdio
  <2>2. polled' \subseteq open' /\ PtysOpen'
    BY <1>7, <1>8, <2>1 DEF Tables, PtysOpen
  <2>3. FailedOpen'
    BY <1>6, <1>8 DEF Tables, FailedOpen, Stdio
  <2> QED BY <2>2, <2>3
<1>16. PipesOpen'
  <2> SUFFICES ASSUME NEW d \in Ch, pid[d] # 0 PROVE Stdio(pid[d]) \in open \ {Stdio(p)}
    BY <1>8 DEF PipesOpen
  <2>1. d # c /\ pipes[d] = pid[d] /\ Stdio(pid[d]) \in open
    BY <1>5 DEF Told, Channel, CallUp, Tables, PipesOpen
  <2> QED BY <1>12, <2>1 DEF Stdio
<1> QED BY <1>13, <1>14, <1>15, <1>16 DEF Tables

(* Nothing is dialled within a hang-up: no wait is on the stack, and a      *)
(* channel in command mode without a child holds no pty.                    *)
LEMMA DialsOnFreeChannel ==
  ASSUME TypeOK, InLayers, Told, Tables, Busy, Arg.op = "dial",
         NEW c \in Ch, pid[c] = 0, mode[c] = "CMD"
  PROVE  /\ \A d : ~Pending("drain", d)
         /\ \A k \in Child : Pty(k) \in open => child[k] # "none" /\ home[k] # c
         /\ \A k \in Child : Stdio(k) \in open /\ child[k] # "failed" =>
              child[k] # "none" /\ home[k] # c
<1>1. Arg.op \in Outer
  BY DEF Outer
<1>2. \A op, d : op \notin Outer => ~Pending(op, d)
  BY <1>1, OuterTop
<1>3. \A d : ~Pending("drain", d) /\ ~Pending("unpty", d) /\ ~AboutToReset(d)
  BY <1>2 DEF Outer, AboutToReset, Top, Arg
<1>4. ~owner[c] /\ pty[c] = 0
  BY <1>3 DEF Told, Channel, Reachable, CallDown
<1>5. ASSUME NEW k \in Child,
             Pty(k) \in open \/ (Stdio(k) \in open /\ child[k] # "failed")
      PROVE  child[k] # "none" /\ home[k] # c
  <2>1. k # 0 /\ home[k] \in Ch
    BY DEF TypeOK, Child
  <2>2. pty[home[k]] = k \/ (pipes[home[k]] = k /\ pid[home[k]] = k)
    BY <1>3, <1>5 DEF Tables, PtysOpen, PipesHeld
  <2>3. child[k] # "none"
    BY <2>1, <2>2 DEF Told, Channel, OwnChild
  <2> QED BY <1>4, <2>1, <2>2, <2>3
<1> QED BY <1>3, <1>5

(* The rest of a dial, whether or not the spawn has failed. *)
LEMMA BeginTables ==
  ASSUME TypeOK, InLayers, Told, Tables, Busy, Arg.op = "dial", Run(<<>>), NEW c \in Ch,
         NEW k \in Child, child[k] = "none", CallBegins(c, k),
         NEW fate \in {"running", "failed"}, child' = [child EXCEPT ![k] = fate],
         pid' = IF fate = "failed" THEN pid ELSE [pid EXCEPT ![c] = k],
         pid[c] = 0, mode[c] = "CMD"
  PROVE  Tables'
<1>1. /\ home' = [home EXCEPT ![k] = c] /\ pipes' = [pipes EXCEPT ![c] = k]
      /\ live' = [live EXCEPT ![c] = TRUE] /\ pty' = [pty EXCEPT ![c] = k]
      /\ open' = open \cup {Pty(k), Stdio(k)}
  BY DEF CallBegins
<1>2. polled' \subseteq open'
  <2>1. PICK r \in Registered(k) : polled' = polled \cup r
    BY DEF CallBegins
  <2>2. r \subseteq {Pty(k), Stdio(k)}
    BY DEF Registered
  <2> QED BY <1>1, <2>1, <2>2 DEF Tables
<1>3. /\ \A d : ~Pending("drain", d)
      /\ \A j \in Child : Pty(j) \in open => child[j] # "none" /\ home[j] # c
      /\ \A j \in Child : Stdio(j) \in open /\ child[j] # "failed" =>
           child[j] # "none" /\ home[j] # c
  BY DialsOnFreeChannel
<1>4. EachDrains'
  <2>1. Carried(-1)
    BY EmptyCarries
  <2>2. \A i \in Nat, d \in Ch : ~DrainAt(i, d)'
    BY <1>3, <2>1, DrainPending DEF Carried
  <2> QED BY <2>2 DEF EachDrains
<1>5. ASSUME NEW j \in Child, j # k
      PROVE  /\ home'[j] = home[j] /\ home[j] \in Ch /\ child'[j] = child[j]
             /\ Pty(j) \in open' <=> Pty(j) \in open
             /\ Stdio(j) \in open' <=> Stdio(j) \in open
  BY <1>1, <1>5 DEF TypeOK, Pty, Stdio
<1>6. /\ home'[k] = c /\ child'[k] = fate /\ pty'[c] = k /\ pipes'[c] = k /\ live'[c]
      /\ pid'[c] = IF fate = "failed" THEN 0 ELSE k
      /\ Pty(k) \in open' /\ Stdio(k) \in open'
  BY <1>1 DEF TypeOK
<1>7. ASSUME NEW d \in Ch, d # c
      PROVE  /\ pty'[d] = pty[d] /\ pipes'[d] = pipes[d] /\ live'[d] = live[d]
             /\ pid'[d] = pid[d]
  BY <1>1, <1>7 DEF TypeOK
<1>8. PtysOpen'
  <2> SUFFICES ASSUME NEW j \in Child PROVE Pty(j) \in open' <=> pty'[home'[j]] = j
    BY DEF PtysOpen
  <2>1. CASE j = k
    BY <1>6, <2>1
  <2>2. CASE j # k
    <3>1. Pty(j) \in open <=> pty[home[j]] = j
      BY DEF Tables, PtysOpen
    <3>2. CASE home[j] = c
      BY <1>3, <1>5, <1>6, <2>2, <3>2
    <3>3. CASE home[j] # c
      BY <1>5, <1>7, <2>2, <3>1, <3>3
    <3> QED BY <3>2, <3>3
  <2> QED BY <2>1, <2>2
<1>9. PipesHeld'
  <2> SUFFICES ASSUME NEW j \in Child, Stdio(j) \in open', child'[j] # "failed"
               PROVE  pipes'[home'[j]] = j /\ live'[home'[j]] /\ pid'[home'[j]] = j
    BY DEF PipesHeld
  <2>1. CASE j = k
    BY <1>6, <2>1
  <2>2. CASE j # k
    <3>1. /\ Stdio(j) \in open /\ child[j] # "failed" /\ home'[j] = home[j]
          /\ home[j] # c /\ home[j] \in Ch
      BY <1>3, <1>5, <2>2
    <3> QED BY <1>3, <1>7, <3>1 DEF Tables, PipesHeld
  <2> QED BY <2>1, <2>2
<1>10. FailedOpen'
  BY <1>5, <1>6 DEF Tables, FailedOpen
<1>11. PipesOpen'
  <2> SUFFICES ASSUME NEW d \in Ch, pid'[d] # 0 PROVE Stdio(pid'[d]) \in open'
    BY DEF PipesOpen
  <2> QED BY <1>1, <1>6, <1>7 DEF Tables, PipesOpen
<1> QED BY <1>2, <1>4, <1>8, <1>9, <1>10, <1>11 DEF Tables

LEMMA DialTables == TypeOK /\ InLayers /\ Told /\ Tables /\ (Dial \/ DialFails) => Tables'
<1> SUFFICES ASSUME TypeOK, InLayers, Told, Tables, Dial \/ DialFails PROVE Tables'
  OBVIOUS
<1>1. Busy /\ Arg.op = "dial" /\ Arg \in Task /\ Run(<<>>)
  BY TopTask DEF Dial, DialFails, Top, Arg, TypeOK
<1>2. PICK c \in Ch : c = Arg.ch
  BY <1>1, TaskFields
<1>3. PICK k \in Child : k = NextChild /\ child[k] = "none"
  BY DEF Dial, DialFails, NextChild, Free
<1>4. CallBegins(c, k) /\ pid[c] = 0 /\ mode[c] = "CMD"
  BY <1>2, <1>3 DEF Dial, DialFails, MayDial
<1>5. CASE Dial
  <2>1. child' = [child EXCEPT ![k] = "running"] /\ pid' = [pid EXCEPT ![c] = k]
    BY <1>2, <1>3, <1>5 DEF Dial
  <2> QED BY <1>1, <1>3, <1>4, <2>1, BeginTables
<1>6. CASE DialFails
  <2>1. child' = [child EXCEPT ![k] = "failed"] /\ pid' = pid
    BY <1>2, <1>3, <1>6 DEF DialFails
  <2> QED BY <1>1, <1>3, <1>4, <2>1, BeginTables
<1> QED BY <1>5, <1>6

-----------------------------------------------------------------------------
(* The other steps leave the tables alone. *)

LEMMA RunTables ==
  ASSUME TypeOK, Tables, Busy, Arg.op # "drain", NEW tasks \in Seq(Task), Run(tasks),
         Waitless(tasks), SameBooks, Arg.op = "reap" => child'[Arg.pid] = "reaped"
  PROVE  Tables'
<1>1. Carried(Len(tasks) - 1) /\ Len(tasks) - 1 \in Int
  BY RunCarries, LenProperties
<1>2. KeepsDrains
  BY RunPending DEF KeepsDrains
<1> QED BY <1>1, <1>2, StillTables

LEMMA EnterTables ==
  ASSUME TypeOK, Tables, NEW tasks \in Seq(Task), Enter(tasks), Waitless(tasks), SameBooks
  PROVE  Tables'
<1>1. Carried(Len(tasks)) /\ Len(tasks) \in Int
  BY EnterCarries, LenProperties
<1>2. KeepsDrains
  BY EnterPending DEF KeepsDrains
<1> QED BY <1>1, <1>2, StillTables

LEMMA IdleTables ==
  ASSUME TypeOK, Tables, cont' = cont, SameBooks
  PROVE  Tables'
<1>1. KeepsDrains
  BY DEF KeepsDrains, Pending
<1> QED BY <1>1, IdleCarries, StillTables

LEMMA ProceedTables == TypeOK /\ InLayers /\ Told /\ Tables /\ Proceed /\ Active' => Tables'
<1> SUFFICES ASSUME TypeOK, InLayers, Told, Tables, Proceed, Active' PROVE Tables'
  OBVIOUS
<1>0. Busy /\ Arg \in Task /\ Arg.ch \in Ch
  <2>1. Busy
    BY DEF Proceed, Top, Reset, Unpty, Finish, Wait, Reap, DialRefused, DialFails, Dial,
           StartMux, Sabm, Disc, UihFrame, Input, ReadEof, Halt
  <2> QED BY <2>1, TopTask, TaskFields DEF TypeOK
<1>1. CASE Reset \/ Wait \/ Unpty \/ Dial \/ DialFails
  BY <1>1, ResetTables, WaitTables, UnptyTables, DialTables
<1>2. CASE Finish \/ DialRefused \/ StartMux
  <2>1. Run(<<>>) /\ Arg.op \notin Waits /\ SameBooks
    BY <1>2 DEF Finish, DialRefused, StartMux, Top, Arg, Waits, SameBooks, KeepsFates, procVars
  <2> QED BY <1>0, <2>1, SimpleCalls, SingleInner, RunTables DEF Waits
<1>3. CASE Reap
  <2>1. Run(<<>>) /\ Arg.op = "reap" /\ child[Arg.pid] = "exited" /\ Arg.pid \in Child
    BY <1>0, <1>3, TaskFields DEF Reap, Top, Arg
  <2>2. SameBooks /\ child'[Arg.pid] = "reaped"
    BY <1>3, <2>1 DEF Reap, SameBooks, KeepsFates, TypeOK
  <2> QED BY <1>0, <2>1, <2>2, SimpleCalls, SingleInner, RunTables
<1>4. CASE Sabm \/ Disc
  <2>1. Arg.op \notin Waits /\ SameBooks
    BY <1>4 DEF Sabm, Disc, Top, Arg, Waits, SameBooks, KeepsFates, procVars
  <2>2. Run(<<>>) \/ Run(EventCalls(Arg.ch, TRUE)) \/ Run(EventCalls(Arg.ch, FALSE))
    BY <1>4 DEF Sabm, Disc
  <2> QED BY <1>0, <2>1, <2>2, SimpleCalls, SingleInner, EventCallsType, EventResets,
             ResetsInner, RunTables DEF Waits
<1>5. CASE UihFrame
  <2>1. /\ Arg.op = "uih" /\ Run(UihCalls(Arg.ch, Arg.data)) /\ SameBooks
    BY <1>5 DEF UihFrame, UihCalls, Top, Arg, SameBooks, KeepsFates, procVars
  <2>2. Arg.data \in Payloads
    BY <1>0, <2>1, TaskFields
  <2> QED BY <1>0, <2>1, <2>2, UihCallsType, UihLayered, RunTables
<1>6. CASE Input
  <2>1. Arg.op = "input" /\ Run(InputCalls(Arg.ch, Arg.data)) /\ SameBooks
    BY <1>6 DEF Input, Top, Arg, SameBooks, KeepsFates, procVars
  <2>2. Arg.data \in Payloads
    BY <1>0, <2>1, TaskFields
  <2> QED BY <1>0, <2>1, <2>2, InputCallsType, InputLayered, RunTables
<1>7. CASE ReadEof
  <2>1. Arg.op \notin Waits /\ SameBooks
    BY <1>7 DEF ReadEof, Top, Arg, Waits, SameBooks, KeepsFates, procVars
  <2>2. Run(<<Call("wait", Arg.ch)>>)
    BY <1>7 DEF ReadEof
  <2> QED BY <1>0, <2>1, <2>2, SimpleCalls, SingleInner, RunTables DEF Waits
<1>8. CASE Halt
  BY <1>8 DEF Halt, Active
<1> QED BY <1>1, <1>2, <1>3, <1>4, <1>5, <1>6, <1>7, <1>8 DEF Proceed

LEMMA TablesInit == Init => Descriptors
<1> SUFFICES ASSUME Init PROVE Tables
  BY DEF Descriptors
<1>1. \A i \in Nat, c \in Ch : ~DrainAt(i, c)
  BY EmptySeq DEF Init, DrainAt
<1>2. EachDrains
  BY <1>1 DEF EachDrains
<1>3. polled \subseteq open /\ PtysOpen /\ PipesHeld /\ FailedOpen /\ PipesOpen
  <2>1. \A k \in Child : k # 0
    BY DEF Child
  <2> QED BY <2>1, ChannelAssumption
          DEF Init, PtysOpen, PipesHeld, FailedOpen, PipesOpen, Ch
<1> QED BY <1>2, <1>3 DEF Tables

LEMMA DescriptorsStep ==
  TypeOK /\ Settling /\ Layers /\ Descriptors /\ [Next]_vars => Descriptors'
<1> SUFFICES ASSUME TypeOK, Settling, Layers, Descriptors, [Next]_vars, patient', Active'
             PROVE  Tables'
  BY DEF Descriptors
<1>0. Active /\ patient
  BY PatientStep, PhaseStep DEF Active, Quiet
<1>0a. Told /\ InLayers /\ Tables
  BY <1>0 DEF Settling, Told, Layers, InLayers, Descriptors
<1>1. CASE Proceed
  BY <1>0a, <1>1, ProceedTables
<1>2. CASE DrainEnd
  BY <1>0a, <1>2, DrainTables
<1>3. CASE FlushEnd \/ ReadOutput
  <2>1. Busy /\ Arg.op \notin Waits /\ Run(<<>>) /\ SameBooks
    BY <1>3 DEF FlushEnd, ReadOutput, Top, Arg, Waits, SameBooks, KeepsFates, procVars
  <2> QED BY <1>0a, <2>1, SimpleCalls, SingleInner, RunTables DEF Waits
<1>4. CASE PeerText
  <2>1. PICK p \in Payloads : Enter(InputCalls(0, p))
    BY <1>4 DEF PeerText
  <2>2. SameBooks /\ 0 \in Ch
    BY <1>4, ChannelAssumption DEF PeerText, SameBooks, KeepsFates, procVars, Ch
  <2> QED BY <1>0a, <2>1, <2>2, InputCallsType, InputLayered, EnterTables
<1>5. CASE PeerFrames
  <2>1. PICK n \in Burst : \E fs \in [1..n -> Frame] : Enter(fs)
    BY <1>5 DEF PeerFrames
  <2>2. PICK fs \in [1..n -> Frame] : Enter(fs)
    BY <2>1
  <2>3. SameBooks
    BY <1>5 DEF PeerFrames, SameBooks, KeepsFates, procVars
  <2> QED BY <1>0a, <2>2, <2>3, BurstNat, FramesType, FramesLayered, EnterTables
<1>6. CASE Shutdown
  <2>1. Enter(StopCalls) /\ SameBooks
    BY <1>6 DEF Shutdown, SameBooks, KeepsFates, procVars
  <2>2. Waitless(StopCalls)
    BY StopInOrder DEF Waitless, Waits
  <2> QED BY <1>0a, <2>1, <2>2, StopInOrder, EnterTables
<1>7. CASE Terminated \/ UNCHANGED vars
  <2>1. cont' = cont /\ SameBooks
    BY <1>7 DEF Terminated, vars, SameBooks, KeepsFates, procVars
  <2> QED BY <1>0a, <2>1, IdleTables
<1>8. ASSUME NEW k \in Child, Event(k) \/ ChildExit(k)
      PROVE  Tables'
  <2>1. CASE StdioEof(k) \/ StdioStale(k) \/ PtyEof(k)
    <3>1. home[k] \in Ch
      BY DEF TypeOK
    <3>2. SameBooks /\ (Enter(<<Call("wait", home[k])>>) \/ Enter(<<Call("read", home[k])>>))
      BY <2>1 DEF StdioEof, StdioStale, PtyEof, SameBooks, KeepsFates, procVars
    <3> QED BY <1>0a, <3>1, <3>2, SimpleCalls, SingleInner, EnterTables
  <2>2. CASE PtyStale(k)
    BY <2>2 DEF PtyStale, Active
  <2>3. CASE ChildExit(k)
    <3>1. cont' = cont /\ SameBooks
      BY <2>3 DEF ChildExit, SameBooks, KeepsFates, TypeOK
    <3> QED BY <1>0a, <3>1, IdleTables
  <2> QED BY <1>8, <2>1, <2>2, <2>3 DEF Event
<1>9. ~DrainStray
  BY DEF DrainStray, Active
<1> QED BY <1>1, <1>2, <1>3, <1>4, <1>5, <1>6, <1>7, <1>8, <1>9 DEF Next, Step, Peer

(* The engine blocks in a read() only where a ready pipe of a failed spawn  *)
(* led to the handle of another call: no other pipe stays open when its     *)
(* handle is overwritten.                                                   *)
LEMMA ReadingStep ==
  TypeOK /\ Layers /\ Descriptors /\ Reading /\ [Next]_vars => Reading'
<1> SUFFICES ASSUME TypeOK, Layers, Descriptors, Reading, [Next]_vars,
                    patient', Active', Top("read")'
             PROVE  FailedOn(Arg.ch)'
  BY DEF Reading
<1>1. patient /\ Active /\ Tables
  <2>1. patient /\ TypeOK /\ [Next]_vars
    BY PatientStep
  <2>2. Active
    BY PhaseStep DEF Active, Quiet
  <2> QED BY <2>1, <2>2 DEF Descriptors
<1>2. ReadBegins /\ TypeOK'
  BY LayersFollow, TypeStep
<1>3. ~NoRead'
  <2>1. cont' \in Seq(Task) /\ cont' # <<>> /\ Head(cont').op = "read"
    BY <1>2 DEF TypeOK, Top, Busy
  <2>2. Head(cont') = cont'[1] /\ Len(cont') \in Nat \ {0}
    BY <2>1, HeadTailProperties, LenProperties, EmptySeq
  <2> QED BY <2>1, <2>2 DEF NoRead
<1>4. ASSUME NEW k \in Child, StdioStale(k)
      PROVE  FailedOn(Arg.ch)'
  <2>1. /\ Stdio(k) \in polled /\ pipes[home[k]] # k /\ Enter(<<Call("read", home[k])>>)
        /\ child' = child /\ home' = home /\ pipes' = pipes /\ polled' = polled
    BY <1>4 DEF StdioStale, procVars
  <2>2. child[k] = "failed"
    BY <1>1, <2>1 DEF Tables, PipesHeld
  <2>3. Arg' = Call("read", home[k])
    <3>1. home[k] \in Ch /\ Busy'
      BY DEF TypeOK, Top
    <3>2. <<Call("read", home[k])>> \in Seq(Task)
      BY <3>1, SimpleCalls
    <3> QED BY <2>1, <3>1, <3>2, EnterNext
  <2>4. Arg'.ch = home[k]
    BY <2>3 DEF Call
  <2> QED BY <2>1, <2>2, <2>4 DEF FailedOn, Failed
<1>5. ASSUME NEW k \in Child, ChildExit(k)
      PROVE  FailedOn(Arg.ch)'
  <2>1. /\ cont' = cont /\ home' = home /\ pipes' = pipes /\ polled' = polled
        /\ \A j \in Child : child[j] = "failed" => child'[j] = "failed"
    BY <1>5 DEF ChildExit, TypeOK
  <2>2. FailedOn(Arg.ch)
    BY <1>1, <2>1 DEF Reading, Top, Arg, Busy
  <2> QED BY <2>1, <2>2 DEF FailedOn, Failed, Arg
<1>6. CASE UNCHANGED vars
  BY <1>1, <1>6 DEF Reading, FailedOn, Failed, Top, Arg, Busy, vars, procVars
<1> QED BY <1>2, <1>3, <1>4, <1>5, <1>6 DEF ReadBegins

-----------------------------------------------------------------------------
(* Channels closed by a SABM. *)

LEMMA RunSticks ==
  ASSUME TypeOK, Busy, Arg.op \notin {"reset", "finish"}, NEW tasks \in Seq(Task), Run(tasks),
         NEW c \in Ch, Sticks(c), ClosesOnly(tasks, c),
         owner'[c] = owner[c], mode'[c] = mode[c]
  PROVE  Sticks(c)'
<1>1. ClosesOnly(cont', c)
  <2>1. \A i \in 1..Len(cont') :
          \/ i \in 1..Len(tasks) /\ cont'[i] = tasks[i]
          \/ i - Len(tasks) + 1 \in 2..Len(cont) /\ cont'[i] = cont[i - Len(tasks) + 1]
    BY RunFrom
  <2>2. 2..Len(cont) \subseteq 1..Len(cont)
    BY ContLength
  <2> QED BY <2>1, <2>2 DEF Sticks, ClosesOnly
<1>2. \A op \in {"reset", "finish"} : Pending(op, c) => Pending(op, c)'
  BY RunPending
<1>3. ~owner[c]
  BY DEF Sticks, AboutToReset, Top, Arg
<1> QED BY <1>1, <1>2, <1>3 DEF Sticks

LEMMA EnterSticks ==
  ASSUME TypeOK, Busy => Arg.op # "reset", NEW tasks \in Seq(Task), Enter(tasks),
         NEW c \in Ch, Sticks(c), ClosesOnly(tasks, c),
         owner'[c] = owner[c], mode'[c] = mode[c]
  PROVE  Sticks(c)'
<1>1. ClosesOnly(cont', c)
  <2>1. \A i \in 1..Len(cont') :
          \/ i \in 1..Len(tasks) /\ cont'[i] = tasks[i]
          \/ i - Len(tasks) \in 1..Len(cont) /\ cont'[i] = cont[i - Len(tasks)]
    BY EnterFrom
  <2> QED BY <2>1 DEF Sticks, ClosesOnly
<1>2. \A op \in {"reset", "finish"} : Pending(op, c) => Pending(op, c)'
  BY EnterPending
<1>3. ~owner[c]
  BY DEF Sticks, AboutToReset, Top, Arg
<1> QED BY <1>1, <1>2, <1>3 DEF Sticks

(* Which calls reset channel c, and to what. *)

LEMMA PlainlyElsewhere ==
  ASSUME NEW c
  PROVE  /\ ClosesOnly(<<>>, c)
         /\ \A d : \A op \in {"wait", "read"} : ClosesOnly(<<Call(op, d)>>, c)
         /\ \A m : ClosesOnly(<<ResetCh(c, "CLOSED")>>, c)
         /\ \A d, m : d # c => ClosesOnly(<<ResetCh(d, m)>>, c)
         /\ \A d, p : ClosesOnly(<<Deliver(d, p)>>, c)
BY DEF ClosesOnly, Call, ResetCh, Deliver

LEMMA ConcatCloses ==
  ASSUME NEW s \in Seq(Task), NEW t \in Seq(Task), NEW c, ClosesOnly(s, c), ClosesOnly(t, c)
  PROVE  ClosesOnly(s \o t, c)
BY ConcatAt DEF ClosesOnly

LEMMA OthersClose == \A c : ClosesOnly([i \in 1..MaxChannel |-> ResetCh(i, "CLOSED")], c)
<1> DEFINE others == [i \in 1..MaxChannel |-> ResetCh(i, "CLOSED")]
<1>1. others \in Seq(Task) /\ Len(others) = MaxChannel
  BY ClosesOthers, ChannelAssumption
<1> QED BY <1>1 DEF ClosesOnly, ResetCh

LEMMA EventCloses ==
  ASSUME NEW d \in Ch, NEW opened \in BOOLEAN, NEW c \in Ch \ {0}, c # d \/ ~opened
  PROVE  ClosesOnly(EventCalls(d, opened), c)
<1>1. CASE d = 0
  <2>1. \A m : ClosesOnly(<<ResetCh(0, m)>>, c)
    BY PlainlyElsewhere
  <2>2. {"CMD", "CMUX"} \subseteq Modes /\ 0 \in Ch
    BY ChannelAssumption DEF Modes, Ch
  <2> QED BY <1>1, <2>1, <2>2, SimpleCalls, ClosesOthers, OthersClose, ConcatCloses
          DEF EventCalls
<1>2. CASE d # 0
  BY <1>2, PlainlyElsewhere DEF EventCalls
<1> QED BY <1>1, <1>2

LEMMA InputCloses ==
  ASSUME NEW d \in Ch, NEW p \in Payloads, NEW c \in Ch, d # c \/ mode[d] # "DATA"
  PROVE  ClosesOnly(InputCalls(d, p), c)
<1>1. CASE mode[d] = "CMD" /\ p # Escape
  <2>1. Len(p) \in Nat /\ \A i \in 1..Len(p) : p[i] \in Commands
    BY <1>1, LinesAssumption, LenProperties, ElementOfSeq DEF Payloads
  <2>2. \A i \in 1..Len(p) : Call(p[i], d).op \notin {"reset", "finish"}
    BY <2>1 DEF Call, Commands
  <2> QED BY <1>1, <2>1, <2>2 DEF InputCalls, ClosesOnly
<1>2. CASE ~(mode[d] = "CMD" /\ p # Escape)
  BY <1>2, PlainlyElsewhere DEF InputCalls
<1> QED BY <1>1, <1>2

LEMMA StopCloses == \A c \in Ch \ {0} : ClosesOnly(StopCalls, c)
<1> SUFFICES ASSUME NEW c \in Ch \ {0} PROVE ClosesOnly(StopCalls, c)
  OBVIOUS
<1>1. /\ <<ResetCh(0, "CMD"), Call("halt", 0)>> \in Seq(Task)
      /\ ClosesOnly(<<ResetCh(0, "CMD"), Call("halt", 0)>>, c)
  <2>1. ResetCh(0, "CMD") \in Task /\ Call("halt", 0) \in Task
    BY ChannelAssumption DEF ResetCh, Call, Task, Ch, Modes
  <2> QED BY <2>1 DEF ClosesOnly, ResetCh, Call
<1> QED BY <1>1, ClosesOthers, OthersClose, ConcatCloses DEF StopCalls

(* A hang-up of the channel itself, or of another one. *)
LEMMA ResetSticks ==
  ASSUME TypeOK, Reset, NEW c \in Ch, Sticks(c)
  PROVE  Sticks(c)'
<1>1. Busy /\ Arg.op = "reset" /\ Arg \in Task /\ Arg = cont[1] /\ 1 \in 1..Len(cont)
  BY TopTask DEF Reset, Top, Arg, TypeOK
<1>2. PICK d \in Ch : d = Arg.ch
  BY <1>1, TaskFields
<1>3. PICK m \in Modes : m = Arg.to
  BY <1>1, TaskFields
<1>4. d = c => m = "CLOSED"
  BY <1>1, <1>2, <1>3 DEF Sticks, ClosesOnly
<1>5. PICK tasks \in Seq(Task) :
        /\ Run(tasks)
        /\ \A i \in 1..Len(tasks) : tasks[i].op # "reset"
        /\ \A i \in 1..Len(tasks) : tasks[i].op = "finish" => tasks[i].ch = d /\ tasks[i].to = m
        /\ \E i \in 1..Len(tasks) : tasks[i].op = "finish" /\ tasks[i].ch = d
  <2>1. CASE owner[d]
    <3> DEFINE tasks == WaitCalls(d, TRUE) \o HangUp(d, m)
    <3>1. tasks \in Seq(Task) /\ Run(tasks)
      BY <1>2, <1>3, <2>1, WaitCallsType, HangUpType, ConcatProperties DEF Reset, HangUp
    <3>2. CASE pid[d] = 0
      <4>1. Len(tasks) = 2 /\ tasks[1] = Call("unpty", d) /\ tasks[2] = FinishCh(d, m)
        BY <3>2, ResetCallsAre
      <4> HIDE DEF tasks
      <4>2. \A i \in 1..2 : i \in {1, 2}
        OBVIOUS
      <4>3. /\ tasks[1].op = "unpty" /\ tasks[2].op = "finish"
            /\ tasks[2].ch = d /\ tasks[2].to = m
        BY <4>1 DEF Call, FinishCh
      <4>4. \A i \in 1..Len(tasks) :
              tasks[i].op # "reset" /\ (tasks[i].op = "finish" => i = 2)
        BY <4>1, <4>2, <4>3
      <4>5. 2 \in 1..Len(tasks)
        BY <4>1
      <4> QED BY <3>1, <4>3, <4>4, <4>5
    <3>3. CASE pid[d] # 0
      <4>1. /\ Len(tasks) = 5 /\ tasks[1] = Call("flush", d) /\ tasks[2] = ReapCh(d, pid[d])
            /\ tasks[3] = Call("drain", d) /\ tasks[4] = Call("unpty", d)
            /\ tasks[5] = FinishCh(d, m)
        BY <3>3, ResetCallsAre
      <4> HIDE DEF tasks
      <4>2. \A i \in 1..5 : i \in {1, 2, 3, 4, 5}
        OBVIOUS
      <4>3. /\ tasks[1].op = "flush" /\ tasks[2].op = "reap" /\ tasks[3].op = "drain"
            /\ tasks[4].op = "unpty" /\ tasks[5].op = "finish"
            /\ tasks[5].ch = d /\ tasks[5].to = m
        BY <4>1 DEF Call, ReapCh, FinishCh
      <4>4. \A i \in 1..Len(tasks) :
              tasks[i].op # "reset" /\ (tasks[i].op = "finish" => i = 5)
        BY <4>1, <4>2, <4>3
      <4>5. 5 \in 1..Len(tasks)
        BY <4>1
      <4> QED BY <3>1, <4>3, <4>4, <4>5
    <3> QED BY <3>2, <3>3
  <2>2. CASE ~owner[d]
    <3> DEFINE tasks == <<FinishCh(d, m)>>
    <3>1. Run(tasks) /\ tasks \in Seq(Task)
      BY <1>2, <1>3, <2>2, HangUpType DEF Reset, FinishCh
    <3>2. Len(tasks) = 1 /\ tasks[1] = FinishCh(d, m)
      OBVIOUS
    <3> HIDE DEF tasks
    <3>3. tasks[1].op = "finish" /\ tasks[1].ch = d /\ tasks[1].to = m
      BY <3>2 DEF FinishCh
    <3>4. \A i \in 1..1 : i = 1
      OBVIOUS
    <3> QED BY <3>1, <3>2, <3>3, <3>4
  <2> QED BY <2>1, <2>2
<1>6. ClosesOnly(tasks, c)
  BY <1>4, <1>5 DEF ClosesOnly
<1>7. ClosesOnly(cont', c)
  <2>1. \A i \in 1..Len(cont') :
          \/ i \in 1..Len(tasks) /\ cont'[i] = tasks[i]
          \/ i - Len(tasks) + 1 \in 2..Len(cont) /\ cont'[i] = cont[i - Len(tasks) + 1]
    BY <1>1, <1>5, RunFrom
  <2>2. 2..Len(cont) \subseteq 1..Len(cont)
    BY ContLength
  <2> QED BY <1>6, <2>1, <2>2 DEF Sticks, ClosesOnly
<1>8. mode' = mode
  BY DEF Reset
<1>9. ~owner'[c]
  <2>1. CASE c = d
    BY <1>2, <2>1 DEF Reset, TypeOK
  <2>2. CASE c # d
    <3>1. ~owner[c]
      BY <1>2, <2>2 DEF Sticks, AboutToReset
    <3> QED BY <1>2, <2>2, <3>1 DEF Reset, TypeOK
  <2> QED BY <2>1, <2>2
<1>10. mode[c] = "CLOSED" \/ Pending("reset", c)' \/ Pending("finish", c)'
  <2>1. Pending("finish", c) => Pending("finish", c)'
    BY <1>1, <1>5, RunPending
  <2>2. c = d => Pending("finish", c)'
    BY <1>1, <1>5, RunPending
  <2>3. c # d => (Pending("reset", c) => Pending("reset", c)')
    BY <1>1, <1>2, <1>5, RunPending
  <2> QED BY <2>1, <2>2, <2>3 DEF Sticks
<1> QED BY <1>7, <1>8, <1>9, <1>10 DEF Sticks

LEMMA FinishSticks ==
  ASSUME TypeOK, Finish, NEW c \in Ch, Sticks(c)
  PROVE  Sticks(c)'
<1>1. Busy /\ Arg.op = "finish" /\ Arg \in Task /\ Arg = cont[1] /\ 1 \in 1..Len(cont)
      /\ Run(<<>>)
  BY TopTask DEF Finish, Top, Arg, TypeOK
<1>2. ClosesOnly(cont', c)
  <2>1. PICK tasks \in Seq(Task) : tasks = <<>> /\ Len(tasks) = 0 /\ Run(tasks)
    BY <1>1, EmptyOrderly
  <2>2. \A i \in 1..Len(cont') :
          \/ i \in 1..Len(tasks)
          \/ i - Len(tasks) + 1 \in 2..Len(cont) /\ cont'[i] = cont[i - Len(tasks) + 1]
    BY <1>1, <2>1, RunFrom
  <2>3. 2..Len(cont) \subseteq 1..Len(cont) /\ \A i \in 1..Len(tasks) : FALSE
    BY <2>1, ContLength
  <2> QED BY <2>2, <2>3 DEF Sticks, ClosesOnly
<1>3. owner' = owner /\ ~owner[c]
  BY <1>1 DEF Finish, procVars, Sticks, AboutToReset, Top, Arg
<1>4. CASE Arg.ch = c
  <2>1. Arg.to = "CLOSED"
    BY <1>1, <1>4 DEF Sticks, ClosesOnly
  <2>2. mode'[c] = "CLOSED"
    BY <1>4, <2>1 DEF Finish, TypeOK
  <2> QED BY <1>2, <1>3, <2>2 DEF Sticks
<1>5. CASE Arg.ch # c
  <2>1. mode'[c] = mode[c]
    BY <1>5 DEF Finish, TypeOK
  <2>2. \A op \in {"reset", "finish"} : Pending(op, c) => Pending(op, c)'
    BY <1>1, <1>5, EmptyOrderly, RunPending
  <2> QED BY <1>2, <1>3, <2>1, <2>2 DEF Sticks
<1> QED BY <1>4, <1>5

(* While a command of the peer is next, a closed channel is in no mode but  *)
(* CLOSED.                                                                  *)
LEMMA OuterFindsClosed ==
  ASSUME TypeOK, InLayers, Busy, Arg.op \in Outer, NEW c \in Ch, Sticks(c)
  PROVE  mode[c] = "CLOSED"
<1>1. \A op, d : op \notin Outer => ~Pending(op, d)
  BY OuterTop
<1> QED BY <1>1 DEF Sticks, Outer

Closed(c) == chState[c] = "CLOSE"
ClosedStick == \A c \in Ch \ {0} : Closed(c) => Sticks(c)

LEMMA SabmSticks ==
  ASSUME TypeOK, InLayers, Told, ClosedStick, Sabm, NEW c \in Ch \ {0}, Closed(c)'
  PROVE  Sticks(c)'
<1>1. Busy /\ Arg.op = "sabm" /\ Arg \in Task
  BY TopTask DEF Sabm, Top, Arg, TypeOK
<1>2. PICK d \in Ch : d = Arg.ch
  BY <1>1, TaskFields
<1>3. owner' = owner /\ mode' = mode
  BY DEF Sabm, procVars
<1>4. Arg.op \in Outer
  BY <1>1 DEF Outer
<1>5. CASE c # d
  <2>1. Closed(c)
    BY <1>2, <1>5 DEF Sabm, Closed, TypeOK
  <2>2. PICK tasks \in Seq(Task) : Run(tasks) /\ ClosesOnly(tasks, c)
    <3>1. Run(<<>>) \/ Run(EventCalls(d, TRUE)) \/ Run(EventCalls(d, FALSE))
      BY <1>2 DEF Sabm
    <3> QED BY <1>5, <3>1, SimpleCalls, PlainlyElsewhere, EventCallsType, EventCloses
  <2>3. Sticks(c)
    BY <2>1 DEF ClosedStick
  <2> QED BY <1>1, <1>3, <2>2, <2>3, RunSticks
<1>6. CASE c = d
  <2>1. Run(EventCalls(c, FALSE))
    <3>1. chState[c] = "OPEN"
      BY <1>2, <1>6 DEF Sabm, Closed, TypeOK
    <3> QED BY <1>2, <1>6, <3>1 DEF Sabm
  <2>2. PICK tasks \in Seq(Task) : tasks = <<ResetCh(c, "CLOSED")>>
    BY SimpleCalls DEF Modes
  <2>3. Len(tasks) = 1 /\ tasks[1] = ResetCh(c, "CLOSED") /\ tasks # <<>>
    BY <2>2
  <2>4. Run(tasks)
    BY <2>1, <2>2 DEF EventCalls
  (* Nothing below it on the stack hangs up. *)
  <2>5. ClosesOnly(cont', c)
    <3>1. \A i \in 1..Len(cont') :
            \/ i \in 1..Len(tasks) /\ cont'[i] = tasks[i]
            \/ i - Len(tasks) + 1 \in 2..Len(cont) /\ cont'[i] = cont[i - Len(tasks) + 1]
      BY <1>1, <2>4, RunFrom
    <3>2. \A i \in 1..Len(cont) : cont[i].op \in Outer
      BY <1>1, <1>4, OuterTop
    <3>3. 2..Len(cont) \subseteq 1..Len(cont)
      BY ContLength
    <3>4. ClosesOnly(tasks, c)
      BY <2>2, PlainlyElsewhere
    <3> QED BY <3>1, <3>2, <3>3, <3>4 DEF ClosesOnly, Outer
  <2>6. AboutToReset(c)'
    <3>1. cont' \in Seq(Task) /\ Len(cont') # 0 /\ cont'[1] = tasks[1]
      <4>1. 1 \in 1..Len(tasks)
        BY <2>3
      <4> QED BY <1>1, <2>3, <2>4, <4>1, RunFrom
    <3>2. Busy'
      BY <3>1, EmptySeq DEF Busy
    <3>3. Arg' = tasks[1]
      BY <1>1, <2>3, <2>4, <3>2, RunNext
    <3> QED BY <2>3, <3>2, <3>3 DEF AboutToReset, Top, Arg, ResetCh
  <2>7. Pending("reset", c)'
    <3>1. \E i \in 1..Len(tasks) : tasks[i].op = "reset" /\ tasks[i].ch = c
      BY <2>3 DEF ResetCh
    <3> QED BY <1>1, <2>4, <3>1, RunPending
  <2> QED BY <2>5, <2>6, <2>7 DEF Sticks
<1> QED BY <1>5, <1>6

(* Every other step of the thread: what it resets among the closed channels *)
(* it closes.                                                               *)
LEMMA ProceedSticks ==
  ASSUME TypeOK, InLayers, Told, ClosedStick, Proceed, NEW c \in Ch \ {0}, Closed(c)'
  PROVE  Sticks(c)'
<1>0. Busy /\ Arg \in Task /\ Arg.ch \in Ch
  <2>1. Busy
    BY DEF Proceed, Top, Reset, Unpty, Finish, Wait, Reap, DialRefused, DialFails, Dial,
           StartMux, Sabm, Disc, UihFrame, Input, ReadEof, Halt
  <2> QED BY <2>1, TopTask, TaskFields DEF TypeOK
<1>1. CASE Sabm
  BY <1>1, SabmSticks
<1>2. CASE Reset \/ Finish
  <2>1. Closed(c)
    BY <1>2 DEF Reset, Finish, Closed, muxVars
  <2> QED BY <1>2, <2>1, ResetSticks, FinishSticks DEF ClosedStick
<1>3. CASE Unpty \/ Reap \/ DialRefused \/ Halt
  <2>1. Run(<<>>) /\ Arg.op \notin {"reset", "finish"} /\ Closed(c) /\ owner' = owner
    BY <1>3 DEF Unpty, Reap, DialRefused, Halt, Top, Arg, Closed, muxVars, procVars
  <2>2. mode'[c] = mode[c]
    BY <1>3 DEF Unpty, Reap, DialRefused, Halt, TypeOK
  <2> QED BY <1>0, <2>1, <2>2, SimpleCalls, PlainlyElsewhere, RunSticks DEF ClosedStick
<1>4. CASE Wait
  <2>1. /\ Run(WaitCalls(Arg.ch, FALSE)) /\ Arg.op \notin {"reset", "finish"} /\ Closed(c)
        /\ owner' = owner /\ mode' = mode
    BY <1>4 DEF Wait, Top, Arg, Closed, muxVars
  <2>2. ClosesOnly(WaitCalls(Arg.ch, FALSE), c)
    <3> DEFINE tasks == WaitCalls(Arg.ch, FALSE)
    <3>1. /\ pid[Arg.ch] = 0 => tasks = <<>>
          /\ pid[Arg.ch] # 0 => /\ Len(tasks) = 2 /\ tasks[1] = ReapCh(Arg.ch, pid[Arg.ch])
                                /\ tasks[2] = Call("drain", Arg.ch)
      BY <1>0, WaitCallsAre
    <3> HIDE DEF tasks
    <3>2. CASE pid[Arg.ch] = 0
      BY <3>1, <3>2, PlainlyElsewhere DEF tasks
    <3>3. CASE pid[Arg.ch] # 0
      <4>1. tasks[1].op = "reap" /\ tasks[2].op = "drain" /\ Len(tasks) = 2
        BY <3>1, <3>3 DEF ReapCh, Call
      <4>2. \A i \in 1..2 : i \in {1, 2}
        OBVIOUS
      <4>3. ClosesOnly(tasks, c)
        BY <4>1, <4>2 DEF ClosesOnly
      <4> QED BY <4>3 DEF tasks
    <3> QED BY <3>2, <3>3
  <2> QED BY <1>0, <2>1, <2>2, WaitCallsType, RunSticks DEF ClosedStick
<1>5. CASE Dial \/ DialFails
  <2>1. /\ Run(<<>>) /\ Arg.op = "dial" /\ Closed(c) /\ mode[Arg.ch] = "CMD"
        /\ CallBegins(Arg.ch, NextChild)
    BY <1>5 DEF Dial, DialFails, MayDial, Top, Arg, Closed, muxVars
  <2>2. Sticks(c) /\ mode[c] = "CLOSED"
    BY <1>0, <2>1, OuterFindsClosed DEF ClosedStick, Outer
  <2>3. owner'[c] = owner[c] /\ mode'[c] = mode[c]
    BY <2>1, <2>2 DEF CallBegins, TypeOK
  <2> QED BY <1>0, <2>1, <2>2, <2>3, SimpleCalls, PlainlyElsewhere, RunSticks
<1>6. CASE StartMux
  <2>1. Run(<<>>) /\ Arg.op \notin {"reset", "finish"} /\ owner' = owner
    BY <1>6 DEF StartMux, Top, Arg, procVars
  <2>2. Closed(c) /\ mode'[c] = mode[c]
    BY <1>6 DEF StartMux, Closed, muxVars, TypeOK
  <2> QED BY <1>0, <2>1, <2>2, SimpleCalls, PlainlyElsewhere, RunSticks DEF ClosedStick
<1>7. CASE Disc
  <2>1. /\ Run(EventCalls(Arg.ch, FALSE)) /\ Arg.op \notin {"reset", "finish"}
        /\ owner' = owner /\ Closed(c)
    BY <1>7 DEF Disc, Top, Arg, procVars, Closed
  <2>2. mode'[c] = mode[c]
    BY <1>7 DEF Disc, TypeOK
  <2> QED BY <1>0, <2>1, <2>2, EventCallsType, EventCloses, RunSticks DEF ClosedStick
<1>8. CASE UihFrame
  <2>1. /\ Run(UihCalls(Arg.ch, Arg.data)) /\ Arg.op = "uih" /\ owner' = owner /\ mode' = mode
        /\ chState' = [chState EXCEPT ![Arg.ch] = "OPEN"]
    BY <1>8 DEF UihFrame, UihCalls, Top, Arg, procVars
  <2>2. Arg.data \in Payloads
    BY <1>0, <2>1, TaskFields
  <2>3. c # Arg.ch /\ Closed(c)
    BY <1>0, <2>1 DEF Closed, TypeOK
  <2>4. ClosesOnly(UihCalls(Arg.ch, Arg.data), c)
    <3> DEFINE s == IF chState[Arg.ch] # "OPEN" /\ Arg.ch # 0 THEN EventCalls(Arg.ch, TRUE)
                    ELSE <<>>
               t == IF Arg.ch # 0 THEN <<Deliver(Arg.ch, Arg.data)>> ELSE <<>>
    <3>1. s \in Seq(Task) /\ ClosesOnly(s, c)
      BY <1>0, <2>3, EventCallsType, SimpleCalls, PlainlyElsewhere, EventCloses
    <3>2. t \in Seq(Task) /\ ClosesOnly(t, c)
      BY <1>0, <2>2, SimpleCalls, PlainlyElsewhere
    <3> HIDE DEF s, t
    <3>3. ClosesOnly(s \o t, c)
      BY <3>1, <3>2, ConcatCloses
    <3> QED BY <3>3 DEF UihCalls, s, t
  <2> QED BY <1>0, <2>1, <2>2, <2>3, <2>4, UihCallsType, RunSticks DEF ClosedStick
<1>9. CASE Input
  <2>1. /\ Run(InputCalls(Arg.ch, Arg.data)) /\ Arg.op = "input" /\ owner' = owner
        /\ mode' = mode /\ Closed(c)
    BY <1>9 DEF Input, Top, Arg, procVars, Closed, muxVars
  <2>2. Arg.data \in Payloads
    BY <1>0, <2>1, TaskFields
  <2>3. Sticks(c) /\ mode[c] = "CLOSED"
    BY <1>0, <2>1, OuterFindsClosed DEF ClosedStick, Outer
  <2>4. ClosesOnly(InputCalls(Arg.ch, Arg.data), c)
    BY <1>0, <2>2, <2>3, InputCloses
  <2> QED BY <1>0, <2>1, <2>2, <2>3, <2>4, InputCallsType, RunSticks
<1>10. CASE ReadEof
  <2>1. /\ Arg.op \notin {"reset", "finish"} /\ Closed(c) /\ owner' = owner /\ mode' = mode
        /\ Run(<<Call("wait", Arg.ch)>>)
    BY <1>10 DEF ReadEof, Top, Arg, procVars, Closed, muxVars
  <2> QED BY <1>0, <2>1, SimpleCalls, PlainlyElsewhere, RunSticks DEF ClosedStick
<1> QED BY <1>1, <1>2, <1>3, <1>4, <1>5, <1>6, <1>7, <1>8, <1>9, <1>10 DEF Proceed

LEMMA ClosingStep == TypeOK /\ Settling /\ Layers /\ Closing /\ [Next]_vars => Closing'
<1> SUFFICES ASSUME TypeOK, Settling, Layers, Closing, [Next]_vars, patient', Active',
                    NEW c \in Ch \ {0}, Closed(c)'
             PROVE  Sticks(c)'
  BY DEF Closing, Closed
<1>0. Active /\ patient
  BY PatientStep, PhaseStep DEF Active, Quiet
<1>0a. Told /\ InLayers /\ ClosedStick
  BY <1>0 DEF Settling, Told, Layers, InLayers, Closing, ClosedStick, Closed
<1>1. CASE Proceed
  BY <1>0a, <1>1, ProceedSticks
<1>2. CASE FlushEnd \/ DrainEnd \/ ReadOutput
  <2>1. /\ Busy /\ Arg.op \in {"flush", "drain", "read"} /\ Arg.ch \in Ch
        /\ owner' = owner /\ mode' = mode /\ Closed(c)
    BY <1>2, TopTask, TaskFields
       DEF FlushEnd, DrainEnd, ReadOutput, Top, Arg, procVars, Closed, muxVars, TypeOK
  <2>2. Sticks(c)
    BY <1>0a, <2>1 DEF ClosedStick
  <2>3. ~owner[c]
    BY <2>1, <2>2 DEF Sticks, AboutToReset, Top, Arg
  <2>4. Run(<<>>) \/ (Run(<<ResetCh(Arg.ch, "CMD")>>) /\ Arg.ch # c)
    BY <1>2, <2>3 DEF FlushEnd, DrainEnd, ReadOutput
  <2> QED BY <2>1, <2>2, <2>4, SimpleCalls, PlainlyElsewhere, RunSticks DEF Modes
<1>3. CASE PeerText
  <2>1. PICK p \in Payloads : Enter(InputCalls(0, p))
    BY <1>3 DEF PeerText
  <2>2. ~Busy /\ owner' = owner /\ mode' = mode /\ Closed(c) /\ 0 \in Ch
    BY <1>0, <1>3, ChannelAssumption
       DEF PeerText, PeerMaySend, Polling, Quiet, Top, procVars, Closed, muxVars, Ch
  <2> QED BY <1>0a, <2>1, <2>2, InputCallsType, InputCloses, EnterSticks DEF ClosedStick
<1>4. CASE PeerFrames
  <2>1. PICK n \in Burst : \E fs \in [1..n -> Frame] : Enter(fs)
    BY <1>4 DEF PeerFrames
  <2>2. PICK fs \in [1..n -> Frame] : Enter(fs)
    BY <2>1
  <2>3. ~Busy /\ owner' = owner /\ mode' = mode /\ Closed(c)
    BY <1>0, <1>4 DEF PeerFrames, PeerMaySend, Polling, Quiet, Top, procVars, Closed, muxVars
  <2>4. ClosesOnly(fs, c) /\ fs \in Seq(Task)
    <3>1. \A f \in Frame : f.op \notin {"reset", "finish"}
      BY DEF Frame
    <3>2. fs \in Seq(Task) /\ Len(fs) = n
      BY BurstNat, FramesType
    <3> QED BY <3>1, <3>2 DEF ClosesOnly
  <2> QED BY <1>0a, <2>2, <2>3, <2>4, EnterSticks DEF ClosedStick
<1>5. CASE Shutdown
  <2>1. ~Busy /\ Enter(StopCalls) /\ owner' = owner /\ mode' = mode /\ Closed(c)
    BY <1>5 DEF Shutdown, Quiet, procVars, Closed, muxVars
  <2> QED BY <1>0a, <2>1, StopInOrder, StopCloses, EnterSticks DEF ClosedStick
<1>6. CASE Terminated \/ UNCHANGED vars
  <2>1. cont' = cont /\ owner' = owner /\ mode' = mode /\ chState' = chState
    BY <1>6 DEF Terminated, vars, procVars, muxVars
  <2> QED BY <1>0a, <2>1 DEF ClosedStick, Closed, Sticks, ClosesOnly, Pending, AboutToReset,
             Busy, Top, Arg
<1>7. ASSUME NEW k \in Child, Event(k) \/ ChildExit(k)
      PROVE  Sticks(c)'
  <2>1. CASE StdioEof(k) \/ StdioStale(k) \/ PtyEof(k)
    <3>1. home[k] \in Ch
      BY DEF TypeOK
    <3>2. /\ owner' = owner /\ mode' = mode /\ Closed(c) /\ (Busy => Arg.op # "reset")
          /\ Enter(<<Call("wait", home[k])>>) \/ Enter(<<Call("read", home[k])>>)
      BY <2>1 DEF StdioEof, StdioStale, PtyEof, Polling, Quiet, Top, Arg, procVars, Closed,
         muxVars
    <3> QED BY <1>0a, <3>1, <3>2, SimpleCalls, PlainlyElsewhere, EnterSticks DEF ClosedStick
  <2>2. CASE PtyStale(k)
    BY <2>2 DEF PtyStale, Active
  <2>3. CASE ChildExit(k)
    BY <1>0a, <2>3 DEF ChildExit, muxVars, ClosedStick, Closed, Sticks, ClosesOnly, Pending,
       AboutToReset, Busy, Top, Arg
  <2> QED BY <1>7, <2>1, <2>2, <2>3 DEF Event
<1>8. ~DrainStray
  BY DEF DrainStray, Active
<1> QED BY <1>1, <1>2, <1>3, <1>4, <1>5, <1>6, <1>7, <1>8 DEF Next, Step, Peer

-----------------------------------------------------------------------------
(* The stop. *)

(* Once the calls of at_engine_stop() are done nothing is left of a call.   *)
LEMMA HaltLeavesNothing ==
  ASSUME TypeOK, Told, InLayers, Tables, Accounted, Halt,
         \A c \in Ch : owner[c] => Pending("reset", c)
  PROVE  cont' = <<>> /\ Unreaped' = {} /\ polled' \subseteq Leftover'
<1>1. /\ Busy /\ Arg.op = "halt" /\ Arg = cont[1] /\ 1 \in 1..Len(cont) /\ Run(<<>>)
      /\ cont \in Seq(Task)
  BY TopTask DEF Halt, Top, Arg, TypeOK
<1>2. Len(cont) = 1
  BY <1>1 DEF InLayers, HaltsLast
<1>3. \A op, c : op # "halt" => ~Pending(op, c)
  <2>1. \A i \in 1..1 : i = 1
    OBVIOUS
  <2> QED BY <1>1, <1>2, <2>1 DEF Pending
<1>4. cont' = <<>>
  <2>1. /\ cont' \in Seq(Task) /\ Len(cont') = Len(<<>>) + Len(cont) - 1
    BY <1>1, EmptyOrderly, RunIndex
  <2> QED BY <1>2, <2>1, EmptyOrderly, EmptySeq
<1>5. \A c \in Ch : ~owner[c]
  BY <1>3
<1>6. \A c \in Ch : pid[c] = 0 /\ pty[c] = 0
  BY <1>3, <1>5 DEF Told, Channel, CallUp, CallDown
<1>7. Unreaped = {}
  <2>1. \A i \in Nat, k \in Child : ~ReapAt(i, k)
    <3>1. \A i \in 1..1 : i = 1
      OBVIOUS
    <3> QED BY <1>1, <1>2, <3>1 DEF ReapAt
  <2>2. \A k \in Child : k # 0
    BY DEF Child
  <2> QED BY <1>6, <2>1, <2>2 DEF Accounted, Unreaped
<1>8. polled \subseteq Leftover
  <2>1. \A k \in Child : k # 0 /\ home[k] \in Ch
    BY DEF Child, TypeOK
  <2>2. ASSUME NEW k \in Child
        PROVE  Pty(k) \notin polled /\ (Stdio(k) \in polled => child[k] = "failed")
    BY <1>3, <1>6, <2>1 DEF Tables, PtysOpen, PipesHeld
  <2>3. \A t \in Tokens : \E k \in Child : t = Pty(k) \/ t = Stdio(k)
    BY DEF Tokens, Pty, Stdio
  <2> QED BY <2>2, <2>3 DEF TypeOK, Leftover, Failed
<1>9. child' = child /\ polled' = polled
  BY DEF Halt, procVars
<1> QED BY <1>4, <1>7, <1>8, <1>9 DEF Unreaped, Leftover, Failed

AllSettled == /\ TypeOK /\ Accounted /\ Settling /\ Layers /\ Descriptors /\ Reading
              /\ Closing /\ Stopping

(* What the stop has still to reset. *)
ToReset == \A c \in Ch : owner[c] => Pending("reset", c)

LEMMA RunToReset ==
  ASSUME TypeOK, ToReset, Busy, Arg.op # "reset", NEW tasks \in Seq(Task), Run(tasks),
         owner' = owner
  PROVE  ToReset'
BY RunPending DEF ToReset

LEMMA ProceedStops ==
  ASSUME TypeOK, InLayers, phase = "stopping", ToReset, Proceed
  PROVE  ToReset'
<1>0. Busy /\ Arg \in Task /\ Arg.ch \in Ch
  <2>1. Busy
    BY DEF Proceed, Top, Reset, Unpty, Finish, Wait, Reap, DialRefused, DialFails, Dial,
           StartMux, Sabm, Disc, UihFrame, Input, ReadEof, Halt
  <2> QED BY <2>1, TopTask, TaskFields DEF TypeOK
<1>1. Arg.op \notin Outer
  BY <1>0, TopTask DEF InLayers, NoneOuter, TypeOK
<1>2. CASE Reset
  <2>1. Arg.op = "reset"
    BY <1>2 DEF Reset, Top, Arg
  <2>2. PICK tasks \in Seq(Task) : Run(tasks)
    <3>1. Arg.to \in Modes
      BY <1>0, <2>1, TaskFields
    <3>2. /\ WaitCalls(Arg.ch, TRUE) \o HangUp(Arg.ch, Arg.to) \in Seq(Task)
          /\ <<FinishCh(Arg.ch, Arg.to)>> \in Seq(Task)
      BY <1>0, <3>1, WaitCallsType, HangUpType, ConcatProperties DEF FinishCh
    <3> QED BY <1>2, <3>2 DEF Reset, HangUp, FinishCh
  <2>3. ASSUME NEW c \in Ch, owner'[c] PROVE Pending("reset", c)'
    <3>1. c # Arg.ch /\ owner[c]
      BY <1>0, <1>2, <2>3 DEF Reset, TypeOK
    <3> QED BY <1>0, <2>2, <3>1, RunPending DEF ToReset
  <2> QED BY <2>3 DEF ToReset
<1>3. CASE Unpty \/ Finish \/ Reap \/ Halt
  <2>1. Run(<<>>) /\ Arg.op # "reset" /\ owner' = owner
    BY <1>3 DEF Unpty, Finish, Reap, Halt, Top, Arg, procVars
  <2> QED BY <1>0, <2>1, SimpleCalls, RunToReset
<1>4. CASE Wait
  <2>1. Run(WaitCalls(Arg.ch, FALSE)) /\ Arg.op # "reset" /\ owner' = owner
    BY <1>4 DEF Wait, Top, Arg
  <2> QED BY <1>0, <2>1, WaitCallsType, RunToReset
<1>5. CASE ReadEof
  <2>1. /\ Arg.op # "reset" /\ owner' = owner
        /\ Run(<<Call("wait", Arg.ch)>>)
    BY <1>5 DEF ReadEof, Top, Arg, procVars
  <2> QED BY <1>0, <2>1, SimpleCalls, RunToReset
<1>6. ~(DialRefused \/ DialFails \/ Dial \/ StartMux \/ Sabm \/ Disc \/ UihFrame \/ Input)
  BY <1>1 DEF DialRefused, DialFails, Dial, StartMux, Sabm, Disc, UihFrame, Input, Top, Arg,
     Outer
<1> QED BY <1>2, <1>3, <1>4, <1>5, <1>6 DEF Proceed

LEMMA StopResetsAll == \A c \in Ch :
  \E i \in 1..Len(StopCalls) : StopCalls[i].op = "reset" /\ StopCalls[i].ch = c
<1> DEFINE s == [i \in 1..MaxChannel |-> ResetCh(i, "CLOSED")]
           t == <<ResetCh(0, "CMD"), Call("halt", 0)>>
<1>1. s \in Seq(Task) /\ Len(s) = MaxChannel /\ \A i \in 1..MaxChannel : s[i] = ResetCh(i, "CLOSED")
  BY ClosesOthers, ChannelAssumption
<1>2. t \in Seq(Task) /\ Len(t) = 2 /\ t[1] = ResetCh(0, "CMD")
  <2>1. ResetCh(0, "CMD") \in Task /\ Call("halt", 0) \in Task
    BY ChannelAssumption DEF ResetCh, Call, Task, Ch, Modes
  <2> QED BY <2>1
<1>3. StopCalls = s \o t
  BY DEF StopCalls
<1> HIDE DEF s, t
<1>4. /\ Len(StopCalls) = MaxChannel + 2 /\ MaxChannel \in Nat
      /\ \A i \in 1..(MaxChannel + 2) :
           StopCalls[i] = IF i <= MaxChannel THEN s[i] ELSE t[i - MaxChannel]
  <2>1. /\ Len(StopCalls) = Len(s) + Len(t)
        /\ \A i \in 1..(Len(s) + Len(t)) :
             StopCalls[i] = IF i <= Len(s) THEN s[i] ELSE t[i - Len(s)]
    BY <1>1, <1>2, <1>3, ConcatProperties
  <2> QED BY <1>1, <1>2, <2>1, ChannelAssumption
<1>5. ASSUME NEW c \in Ch, c # 0
      PROVE  c \in 1..Len(StopCalls) /\ StopCalls[c] = ResetCh(c, "CLOSED")
  <2>1. c \in 1..MaxChannel /\ c \in 1..(MaxChannel + 2) /\ c <= MaxChannel
    BY <1>4, <1>5 DEF Ch
  <2> QED BY <1>1, <1>4, <2>1
<1>6. MaxChannel + 1 \in 1..Len(StopCalls) /\ StopCalls[MaxChannel + 1] = ResetCh(0, "CMD")
  <2>1. /\ MaxChannel + 1 \in 1..(MaxChannel + 2) /\ ~(MaxChannel + 1 <= MaxChannel)
        /\ (MaxChannel + 1) - MaxChannel = 1
    BY <1>4
  <2> QED BY <1>2, <1>4, <2>1
<1>7. \A d, m : ResetCh(d, m).op = "reset" /\ ResetCh(d, m).ch = d
  BY DEF ResetCh
<1> QED BY <1>5, <1>6, <1>7

LEMMA StoppingStep == AllSettled /\ [Next]_vars => Stopping'
<1> SUFFICES ASSUME AllSettled, [Next]_vars, patient'
             PROVE  /\ phase' = "stopping" => ToReset'
                    /\ phase' = "stopped" => cont' = <<>> /\ Unreaped' = {} /\ polled' \subseteq Leftover'
                    /\ phase' # "crashed"
  BY DEF Stopping, ToReset
<1>0. patient /\ TypeOK /\ Accounted /\ phase # "crashed"
  BY PatientStep DEF AllSettled, Stopping
<1>0a. phase = "stopping" => ToReset
  BY <1>0 DEF AllSettled, Stopping, ToReset
<1>0b. phase = "stopped" => cont = <<>> /\ Unreaped = {} /\ polled \subseteq Leftover
  BY <1>0 DEF AllSettled, Stopping
<1>0c. Active => Told /\ InLayers /\ Tables
  BY <1>0 DEF AllSettled, Settling, Told, Layers, InLayers, Descriptors
<1>0d. Active \/ phase = "stopped"
  BY <1>0 DEF Active, TypeOK
<1>1. CASE Halt
  <2>1. phase' = "stopped" /\ Busy /\ Arg.op = "halt"
    BY <1>1 DEF Halt, Top, Arg
  <2>2. Active /\ phase = "stopping"
    <3>1. Active
      BY <1>0b, <1>0d, <2>1 DEF Busy
    <3>2. phase # "run"
      BY <1>0, <1>0c, <2>1, <3>1, TopTask DEF InLayers, HaltsLast, TypeOK
    <3> QED BY <3>1, <3>2 DEF Active
  <2> QED BY <1>0, <1>0a, <1>0c, <1>1, <2>1, <2>2, HaltLeavesNothing DEF ToReset
<1>2. CASE Proceed /\ ~Halt
  <2>1. Busy /\ phase' = phase
    BY <1>2 DEF Proceed, Top, Reset, Unpty, Finish, Wait, Reap, DialRefused, DialFails, Dial,
       StartMux, Sabm, Disc, UihFrame, Input, ReadEof
  <2>2. Active
    BY <1>0b, <1>0d, <2>1 DEF Busy
  <2> QED BY <1>0, <1>0a, <1>0c, <1>2, <2>1, <2>2, ProceedStops DEF Active
<1>3. CASE FlushEnd \/ DrainEnd \/ ReadOutput
  <2>1. /\ Busy /\ Arg.op # "reset" /\ Arg.ch \in Ch /\ phase' = phase /\ owner' = owner
        /\ Run(<<>>) \/ Run(<<ResetCh(Arg.ch, "CMD")>>)
    BY <1>0, <1>3, TopTask, TaskFields
       DEF FlushEnd, DrainEnd, ReadOutput, Top, Arg, procVars, TypeOK
  <2>2. Active
    BY <1>0b, <1>0d, <2>1 DEF Busy
  <2> QED BY <1>0, <1>0a, <2>1, <2>2, SimpleCalls, RunToReset DEF Active, Modes
<1>4. CASE Peer
  <2>1. phase' = phase /\ phase = "run"
    BY <1>0, <1>4 DEF Peer, PeerText, PeerFrames, PeerMaySend, Polling, Quiet, Top
  <2> QED BY <2>1
<1>5. CASE Shutdown
  <2>1. Enter(StopCalls) /\ phase' = "stopping" /\ ~Busy
    BY <1>5 DEF Shutdown, Quiet
  <2>2. cont' = StopCalls
    BY <2>1, StopInOrder, ConcatEmptySeq DEF Enter, Busy
  <2>3. ToReset'
    BY <2>2, StopResetsAll DEF ToReset, Pending
  <2> QED BY <2>1, <2>3
<1>6. CASE Terminated \/ UNCHANGED vars
  <2>1. cont' = cont /\ phase' = phase /\ owner' = owner /\ child' = child /\ polled' = polled
    BY <1>6 DEF Terminated, vars, procVars
  <2> QED BY <1>0, <1>0a, <1>0b, <2>1 DEF ToReset, Pending, Unreaped, Leftover, Failed
<1>7. ASSUME NEW k \in Child, Event(k) \/ ChildExit(k)
      PROVE  /\ phase' = "stopping" => ToReset'
             /\ phase' = "stopped" => cont' = <<>> /\ Unreaped' = {} /\ polled' \subseteq Leftover'
             /\ phase' # "crashed"
  <2>1. home[k] \in Ch
    BY <1>0 DEF TypeOK
  <2>2. CASE StdioEof(k) \/ StdioStale(k) \/ PtyEof(k)
    <3>1. /\ phase' = phase /\ owner' = owner /\ phase \in {"run", "stopping"}
          /\ Enter(<<Call("wait", home[k])>>) \/ Enter(<<Call("read", home[k])>>)
      BY <2>2 DEF StdioEof, StdioStale, PtyEof, Polling, Quiet, procVars
    <3> QED BY <1>0, <1>0a, <2>1, <3>1, SimpleCalls, EnterPending DEF ToReset
  <2>3. ~PtyStale(k)
    BY <1>0c DEF PtyStale, Polling, Quiet, Active, Tables, PtysOpen
  <2>4. CASE ChildExit(k)
    <3>1. cont' = cont /\ phase' = phase /\ owner' = owner /\ k \in Unreaped
      BY <2>4 DEF ChildExit, Unreaped
    <3> QED BY <1>0, <1>0a, <1>0b, <3>1 DEF ToReset, Pending
  <2> QED BY <1>7, <2>2, <2>3, <2>4 DEF Event
<1>8. ~DrainStray
  <2> SUFFICES ASSUME DrainStray PROVE FALSE
    OBVIOUS
  <2>1. Busy /\ Arg.op = "drain" /\ Arg.ch \in Ch /\ Arg = cont[1] /\ 1 \in 1..Len(cont)
    BY <1>0, TopTask, TaskFields DEF DrainStray, Top, Arg, TypeOK
  <2>2. Tables
    BY <1>0b, <1>0c, <1>0d, <2>1 DEF Busy
  <2>3. DrainAt(1, Arg.ch)
    BY <2>1 DEF DrainAt
  <2> QED BY <2>1, <2>2, <2>3 DEF DrainStray, Tables, EachDrains, Drains
<1> QED BY <1>1, <1>2, <1>3, <1>4, <1>5, <1>6, <1>7, <1>8 DEF Next, Step

LEMMA InitSettled == Init => AllSettled
<1> SUFFICES ASSUME Init PROVE AllSettled
  OBVIOUS
<1>1. TypeOK /\ Accounted /\ Settling /\ Descriptors
  BY TypeInit, AccountInit, ToldInit, TablesInit
<1>2. Layers
  <2>1. Len(cont) = 0
    BY EmptySeq DEF Init
  <2> QED BY <2>1 DEF Layers, Layered, HaltsLast, NoneOuter, ReadsFirst
<1>3. Reading /\ Closing /\ Stopping
  BY DEF Init, Reading, Top, Busy, Closing, Stopping
<1> QED BY <1>1, <1>2, <1>3 DEF AllSettled

LEMMA StepSettled == AllSettled /\ [Next]_vars => AllSettled'
<1> SUFFICES ASSUME AllSettled, [Next]_vars PROVE AllSettled'
  OBVIOUS
<1>1. TypeOK' /\ Accounted' /\ Settling'
  BY TypeStep, AccountStep, ToldStep DEF AllSettled
<1>2. Layers' /\ Descriptors' /\ Reading' /\ Closing' /\ Stopping'
  BY LayersStep, DescriptorsStep, ReadingStep, ClosingStep, StoppingStep DEF AllSettled
<1> QED BY <1>1, <1>2 DEF AllSettled

(* Between handlers the sessions tell which descriptors are open. *)
LEMMA SettledLeaks == AllSettled => OnlyFailedSpawnsLeak
<1> SUFFICES ASSUME AllSettled, patient, Quiet PROVE open = Lasting
  BY DEF OnlyFailedSpawnsLeak
<1>1. Tables /\ SessionConsistent /\ TypeOK /\ Told
  BY SettlingImplies DEF AllSettled, Settling, Told, Descriptors, Active, Quiet
<1>2. \A op, c : ~Pending(op, c)
  BY <1>1, ContLength DEF Quiet, Pending
<1>3. ASSUME NEW k \in Child
      PROVE  /\ k # 0 /\ home[k] \in Ch
             /\ Pty(k) \in open <=> k \in Sessions
             /\ Stdio(k) \in open <=> k \in Sessions \cup Failed
  <2>1. k # 0 /\ home[k] \in Ch
    BY <1>1 DEF TypeOK, Child
  <2>2. k \in Sessions => pty[home[k]] = k
    BY <1>1, <2>1 DEF Sessions, Told, Channel, OwnChild
  <2>3. pty[home[k]] = k => k \in Sessions
    BY <2>1 DEF Sessions
  <2>4. Stdio(k) \in open => k \in Sessions \cup Failed
    <3>1. Stdio(k) \in open => k \in Failed \/ pid[home[k]] = k
      BY <1>1, <1>2 DEF Tables, PipesHeld, Failed
    <3>2. pid[home[k]] = k => pty[home[k]] = k
      BY <1>1, <2>1 DEF Told, Channel, CallUp
    <3> QED BY <2>3, <3>1, <3>2
  <2>5. k \in Sessions => Stdio(k) \in open
    <3>1. pty[home[k]] = k => pid[home[k]] = k \/ child[k] = "failed"
      BY <1>1, <2>1 DEF SessionConsistent, Quiet
    <3> QED BY <1>1, <2>1, <2>2, <3>1 DEF Tables, PipesOpen, FailedOpen
  <2>6. k \in Failed => Stdio(k) \in open
    BY <1>1 DEF Tables, FailedOpen, Failed
  <2> QED BY <1>1, <2>1, <2>2, <2>3, <2>4, <2>5, <2>6 DEF Tables, PtysOpen
<1>4. \A t \in open : \E k \in Child : t = Pty(k) \/ t = Stdio(k)
  BY <1>1 DEF TypeOK, Tokens, Pty, Stdio
<1>5. Sessions \subseteq Child /\ Failed \subseteq Child
  BY <1>1 DEF Sessions, Failed, TypeOK
<1> QED BY <1>3, <1>4, <1>5 DEF Lasting

LEMMA AlwaysSettled == SafeSpec => []AllSettled
BY InitSettled, StepSettled, PTL DEF SafeSpec

(* Between handlers every entry of the poll table is of a call that is up,  *)
(* or of the pipes of a spawn that failed, which no hang-up deregisters.    *)
THEOREM NoHandleStale == SafeSpec => []NoStaleHandles
<1>1. OnlyFailedSpawnsLeak /\ AllSettled => NoStaleHandles
  BY DEF AllSettled, Descriptors, Active, Quiet, Tables, OnlyFailedSpawnsLeak, NoStaleHandles
<1>2. AllSettled => OnlyFailedSpawnsLeak
  BY SettledLeaks
<1> QED BY <1>1, <1>2, AlwaysSettled, PTL

(* Between handlers a descriptor is open because its call is up, or because *)
(* posix_spawnp() failed and no hang-up of that call closes its pipes.      *)
THEOREM LeaksAreFailedSpawns == SafeSpec => []OnlyFailedSpawnsLeak
BY SettledLeaks, AlwaysSettled, PTL

(* When io_spawn_wait() closes pipes they are open, and those of the child  *)
(* it has just waited for.                                                  *)
THEOREM PipesClosedByOwner == SafeSpec => []ClosesItsOwnPipes
<1>1. AllSettled => ClosesItsOwnPipes
  <2> SUFFICES ASSUME AllSettled, patient, Top("drain")
               PROVE  /\ pipes[Arg.ch] # 0 /\ child[pipes[Arg.ch]] = "reaped"
                      /\ Stdio(pipes[Arg.ch]) \in open
    BY DEF ClosesItsOwnPipes
  <2>1. TypeOK /\ Active /\ Tables
    BY DEF AllSettled, Stopping, Descriptors, Active, TypeOK, Top, Busy
  <2>2. PICK c \in Ch : c = Arg.ch /\ DrainAt(1, c)
    BY <2>1, TopTask, TaskFields DEF Top, Arg, DrainAt, TypeOK
  <2>3. pipes[c] # 0 /\ Stdio(pipes[c]) \in open /\ Reaped(1, pipes[c])
    BY <2>1, <2>2 DEF Tables, EachDrains, Drains
  <2>4. \A j \in 1..Len(cont) : ~(j < 1)
    BY <2>1, ContLength
  <2> QED BY <2>2, <2>3, <2>4 DEF Reaped
<1> QED BY <1>1, AlwaysSettled, PTL

(* A channel that a SABM has closed is in mode CLOSED between handlers,     *)
(* whatever hang-ups that SABM caused.                                      *)
THEOREM ClosedChannelsStayClosed == SafeSpec => []CloseSticks
<1>1. AllSettled => CloseSticks
  <2> SUFFICES ASSUME AllSettled, patient, Quiet, NEW c \in Ch \ {0}, chState[c] = "CLOSE"
               PROVE  mode[c] = "CLOSED"
    BY DEF CloseSticks
  <2>1. Sticks(c) /\ TypeOK
    BY DEF AllSettled, Closing, Active, Quiet
  <2>2. \A op, d : ~Pending(op, d)
    BY <2>1, ContLength DEF Quiet, Pending
  <2> QED BY <2>1, <2>2 DEF Sticks
<1> QED BY <1>1, AlwaysSettled, PTL

(* When at_engine_stop() has returned no process is left to wait for, and   *)
(* of the engine's entries in the poll table only the pipes of spawns that  *)
(* failed.                                                                  *)
THEOREM StopsClean == SafeSpec => []StoppedClean
<1>1. AllSettled => StoppedClean
  BY DEF AllSettled, Stopping, StoppedClean, Leftover
<1> QED BY <1>1, AlwaysSettled, PTL

(* No event reaches the handle of a pty that is another's or none's, no     *)
(* drain closes a number that is another's by now, and a blocking read() of *)
(* another call's pipes has a spawn that failed on that channel behind it.  *)
THEOREM EventsNeverAstray == SafeSpec => []NeverAstray
<1>1. AllSettled => NeverAstray
  <2> SUFFICES ASSUME AllSettled, patient
               PROVE  phase # "crashed" /\ (Top("read") => FailedOn(Arg.ch))
    BY DEF NeverAstray
  <2>1. phase # "crashed"
    BY DEF AllSettled, Stopping
  <2>2. Active \/ phase = "stopped"
    BY <2>1 DEF AllSettled, TypeOK, Active
  <2>3. phase = "stopped" => ~Top("read")
    BY DEF AllSettled, Stopping, Top, Busy
  <2> QED BY <2>1, <2>2, <2>3 DEF AllSettled, Reading
<1> QED BY <1>1, AlwaysSettled, PTL
=============================================================================
