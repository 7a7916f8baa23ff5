------------------------------ MODULE AtEngine ------------------------------
(***************************************************************************)
(* The AT engine of libs/at/engine.c, the channel control of               *)
(* libs/cmux/cmux.c and the child-process handling of libs/util/spawn.c.   *)
(*                                                                         *)
(* The program is one thread, but io_spawn_wait() runs the event loop      *)
(* again (io_step_loop(30), io_step_loop(10)) from inside a handler, so    *)
(* handlers nest: while one channel is being hung up, other handles - and  *)
(* the peer's input - are dispatched.  `cont' is the control stack of that *)
(* thread, as the sequence of the calls still to make: its head runs next, *)
(* a handler that calls others puts them in front.  A nested event is      *)
(* dispatched exactly when the head is one of the two nested event loops.  *)
(***************************************************************************)
EXTENDS Naturals, Sequences, FiniteSets

CONSTANTS
  MaxChannel,   \* mux channels are 1..MaxChannel (MAX_CHANNEL_COUNT, 4)
  MaxSpawn,     \* bound: how many times posix_spawnp() is called
  WithRoom,     \* the calls whose descriptors are below MAX_FD
  Lines,        \* the command lines the peer types, sequences of Commands
  Patience,     \* the kinds of peer: TRUE waits for answers, FALSE does not
  MaxFrames,    \* bound: frames in one read() from a patient peer
  MaxEager      \* bound: the same from one that sends while handlers run

Ch    == 0..MaxChannel
Child == 1..MaxSpawn
Commands == {"dial", "cmux"}          \* ATD*99# and AT+CMUX=0
Modes == {"CLOSED", "CMD", "CMUX", "DATA"}
Escape == <<"+++">>
Payloads == Lines \cup {Escape}

ASSUME ChannelAssumption == MaxChannel \in Nat /\ MaxSpawn \in Nat
ASSUME RoomAssumption == WithRoom \subseteq Child
ASSUME BurstAssumption == MaxFrames \in Nat /\ MaxEager \in Nat
ASSUME LinesAssumption == Lines \subseteq Seq(Commands)
ASSUME PatienceAssumption == Patience \subseteq BOOLEAN

VARIABLES
  phase,     \* io_run_loop() running, at_engine_stop() running, or returned; or
             \* a descriptor was used that is another's by now ("crashed")
  cont,      \* the calls still to make, innermost first
  mode,      \* at_channel_t.mode
  owner,     \* pppd.usr_data == ch
  pid,       \* pppd.pid (0: none)
  pipes,     \* the child whose stdio pipes are in pppd.pipes (0: none yet)
  live,      \* iop->usr_data != NULL for the stdout and stderr pipes
  pty,       \* the child whose pty is pppd_handle (0: fd == -1)
  muxState,  \* cmux_t.state
  chState,   \* cmux_t.channel_state
  patient,   \* external: does the peer wait for an answer before it sends
  child,     \* each child process, as the kernel sees it
  home,      \* the channel each child was dialled on
  open,      \* descriptors the process has open
  polled     \* descriptors in the poll table

procVars == <<owner, pid, pipes, live, pty, child, home, open, polled>>
muxVars  == <<muxState, chState, patient>>   \* the multiplexer and its peer
vars == <<phase, cont, mode, procVars, muxVars>>

Pty(k)   == <<"pty", k>>
Stdio(k) == <<"stdio", k>>            \* this end of its three pipes
Tokens   == {"pty", "stdio"} \X Child

ResetCh(c, m)  == [op |-> "reset", ch |-> c, to |-> m]
Call(op, c)    == [op |-> op, ch |-> c]
ReapCh(c, k)   == [op |-> "reap", ch |-> c, pid |-> k]
Deliver(c, p)  == [op |-> "input", ch |-> c, data |-> p]
Uih(c, p)      == [op |-> "uih", ch |-> c, data |-> p]

Frame == [op : {"sabm", "disc"}, ch : Ch] \cup [op : {"uih"}, ch : Ch, data : Payloads]
Task  == Frame
         \cup [op : {"reset", "finish"}, ch : Ch, to : Modes]
         \cup [op : {"flush", "drain", "unpty", "read", "wait", "halt"} \cup Commands, ch : Ch]
         \cup [op : {"reap"}, ch : Ch, pid : Child]
         \cup [op : {"input"}, ch : Ch, data : Payloads]

TypeOK ==
  /\ phase \in {"run", "stopping", "stopped", "crashed"}
  /\ cont \in Seq(Task)
  /\ mode \in [Ch -> Modes]
  /\ owner \in [Ch -> BOOLEAN] /\ live \in [Ch -> BOOLEAN]
  /\ pid \in [Ch -> Child \cup {0}]
  /\ pipes \in [Ch -> Child \cup {0}]
  /\ pty \in [Ch -> Child \cup {0}]
  /\ muxState \in {"INIT", "OPEN", "CLOSED"}
  /\ chState \in [Ch -> {"UNK", "OPEN", "CLOSE"}]
  /\ patient \in BOOLEAN
  /\ child \in [Child -> {"none", "failed", "running", "killed", "exited", "reaped"}]
  /\ home \in [Child -> Ch]
  /\ open \subseteq Tokens /\ polled \subseteq Tokens

(* at_engine_init() followed by at_engine_start(). *)
Init ==
  /\ phase = "run" /\ cont = <<>>
  /\ mode = [c \in Ch |-> IF c = 0 THEN "CMD" ELSE "CLOSED"]
  /\ owner = [c \in Ch |-> FALSE] /\ live = [c \in Ch |-> FALSE]
  /\ pid = [c \in Ch |-> 0] /\ pipes = [c \in Ch |-> 0] /\ pty = [c \in Ch |-> 0]
  /\ muxState = "INIT" /\ chState = [c \in Ch |-> "UNK"]
  /\ patient \in Patience
  /\ child = [k \in Child |-> "none"] /\ home = [k \in Child |-> 0]
  /\ open = {} /\ polled = {}

-----------------------------------------------------------------------------
(* The control stack.  Top(op) holds when a call to op is the next to run; *)
(* Run(tasks) replaces it by the calls it makes; Enter(tasks) pushes the   *)
(* calls of a handler the (nested) event loop dispatches.                  *)

Busy       == cont # <<>>
Top(op)    == Busy /\ Head(cont).op = op
Arg        == Head(cont)
Run(tasks)   == cont' = tasks \o Tail(cont)
Enter(tasks) == cont' = tasks \o cont

(* No handler is running: the engine waits in its outermost poll. *)
Quiet   == phase = "run" /\ ~Busy
Polling == Quiet \/ (phase \in {"run", "stopping"} /\ (Top("flush") \/ Top("drain")))
PeerMaySend == Polling /\ (patient => ~Busy)
Burst == 1..(IF patient THEN MaxFrames ELSE MaxEager)

-----------------------------------------------------------------------------
(* reset_channel(ch, mode).  usr_data is cleared before io_spawn_wait(), so *)
(* that on_state(SPAWN_STOPPED) does not reset the channel a second time;   *)
(* pid is zeroed before the nested loops, so that nothing waits twice.      *)

MutantDrainBeforeReap(c, stop) ==
  IF pid[c] = 0 THEN <<>> ELSE <<Call("drain", c), ReapCh(c, pid[c])>>
WaitCalls(c, stop) ==
  IF pid[c] = 0 THEN <<>>
  ELSE (IF stop THEN <<Call("flush", c)>> ELSE <<>>)
       \o <<ReapCh(c, pid[c]), Call("drain", c)>>

(* kill(pid, SIGINT) *)
MutantNoKill(k) == child
Interrupt(k) == [j \in Child |-> IF j = k /\ child[j] = "running" THEN "killed" ELSE child[j]]

Reset ==
  /\ Top("reset")
  /\ LET c == Arg.ch IN
     IF owner[c]
     THEN /\ owner' = [owner EXCEPT ![c] = FALSE]
          /\ pid' = [pid EXCEPT ![c] = 0]
          /\ child' = Interrupt(pid[c])
          /\ Run(WaitCalls(c, TRUE)
                 \o <<Call("unpty", c), [op |-> "finish", ch |-> c, to |-> Arg.to]>>)
     ELSE /\ Run(<<[op |-> "finish", ch |-> c, to |-> Arg.to]>>)
          /\ UNCHANGED <<owner, pid, child>>
  /\ UNCHANGED <<phase, mode, pipes, live, pty, home, open, polled, muxVars>>

(* Deregister and close whatever pppd_handle holds by now. *)
MutantUnptyNoClose ==
  /\ Top("unpty")
  /\ polled' = polled \ {Pty(pty[Arg.ch])}
  /\ pty' = [pty EXCEPT ![Arg.ch] = 0]
  /\ Run(<<>>)
  /\ UNCHANGED <<phase, mode, owner, pid, pipes, live, child, home, open, muxVars>>
MutantUnptyNoDereg ==
  /\ Top("unpty")
  /\ open' = open \ {Pty(pty[Arg.ch])} /\ pty' = [pty EXCEPT ![Arg.ch] = 0]
  /\ Run(<<>>)
  /\ UNCHANGED <<phase, mode, owner, pid, pipes, live, child, home, polled, muxVars>>
MutantUnptyKeepsHandle ==
  /\ Top("unpty")
  /\ polled' = polled \ {Pty(pty[Arg.ch])} /\ open' = open \ {Pty(pty[Arg.ch])}
  /\ Run(<<>>)
  /\ UNCHANGED <<phase, mode, owner, pid, pipes, live, pty, child, home, muxVars>>
Unpty ==
  /\ Top("unpty")
  /\ open' = open \ {Pty(pty[Arg.ch])} /\ polled' = polled \ {Pty(pty[Arg.ch])}
  /\ pty' = [pty EXCEPT ![Arg.ch] = 0]
  /\ Run(<<>>)
  /\ UNCHANGED <<phase, mode, owner, pid, pipes, live, child, home, muxVars>>

(* The rest of reset_channel(): NO CARRIER when in DATA, then the mode. *)
Finish ==
  /\ Top("finish")
  /\ mode' = [mode EXCEPT ![Arg.ch] = Arg.to]
  /\ Run(<<>>)
  /\ UNCHANGED <<phase, procVars, muxVars>>

(* io_spawn_wait(spawn, false), from end of file on the pty or the pipes. *)
MutantWaitKeepsPid ==
  /\ Top("wait")
  /\ Run(WaitCalls(Arg.ch, FALSE))
  /\ UNCHANGED <<phase, mode, owner, pid, pipes, live, pty, child, home, open, polled, muxVars>>
Wait ==
  /\ Top("wait")
  /\ pid' = [pid EXCEPT ![Arg.ch] = 0]
  /\ Run(WaitCalls(Arg.ch, FALSE))
  /\ UNCHANGED <<phase, mode, owner, pipes, live, pty, child, home, open, polled, muxVars>>

(* io_step_loop(30) runs out of time. *)
FlushEnd ==
  /\ Top("flush")
  /\ Run(<<>>)
  /\ UNCHANGED <<phase, mode, procVars, muxVars>>

(* waitpid() blocks the whole engine until this child has exited. *)
Reap ==
  /\ Top("reap") /\ child[Arg.pid] = "exited"
  /\ child' = [child EXCEPT ![Arg.pid] = "reaped"]
  /\ Run(<<>>)
  /\ UNCHANGED <<phase, mode, owner, pid, pipes, live, pty, home, open, polled, muxVars>>

(* io_step_loop(10) runs out of time; io_spawn_wait() then closes whatever  *)
(* pipes the channel holds by now and reports SPAWN_STOPPED, on which       *)
(* pppd_on_state() resets the channel if it is (again) owned.  Numbers that *)
(* were closed before may belong to any other descriptor since.             *)
MutantNoDereg(c, gone) == polled
Deregister(c, gone) == IF live[c] THEN polled \ gone ELSE polled
DrainEnd ==
  /\ Top("drain")
  /\ LET c == Arg.ch
         gone == {Stdio(pipes[c])} IN
       /\ open' = open \ gone
       /\ polled' = Deregister(c, gone)
       /\ live' = [live EXCEPT ![c] = FALSE]
       /\ Run(IF owner[c] THEN <<ResetCh(c, "CMD")>> ELSE <<>>)
  /\ UNCHANGED <<phase, mode, owner, pid, pipes, pty, child, home, muxVars>>

DrainStray ==
  /\ Top("drain") /\ Stdio(pipes[Arg.ch]) \notin open
  /\ phase' = "crashed"
  /\ UNCHANGED <<cont, mode, procVars, muxVars>>

-----------------------------------------------------------------------------
(* ATD*99#: at_engine_start_ppp_server() and io_spawn_start(). *)

Free == {k \in Child : child[k] = "none"}
NextChild == CHOOSE k \in Free : TRUE

MayDial(c) == mode[c] = "CMD" /\ pid[c] = 0

(* Not in command mode, or openpty() fails: NO CARRIER, nothing changes. *)
DialRefused ==
  /\ Top("dial")
  /\ Run(<<>>)
  /\ UNCHANGED <<phase, mode, procVars, muxVars>>

(* io_reg_handle() refuses numbers beyond MAX_FD in silence. *)
MutantPolled(k) == {{Pty(k)}}
Registered(k) == {r \in SUBSET {Pty(k), Stdio(k)} : k \in WithRoom => r = {Pty(k), Stdio(k)}}

(* The rest of the dial once io_spawn_start() has returned true: whatever   *)
(* the channel's handles described is overwritten.                          *)
CallBegins(c, k) ==
  /\ home' = [home EXCEPT ![k] = c]
  /\ owner' = [owner EXCEPT ![c] = TRUE]
  /\ pipes' = [pipes EXCEPT ![c] = k] /\ live' = [live EXCEPT ![c] = TRUE]
  /\ pty' = [pty EXCEPT ![c] = k]
  /\ open' = open \cup {Pty(k), Stdio(k)}
  /\ \E r \in Registered(k) : polled' = polled \cup r
  /\ mode' = [mode EXCEPT ![c] = "DATA"]

Dial ==
  /\ Top("dial") /\ MayDial(Arg.ch) /\ Free # {}
  /\ CallBegins(Arg.ch, NextChild)
  /\ child' = [child EXCEPT ![NextChild] = "running"]
  /\ pid' = [pid EXCEPT ![Arg.ch] = NextChild]
  /\ Run(<<>>)
  /\ UNCHANGED <<phase, muxVars>>

(* posix_spawnp() fails, but the result of the call that follows it takes   *)
(* the place of its error: io_spawn_start() returns true, and the channel   *)
(* has a call without a process, on pipes at end of file.                   *)
DialFails ==
  /\ Top("dial") /\ MayDial(Arg.ch) /\ Free # {}
  /\ CallBegins(Arg.ch, NextChild)
  /\ child' = [child EXCEPT ![NextChild] = "failed"]
  /\ Run(<<>>)
  /\ UNCHANGED <<phase, pid, muxVars>>

(* AT+CMUX=0 acts on channel 0 only; on_cmd_line() then clears the whole   *)
(* cmux_t.  It looks neither at the mode nor at a call that is up.         *)
MutantNoMuxInit ==
  /\ Top("cmux")
  /\ mode' = IF Arg.ch = 0 THEN [mode EXCEPT ![0] = "CMUX"] ELSE mode
  /\ muxState' = IF Arg.ch = 0 THEN "PRE_INIT" ELSE muxState
  /\ Run(<<>>)
  /\ UNCHANGED <<phase, chState, patient, procVars>>
StartMux ==
  /\ Top("cmux")
  /\ IF Arg.ch = 0
     THEN /\ mode' = [mode EXCEPT ![0] = "CMUX"]
          /\ muxState' = "INIT" /\ chState' = [c \in Ch |-> "UNK"]
          /\ UNCHANGED patient
     ELSE UNCHANGED <<mode, muxVars>>
  /\ Run(<<>>)
  /\ UNCHANGED <<phase, procVars>>

-----------------------------------------------------------------------------
(* cmux_tp_input(): one received frame.  cmux_on_evt() makes these calls;   *)
(* for channel 0 it sets the mode first and closes every other channel.     *)

MutantOnlyThatChannel(c, opened) ==
  <<ResetCh(c, IF c = 0 THEN (IF opened THEN "CMUX" ELSE "CMD")
               ELSE IF opened THEN "CMD" ELSE "CLOSED")>>
MutantCloseToCommand(c, opened) ==
  <<ResetCh(c, IF c = 0 /\ opened THEN "CMUX" ELSE "CMD")>>
  \o (IF c = 0 THEN [i \in 1..MaxChannel |-> ResetCh(i, "CLOSED")] ELSE <<>>)
EventCalls(c, opened) ==
  IF c = 0
  THEN <<ResetCh(0, IF opened THEN "CMUX" ELSE "CMD")>>
       \o [i \in 1..MaxChannel |-> ResetCh(i, "CLOSED")]
  ELSE <<ResetCh(c, IF opened THEN "CMD" ELSE "CLOSED")>>

(* SABM opens a channel; on an open mux channel it closes it again.  On     *)
(* channel 0 it answers UA unless that channel already counts as open.      *)
Sabm ==
  /\ Top("sabm")
  /\ LET c == Arg.ch IN
     IF chState[c] # "OPEN"
     THEN /\ chState' = [chState EXCEPT ![c] = "OPEN"]
          /\ muxState' = IF c = 0 THEN "OPEN" ELSE muxState
          /\ Run(IF c = 0 THEN <<>> ELSE EventCalls(c, TRUE))
     ELSE /\ chState' = IF c = 0 THEN chState ELSE [chState EXCEPT ![c] = "CLOSE"]
          /\ Run(IF c = 0 THEN <<>> ELSE EventCalls(c, FALSE))
          /\ UNCHANGED muxState
  /\ UNCHANGED <<phase, mode, patient, procVars>>

(* DISC closes without touching channel_state. *)
Disc ==
  /\ Top("disc")
  /\ muxState' = IF Arg.ch = 0 THEN "CLOSED" ELSE muxState
  /\ mode' = IF Arg.ch = 0 THEN [mode EXCEPT ![0] = "CMD"] ELSE mode
  /\ Run(EventCalls(Arg.ch, FALSE))
  /\ UNCHANGED <<phase, chState, patient, procVars>>

(* UI and UIH open the channel they arrive on, then deliver. *)
UihFrame ==
  /\ Top("uih")
  /\ LET c == Arg.ch IN
       /\ chState' = [chState EXCEPT ![c] = "OPEN"]
       /\ Run((IF chState[c] # "OPEN" /\ c # 0 THEN EventCalls(c, TRUE) ELSE <<>>)
              \o (IF c # 0 THEN <<Deliver(c, Arg.data)>> ELSE <<>>))
  /\ UNCHANGED <<phase, mode, muxState, patient, procVars>>

-----------------------------------------------------------------------------
(* at_engine_input() on a channel that is in command or data mode: the      *)
(* commands of a line are run, an escape hangs up, anything else changes    *)
(* no state of this module.                                                 *)
InputCalls(c, p) ==
  IF mode[c] = "CMD" /\ p # Escape
  THEN [i \in 1..Len(p) |-> Call(p[i], c)]
  ELSE IF mode[c] = "DATA" /\ p = Escape THEN <<ResetCh(c, "CMD")>> ELSE <<>>

Input ==
  /\ Top("input")
  /\ Run(InputCalls(Arg.ch, Arg.data))
  /\ UNCHANGED <<phase, mode, procVars, muxVars>>

(* on_ate_input(): the peer's bytes arrive on the transport, channel 0. *)
PeerText ==
  /\ PeerMaySend
  /\ \E p \in Payloads : InputCalls(0, p) # <<>> /\ Enter(InputCalls(0, p))
  /\ UNCHANGED <<phase, mode, procVars, muxVars>>

PeerFrames ==
  /\ PeerMaySend /\ mode[0] = "CMUX"
  /\ \E n \in Burst : \E fs \in [1..n -> Frame] : Enter(fs)
  /\ UNCHANGED <<phase, mode, procVars, muxVars>>

-----------------------------------------------------------------------------
(* Poll-table events.  A table entry leads to the io_handle_t inside the    *)
(* channel, which may by now describe another session than the one whose    *)
(* descriptor is ready.                                                     *)

(* on_stdio() on a ready pipe of child k: read() returns 0 once the child   *)
(* the handle now describes has exited (io_spawn_wait() does nothing while  *)
(* pid is 0, as it is after a spawn that failed).                           *)
StdioEof(k) ==
  /\ Polling /\ Stdio(k) \in polled /\ child[k] # "running"
  /\ LET c == home[k] IN
       /\ live[c] /\ pid[c] # 0
       /\ child[pipes[c]] = "exited"
       /\ Enter(<<Call("wait", c)>>)
  /\ UNCHANGED <<phase, mode, procVars, muxVars>>

(* ... but blocks the engine when the handle describes a child that is      *)
(* still running (pipes are not O_NONBLOCK). *)
StdioStale(k) ==
  /\ Polling /\ Stdio(k) \in polled
  /\ LET c == home[k] IN
       /\ live[c] /\ pipes[c] # k /\ child[pipes[c]] \in {"running", "killed"}
       /\ Enter(<<Call("read", c)>>)
  /\ UNCHANGED <<phase, mode, procVars, muxVars>>

(* The blocked read() returns what the child prints, if it does, or end of  *)
(* file once it has exited. *)
ReadOutput ==
  /\ Top("read") /\ child[pipes[Arg.ch]] \in {"running", "killed"}
  /\ Run(<<>>)
  /\ UNCHANGED <<phase, mode, procVars, muxVars>>

ReadEof ==
  /\ Top("read") /\ child[pipes[Arg.ch]] \notin {"running", "killed"}
  /\ Run(<<Call("wait", Arg.ch)>>)
  /\ UNCHANGED <<phase, mode, procVars, muxVars>>

(* on_pppd_in() sees end of file on the pty, where the system reports one: *)
(* the slave end that io_tty_open() keeps open may hide it. *)
PtyEof(k) ==
  /\ Polling /\ Pty(k) \in polled
  /\ LET c == home[k] IN
       /\ pty[c] = k /\ pid[c] # 0 /\ child[k] = "exited"
       /\ Enter(<<Call("wait", c)>>)
  /\ UNCHANGED <<phase, mode, procVars, muxVars>>

(* A ready pty whose handle was overwritten or cleared: cb is NULL, or      *)
(* read() of another descriptor returns -1, taken as a length. Undefined.   *)
PtyStale(k) ==
  /\ Polling /\ Pty(k) \in polled /\ pty[home[k]] # k
  /\ phase' = "crashed"
  /\ UNCHANGED <<cont, mode, procVars, muxVars>>

(* External: pppd exits, by itself or because of the SIGINT. *)
ChildExit(k) ==
  /\ phase # "crashed" /\ child[k] \in {"running", "killed"}
  /\ child' = [child EXCEPT ![k] = "exited"]
  /\ UNCHANGED <<phase, cont, mode, owner, pid, pipes, live, pty, home, open, polled, muxVars>>

-----------------------------------------------------------------------------
(* The loop has ended (SIGINT, or the transport is gone): main() calls      *)
(* at_engine_stop(). *)
MutantStopMuxOnly == [i \in 1..MaxChannel |-> ResetCh(i, "CLOSED")] \o <<Call("halt", 0)>>
StopCalls == [i \in 1..MaxChannel |-> ResetCh(i, "CLOSED")]
             \o <<ResetCh(0, "CMD"), Call("halt", 0)>>
Shutdown ==
  /\ Quiet
  /\ phase' = "stopping"
  /\ Enter(StopCalls)
  /\ UNCHANGED <<mode, procVars, muxVars>>

Halt ==
  /\ Top("halt")
  /\ mode' = [mode EXCEPT ![0] = "CLOSED"]
  /\ phase' = "stopped"
  /\ Run(<<>>)
  /\ UNCHANGED <<procVars, muxVars>>

Terminated == phase \in {"stopped", "crashed"} /\ UNCHANGED vars

-----------------------------------------------------------------------------
Proceed == Reset \/ Unpty \/ Finish \/ Wait \/ Reap
           \/ DialRefused \/ DialFails \/ Dial \/ StartMux
           \/ Sabm \/ Disc \/ UihFrame \/ Input \/ ReadEof \/ Halt
Step == phase # "crashed" /\ (Proceed \/ FlushEnd \/ DrainEnd \/ DrainStray \/ ReadOutput)
Event(k) == StdioEof(k) \/ StdioStale(k) \/ PtyEof(k) \/ PtyStale(k)
Peer == PeerText \/ PeerFrames

Next == Step \/ Peer \/ Shutdown \/ Terminated \/ \E k \in Child : Event(k) \/ ChildExit(k)

(* The thread never stops of itself; a nested loop leaves after its timeout *)
(* however often it dispatches; a ready handle is dispatched by the next    *)
(* pass over the poll table; pppd exits on SIGINT, but it need not print    *)
(* anything.                                                                *)
Fairness ==
  /\ WF_vars(phase # "crashed" /\ Proceed)
  /\ SF_vars(FlushEnd) /\ SF_vars(DrainEnd)
  /\ \A k \in Child : /\ SF_vars(StdioEof(k))
                      /\ WF_vars(child[k] = "killed" /\ ChildExit(k))

SafeSpec == Init /\ [][Next]_vars
Spec == SafeSpec /\ Fairness

-----------------------------------------------------------------------------
(* Every process that was started and not yet waited for is held in exactly *)
(* one place: as the pid of one channel, or by one pending waitpid() - even *)
(* when handlers nest - so that none is waited for twice (waitpid() would   *)
(* fail or block) and none is left a zombie (io_spawn_wait(), spawn.c).     *)
Unreaped == {k \in Child : child[k] \in {"running", "killed", "exited"}}
HeldBy(k) == {<<"pid", c>> : c \in {c \in Ch : pid[c] = k}}
             \cup {<<"reap", i>> : i \in {i \in 1..Len(cont) : cont[i].op = "reap" /\ cont[i].pid = k}}
ChildAccounted == \A k \in Child :
  IF k \in Unreaped THEN \E h \in HeldBy(k) : HeldBy(k) = {h} ELSE HeldBy(k) = {}

(* When no handler is running, a channel is owned exactly while it has a    *)
(* pty, its process and pipes are those the pty was opened for and are      *)
(* watched (if there was room), and data mode means such a call (mux mode   *)
(* may have one too): reset_channel() and io_spawn_wait() undo all of       *)
(* at_engine_start_ppp_server(), whatever was dialled or closed while they  *)
(* ran.  Only a call whose posix_spawnp() failed has no process.            *)
SessionConsistent == Quiet => \A c \in Ch :
  /\ owner[c] <=> pty[c] # 0
  /\ pid[c] # pty[c] => pid[c] = 0 /\ child[pty[c]] = "failed"
  /\ mode[c] = "DATA" => owner[c]
  /\ owner[c] => /\ pipes[c] = pty[c] /\ live[c]
                 /\ pty[c] \in WithRoom => {Pty(pty[c]), Stdio(pty[c])} \subseteq polled
                 /\ mode[c] = "DATA" \/ (c = 0 /\ mode[c] = "CMUX")

(* The next six are about a peer that waits for the answer to what it has   *)
(* sent, as AT expects it to: one that sends while a handler runs can dial  *)
(* in the middle of a hang-up, and then breaks each of them.                *)

(* When no handler is running the poll table holds nothing but descriptors  *)
(* of the calls that are up and the pipes of spawns that failed, which no   *)
(* hang-up takes out of it again: no other entry leads to a handle that     *)
(* describes another session.                                               *)
Sessions == {pty[c] : c \in Ch} \ {0}
Failed == {k \in Child : child[k] = "failed"}
Lasting == {Pty(k) : k \in Sessions} \cup {Stdio(k) : k \in Sessions \cup Failed}
NoStaleHandles == patient /\ Quiet => polled \subseteq Lasting

(* The descriptors still open when no handler is running are those of a     *)
(* call that is up, or the pipes of a posix_spawnp() that failed, which     *)
(* only the dial closes the child's ends of.                                *)
OnlyFailedSpawnsLeak == patient /\ Quiet => open = Lasting

(* io_spawn_wait() is about to close pipes: they are those of the child it  *)
(* has just waited for, and still open.                                     *)
ClosesItsOwnPipes == patient /\ Top("drain") =>
  LET k == pipes[Arg.ch] IN k # 0 /\ child[k] = "reaped" /\ Stdio(k) \in open

(* A SABM that found the channel open closes it for good: whatever hang-up  *)
(* it causes, the channel ends closed, not in the command mode the nested   *)
(* SPAWN_STOPPED would leave it in.                                         *)
CloseSticks == patient /\ Quiet =>
  \A c \in Ch \ {0} : chState[c] = "CLOSE" => mode[c] = "CLOSED"

(* at_engine_stop() leaves no process behind, and of the poll table only    *)
(* what spawns that failed have put there.                                  *)
StoppedClean == patient /\ phase = "stopped" =>
  Unreaped = {} /\ polled \subseteq {Stdio(k) : k \in Failed}

(* No event is ever dispatched to the zeroed or overwritten handle of a pty *)
(* and no number is closed twice; and the engine blocks in read() on        *)
(* another session's pipe only where a spawn has failed on that channel,    *)
(* whose pipes stay in the table although a redial takes their handles.     *)
FailedOn(c) == \E k \in Failed : home[k] = c /\ pipes[c] # k /\ Stdio(k) \in polled
NeverAstray == patient => /\ phase # "crashed"
                          /\ Top("read") => FailedOn(Arg.ch)

(* Mux channels exist only below a mux: while channel 0 is not in mux mode  *)
(* every other channel is closed and has no call.                           *)
MuxExclusive == Quiet /\ mode[0] # "CMUX" =>
  \A c \in Ch \ {0} : mode[c] = "CLOSED" /\ pid[c] = 0

(* Every handler returns: no hang-up, however it nests, keeps the engine    *)
(* from polling its transports again - unless it is blocked in read() on    *)
(* the pipe of a silent child that an entry left by a failed spawn led to.  *)
Blocked == Top("read") /\ FailedOn(Arg.ch) /\ child[pipes[Arg.ch]] = "running"
HandlersReturn == Busy ~> ~Busy \/ Blocked

(* A pppd that dies by itself ends its call: the channel leaves data mode,  *)
(* if its descriptors found room in the table, and if the engine is not     *)
(* blocked as above, by another call's silence.                             *)
CarrierLossNoticed == \A c \in Ch : \A k \in WithRoom :
  (pid[c] = k /\ child[k] = "exited") ~> (pid[c] # k /\ mode[c] # "DATA") \/ Blocked
=============================================================================
