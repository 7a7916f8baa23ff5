------------------------------ MODULE EventLoop -----------------------------
(***************************************************************************)
(* The poll table and the select() loop of libs/util/io.c: io_reg_handle(),*)
(* io_dereg_handle() and the descriptor part of io_step_loop().            *)
(*                                                                         *)
(* A pass over the table calls callbacks, and a callback may close its own *)
(* handle, open another one (the kernel gives the lowest free number, often*)
(* the one just closed), or run the loop again (io_spawn_wait()).  `passes'*)
(* is the stack of the passes under way, innermost last; the fd_sets are   *)
(* one static array that all of them share.                                *)
(*                                                                         *)
(* The table has room for the numbers below MAX_FD, and the program uses   *)
(* up numbers: io_tty_open() keeps the slave end of every pty open, and a  *)
(* call opens a pty and six pipe ends (io_spawn_start()) before it closes  *)
(* three of them, registers three and keeps one that is never watched.     *)
(***************************************************************************)
EXTENDS Integers, Sequences, FiniteSets

CONSTANTS
  MaxFd,      \* MAX_FD, the room in the table (32)
  Limit,      \* descriptors are below it (the kernel's limit)
  Handle,     \* the io_handle_t objects of transports, one descriptor each
  Call,       \* the calls that are dialled, with three handles each
  UsbHandle,  \* usb_host_t.input_handle, registered for each one of libusb's
  NoHandle,   \* NULL
  MaxUsb,     \* bound: how many descriptors libusb has at once
  MaxLeaks,   \* bound: how many ptys are opened
  MaxDepth    \* bound: how deep passes nest

Fd == 0..(Limit - 1)
Room == 0..(MaxFd - 1)
CallHandle == Call \X {"out", "err", "pty"}
Owner == Handle \cup CallHandle \cup {UsbHandle}

ASSUME SizeAssumption == MaxFd \in Nat \ {0} /\ Limit \in Nat /\ Limit >= MaxFd
ASSUME BoundAssumption == MaxDepth \in Nat \ {0} /\ MaxLeaks \in Nat /\ MaxUsb \in Nat
ASSUME HandleAssumption ==
  /\ UsbHandle \notin Handle \cup CallHandle /\ NoHandle \notin Owner \cup Call
  /\ Handle \cap CallHandle = {}

VARIABLES
  pollfds,   \* poll_info.pollfds[0..count-1], their descriptors
  handles,   \* poll_info.handles
  maxfd,     \* poll_info.maxfd
  fds,       \* the open descriptors each handle stands for
  stdin,     \* the write end of a call's stdin pipe, which is never registered
  leaked,    \* open descriptors that nothing in the program remembers
  dial,      \* the call that is being dialled, or NoHandle
  held,      \* the descriptors it has opened so far, in that order
  due,       \* its handles that io_reg_handle() has yet to see, each with its number
  late,      \* history: the open numbers given when more than MAX_FD were open at once
  overrun,   \* handles[MAX_FD] was used, which does not exist
  ready,     \* descriptors that select() would report
  bits,      \* fd_sets
  passes     \* the passes of io_step_loop() under way

table == <<pollfds, handles, maxfd, overrun>>
kernel == <<fds, stdin, leaked, late>>
dialling == <<dial, held, due>>
vars == <<table, kernel, dialling, ready, bits, passes>>

Pass == [i : Nat, rc : Nat, busy : BOOLEAN]

TypeOK ==
  /\ pollfds \in Seq(Room)
  /\ handles \in [Room -> Owner \cup {NoHandle}]
  /\ maxfd \in -1..(MaxFd - 1)
  /\ fds \in [Owner -> SUBSET Fd] /\ \A h \in Owner \ {UsbHandle} : Cardinality(fds[h]) <= 1
  /\ stdin \in [Call -> SUBSET Fd] /\ leaked \subseteq Fd /\ late \subseteq Fd
  /\ dial \in Call \cup {NoHandle} /\ held \in Seq(Fd) /\ due \in Seq(CallHandle \X Fd)
  /\ overrun \in BOOLEAN
  /\ ready \subseteq Room /\ bits \subseteq Room
  /\ passes \in Seq(Pass)

Init ==
  /\ pollfds = <<>> /\ handles = [f \in Room |-> NoHandle] /\ maxfd = 0
  /\ fds = [h \in Owner |-> {}] /\ stdin = [c \in Call |-> {}] /\ leaked = {} /\ late = {}
  /\ dial = NoHandle /\ held = <<>> /\ due = <<>> /\ overrun = FALSE
  /\ ready = {} /\ bits = {} /\ passes = <<>>

Last == passes[Len(passes)]
Idle == passes = <<>>
InCallback == ~Idle /\ Last.busy
Scanning   == ~overrun /\ ~Idle /\ ~Last.busy

-----------------------------------------------------------------------------
(* io_reg_handle(): a descriptor that already has a handle is refused, and  *)
(* one beyond the table; the one just beyond it is written past its end,    *)
(* after which the program may do anything. *)
Register(h, f) ==
  IF f \in Room /\ handles[f] = NoHandle
  THEN /\ pollfds' = Append(pollfds, f)
       /\ handles' = [handles EXCEPT ![f] = h]
       /\ maxfd' = IF maxfd < f THEN f ELSE maxfd
       /\ UNCHANGED overrun
  ELSE /\ overrun' = (f = MaxFd)
       /\ UNCHANGED <<pollfds, handles, maxfd>>

(* io_dereg_handle(): the entries behind the removed one move up. *)
Index(f) == {i \in 1..Len(pollfds) : pollfds[i] = f}
FirstOf(S) == CHOOSE i \in S : \A j \in S : i <= j
Without(s, i) == [j \in 1..(Len(s) - 1) |-> IF j < i THEN s[j] ELSE s[j + 1]]

MutantMoveLast(f) ==
  IF Index(f) = {}
  THEN UNCHANGED table
  ELSE LET i == FirstOf(Index(f)) IN
       /\ pollfds' = [j \in 1..(Len(pollfds) - 1) |-> pollfds[j + 1]]
       /\ handles' = [handles EXCEPT ![f] = NoHandle]
       /\ maxfd' = IF maxfd = f THEN maxfd - 1 ELSE maxfd
       /\ UNCHANGED overrun
MutantAlwaysLower(f) ==
  IF Index(f) = {}
  THEN UNCHANGED table
  ELSE /\ pollfds' = Without(pollfds, FirstOf(Index(f)))
       /\ handles' = [handles EXCEPT ![f] = NoHandle]
       /\ maxfd' = maxfd - 1
       /\ UNCHANGED overrun
MutantKeepHandle(f) ==
  IF Index(f) = {}
  THEN UNCHANGED table
  ELSE /\ pollfds' = Without(pollfds, FirstOf(Index(f)))
       /\ maxfd' = IF maxfd = f THEN maxfd - 1 ELSE maxfd
       /\ UNCHANGED <<handles, overrun>>
Deregister(f) ==
  IF Index(f) = {}
  THEN UNCHANGED table
  ELSE /\ pollfds' = Without(pollfds, FirstOf(Index(f)))
       /\ handles' = [handles EXCEPT ![f] = NoHandle]
       /\ maxfd' = IF maxfd = f THEN maxfd - 1 ELSE maxfd
       /\ UNCHANGED overrun

-----------------------------------------------------------------------------
(* The kernel gives the lowest number that is free. *)

Owned == UNION {fds[h] : h \in Owner}
StdinFds == UNION {stdin[c] : c \in Call}
HeldFds == {held[i] : i \in 1..Len(held)}
DueFds == {due[i][2] : i \in 1..Len(due)}
InUse == Owned \cup StdinFds \cup leaked \cup HeldFds \cup DueFds
FreeFds == Fd \ InUse
Dialling == dial # NoHandle \/ due # <<>>
MayAct == ~overrun /\ ~Dialling /\ (Idle \/ InCallback)

(* f is given: with it, are more than MAX_FD numbers open? *)
Lateness(f) == IF Cardinality(InUse \cup {f}) > MaxFd THEN {f} ELSE {}

Obtain(h, f) == fds' = [fds EXCEPT ![h] = @ \cup {f}] /\ Register(h, f)

(* open(), then io_reg_handle(): setup_transport(); libusb opens a device:  *)
(* on_pollfd_added(). *)
Open(h) ==
  /\ MayAct /\ h \notin CallHandle
  /\ Cardinality(fds[h]) < (IF h = UsbHandle THEN MaxUsb ELSE 1) /\ FreeFds # {}
  /\ LET f == FirstOf(FreeFds) IN Obtain(h, f) /\ late' = late \cup Lateness(f)
  /\ UNCHANGED <<stdin, leaked, dialling, ready, bits, passes>>

(* openpty(): io_tty_open() returns the master and forgets the slave. *)
OpenPty(h) ==
  /\ MayAct /\ h \in Handle /\ fds[h] = {}
  /\ Cardinality(FreeFds) > 1 /\ Cardinality(leaked) < MaxLeaks
  /\ LET f == FirstOf(FreeFds)
         slave == FirstOf(FreeFds \ {f})
         crowd == InUse \cup {f, slave}
     IN /\ Obtain(h, f)
        /\ leaked' = leaked \cup {slave}
        /\ late' = late \cup Lateness(f) \cup (IF Cardinality(crowd) > MaxFd THEN {slave} ELSE {})
  /\ UNCHANGED <<stdin, dialling, ready, bits, passes>>

(* at_engine_start_ppp_server(): ATD in a callback.  Both ends of a pty and *)
(* of three pipes are opened, then the child's ends are closed and what     *)
(* remains is registered: stdout, stderr and, on return, the pty's master.  *)
(* A call whose spawn failed has the same handles; nothing ever closes its  *)
(* pipes, and what a redial then does to the stale entries is AtEngine's:   *)
(* here the redial is another member of Call.  *)
Opened == [pty |-> 1, slave |-> 2, in_read |-> 3, in_write |-> 4,
           out_read |-> 5, out_write |-> 6, err_read |-> 7, err_write |-> 8]
Ends == 8

Dial(c) ==
  /\ MayAct /\ InCallback
  /\ stdin[c] = {} /\ \A k \in {"out", "err", "pty"} : fds[<<c, k>>] = {}
  /\ Cardinality(FreeFds) >= Ends /\ Cardinality(leaked) < MaxLeaks
  /\ dial' = c
  /\ UNCHANGED <<table, kernel, held, due, ready, bits, passes>>

OpenEnd ==
  /\ ~overrun /\ dial # NoHandle /\ Len(held) < Ends /\ FreeFds # {}
  /\ LET f == FirstOf(FreeFds) IN held' = Append(held, f) /\ late' = late \cup Lateness(f)
  /\ UNCHANGED <<table, fds, stdin, leaked, dial, due, ready, bits, passes>>

CloseChildEnds ==
  /\ ~overrun /\ dial # NoHandle /\ Len(held) = Ends
  /\ stdin' = [stdin EXCEPT ![dial] = {held[Opened.in_write]}]
  /\ leaked' = leaked \cup {held[Opened.slave]}
  /\ due' = << <<<<dial, "out">>, held[Opened.out_read]>>,
                <<<<dial, "err">>, held[Opened.err_read]>>,
                <<<<dial, "pty">>, held[Opened.pty]>> >>
  /\ late' = late \ {held[Opened.in_read], held[Opened.out_write], held[Opened.err_write]}
  /\ dial' = NoHandle /\ held' = <<>>
  /\ UNCHANGED <<table, fds, ready, bits, passes>>

RegisterEnd ==
  /\ ~overrun /\ due # <<>>
  /\ Obtain(due[1][1], due[1][2])
  /\ due' = Tail(due)
  /\ UNCHANGED <<stdin, leaked, late, dial, held, ready, bits, passes>>

(* close() with io_dereg_handle(): handle_read_error(), close_transport(),  *)
(* io_spawn_wait() (stdin's end goes before stdout's), reset_channel(),     *)
(* on_pollfd_removed(); what closes several does so one by one. *)
StdinOf(h) == UNION {stdin[c] : c \in {d \in Call : h = <<d, "out">>}}
Close(h) ==
  /\ ~overrun /\ InCallback /\ ~Dialling
  /\ \E f \in fds[h] :
       /\ Deregister(f)
       /\ ready' = ready \ {f}
       /\ fds' = [fds EXCEPT ![h] = @ \ {f}]
       /\ stdin' = [c \in Call |-> IF h = <<c, "out">> THEN {} ELSE stdin[c]]
       /\ late' = late \ ({f} \cup StdinOf(h))
  /\ UNCHANGED <<leaked, dialling, bits, passes>>

(* External: bytes, an error or end of file arrive on an open descriptor;   *)
(* on those beyond the table nothing comes of it. *)
BecomesReady(h) ==
  /\ ~overrun
  /\ \E f \in (fds[h] \cap Room) \ ready : ready' = ready \cup {f}
  /\ UNCHANGED <<table, kernel, dialling, bits, passes>>

-----------------------------------------------------------------------------
(* io_step_loop(): select(), then the scan of the table while rc > 0. *)

MutantBelowMax == {f \in Fd : f < maxfd /\ Index(f) # {}}
Watched == {f \in Fd : f <= maxfd /\ Index(f) # {}}

Select ==
  /\ MayAct /\ Len(passes) < MaxDepth /\ Watched \cap ready # {}
  /\ bits' = Watched \cap ready
  /\ passes' = Append(passes, [i |-> 1, rc |-> Cardinality(bits'), busy |-> FALSE])
  /\ UNCHANGED <<table, kernel, dialling, ready>>

(* select() times out and leaves the fd_sets empty; with an empty table the *)
(* loop only sleeps. *)
TimeOut ==
  /\ MayAct /\ Len(passes) < MaxDepth /\ Watched \cap ready = {}
  /\ bits' = IF pollfds = <<>> THEN bits ELSE {}
  /\ UNCHANGED <<table, kernel, dialling, ready, passes>>

Top(p) == passes' = [passes EXCEPT ![Len(passes)] = p]

(* The entries from i on that select() has reported, as long as rc says     *)
(* that there are any. *)
Found == IF Last.rc = 0 THEN {} ELSE {j \in Last.i..Len(pollfds) : pollfds[j] \in bits}

(* The callback starts with a read(), which takes what was there;           *)
(* on_usb_fd_activity() lets libusb do so on all of its descriptors. *)
Served(f) == IF handles[f] = UsbHandle THEN fds[UsbHandle] ELSE {f}
Dispatch ==
  /\ Scanning /\ Found # {}
  /\ LET i == FirstOf(Found) IN
       /\ Top([i |-> i, rc |-> Last.rc - 1, busy |-> TRUE])
       /\ ready' = ready \ Served(pollfds[i])
  /\ UNCHANGED <<table, kernel, dialling, bits>>

Return ==
  /\ ~overrun /\ InCallback /\ ~Dialling
  /\ Top([Last EXCEPT !.i = @ + 1, !.busy = FALSE])
  /\ UNCHANGED <<table, kernel, dialling, ready, bits>>

(* When no pass is left, the next select() fills the fd_sets anew. *)
EndPass ==
  /\ Scanning /\ Found = {}
  /\ passes' = SubSeq(passes, 1, Len(passes) - 1)
  /\ bits' = IF passes' = <<>> THEN {} ELSE bits
  /\ UNCHANGED <<table, kernel, dialling, ready>>

-----------------------------------------------------------------------------
Loop == Select \/ TimeOut \/ Dispatch \/ Return \/ EndPass
DialStep == OpenEnd \/ CloseChildEnds \/ RegisterEnd
Undefined == overrun /\ UNCHANGED vars
Next ==
  \/ Loop \/ DialStep \/ Undefined
  \/ \E h \in Owner : Open(h) \/ OpenPty(h) \/ Close(h) \/ BecomesReady(h)
  \/ \E c \in Call : Dial(c)

(* The loop itself never stops, and a callback returns after finitely many  *)
(* nested passes (io_step_loop() leaves after its timeout). *)
Fairness ==
  /\ WF_vars(Select /\ Idle) /\ WF_vars(Dispatch) /\ WF_vars(EndPass) /\ WF_vars(DialStep)
  /\ \A d \in 1..MaxDepth : SF_vars(Len(passes) = d /\ Return)

SafeSpec == Init /\ [][Next]_vars
Spec == SafeSpec /\ Fairness

-----------------------------------------------------------------------------
(* The three parts of the table agree, whatever the callbacks open and      *)
(* close: every open descriptor below MAX_FD has exactly one entry, the     *)
(* entry leads to its handle (so that the call through handles[p->fd],      *)
(* which io_step_loop() does not check for NULL, is safe), there are no     *)
(* other entries, and select() is asked about all of them (maxfd, although  *)
(* io_dereg_handle() only ever lowers it by one).                           *)
EntriesDistinct == \A i, j \in 1..Len(pollfds) : pollfds[i] = pollfds[j] => i = j
HandlesMatch == \A f \in Room : \A h \in Owner : handles[f] = h <=> f \in fds[h]
EntriesMatch == \A f \in Room : (\E i \in 1..Len(pollfds) : pollfds[i] = f) <=> handles[f] # NoHandle
WithinMax == \A i \in 1..Len(pollfds) : pollfds[i] <= maxfd
TableConsistent == EntriesDistinct /\ HandlesMatch /\ EntriesMatch /\ WithinMax

(* A descriptor that stays ready and open is dispatched, although a removal *)
(* during a pass makes the scan step over the next entry, a handle reopened *)
(* under the same number uses up rc with its stale bit, and a nested pass   *)
(* overwrites the fd_sets of the outer one: an entry that is stepped over   *)
(* has moved up, and the front of the table is always served.               *)
ReadyServed == \A f \in Room : f \in ready ~> f \notin ready \/ overrun

(* What the missing bound of io_reg_handle() costs, and what it does not:   *)
(* an open handle goes unwatched, or the table is overrun, only through a   *)
(* number that was given when more than MAX_FD were open at once, counting  *)
(* lost slave ends and every pipe end that a call holds while it is dialled *)
(* (the three it closes at once are gone by the time the table suffers).    *)
(* Whatever is given later, when there is room again, is watched.           *)
OpenIsWatched ==
  /\ overrun => MaxFd \in late
  /\ overrun \/ \A h \in Owner : \A f \in fds[h] \ late : Index(f) # {}
=============================================================================
