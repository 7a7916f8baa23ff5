# A verification project for devicesim

devicesim is one single-threaded C program that plays several devices at once:
a GSM modem on a serial line or pseudo terminal (AT commands, PPP calls, a
3GPP 27.010 multiplexer), a GNSS receiver that sends NMEA sentences, and two
bridges from a terminal to a USB device (a Bluetooth adapter, a modem). This
directory holds TLA+ models of it, the TLC configurations that check them, and
TLAPS proofs.

The first part is the inventory of the system, the second describes the modules
and how they correspond to the code, the third what each run checks, the fourth
what is proved, the last what is left out and planned. Paths are relative to
`src/`; `PROJECT.json` maps every definition to the lines it models.

## 1. The system

### Components

| Component | State it keeps | Operations | Talks to |
|---|---|---|---|
| Event loop (`libs/util/io.c`) | poll table `pollfds[]`/`handles[]`/`maxfd`, static `fd_sets`, timer list | `io_reg_handle`, `io_dereg_handle`, `io_step_loop`, `io_write`, timers | calls every other component back; is called again from inside callbacks |
| Child processes (`libs/util/spawn.c`) | `pid`, three pipes with their handles, `usr_data` | `io_spawn_start`, `io_spawn_wait`, `on_stdio` | event loop (nested), AT engine through `on_state` |
| AT engine (`libs/at/engine.c`) | per channel: mode, echo, pppd, pty handle, line reader, `plus_cnt` | input, output, `reset_channel`, `on_cmd_line`, dial, start, stop | multiplexer, child processes, command handlers |
| Multiplexer (`libs/cmux/cmux.c`) | `state`, `channel_state[]`, frame buffer | `cmux_tp_input`, `cmux_ch_input` | engine through `on_event` and `ch_output` |
| Command handlers (`at_cmd.h`, `at_cmd_defs.h`) | `mdm_state` | one handler per command | engine, result codes (`libs/at/resp.c`, `defs.h`) |
| Parsing (`libs/at/param.c`, `libs/util/line_reader.c`) | a partial line | `line_reader_read`, `at_split_args`, `at_cmd_parse` | engine |
| USB host (`libs/usb/`) | hotplug list, per driver `dev`, `devh`, `usr_data`, transfers | hotplug, init, deinit, submit | libusb, drivers, event loop |
| Bluetooth adapter (`libs/devices/hci_usb.c`) | input buffer, `rem_acl_bytes`, `rem_evt_bytes` | input, `on_transfer`, init, deinit | USB host, terminal |
| USB modem (`libs/devices/serial_usb.c`) | endpoints | the same, bytes passed through | USB host, terminal |
| GNSS generator (`libs/nmea/`) | satellites, one cursor per talker, last position | one timer callback a second | terminal |
| Main program (`main.c`) | the transports | wiring, `handle_read_error`, `usb_on_device`, shutdown | all |

There are no tests and no documentation besides the comments and the tables in
the headers.

### What is hard here

The program has no threads, and yet its handlers interleave: `io_spawn_wait`
runs the event loop from inside a handler, twice (`spawn.c:87`, `:91`), and
libusb calls back from inside submits and deinits (`transfer.c`). So state read
before such a call is stale after it, a handler can be entered a second time for
the same channel, and a table is changed while it is being scanned. The other
hard parts are byte streams cut at any place (mux frames, HCI packets), devices
that disappear in the middle of an operation, initialisations that fail half-way,
a cursor that several sentence printers share, and numbers that are wider than
the field they are stored in.

### What makes each part correct

- *Engine and processes*: a hang-up undoes all of a dial and nothing of another
  call; every process is waited for exactly once; a closed channel stays closed;
  no channel outlives its mux; a dead pppd is noticed; the stop ends and leaves
  nothing behind.
- *Event loop*: the parts of the table agree, what is open is watched, and what is
  ready is served. Its timers: the list stays whole, a timer is called when it is
  due and not before, and the loop wakes up for each.
- *Parsing*: lines, commands and parameters are those that were typed, however
  `read()` cuts them; in a call pppd gets every byte that is not an escape.
- *Multiplexer*: one reliable byte stream per channel.
- *USB*: references balance, nothing is freed in flight, a driver that is online
  listens, and lets go of a device that is gone.
- *HCI*: packets arrive unchanged whatever the chunks; each gets its type once.
- *GNSS*: a GSV group is complete and numbered right; the sentences agree.
- *Modem*: SIM, registration and functionality level belong together; every
  command tells the same; a result has the code it is registered with.

`PROJECT.json` lists every hazard at its line with the properties that cover it.

## 2. The modules

### AtEngine

`engine.c`, the control half of `cmux.c` and `spawn.c` in one module, because
their operations call each other. The thread's control stack is the variable
`cont`, a sequence of calls still to make. Its head runs next; a handler that
calls others puts them in front. `flush` and `drain` are the two nested event
loops of `io_spawn_wait`: only while one of them is at the head (or nothing is)
can another handle be dispatched. `Reset` therefore is `reset_channel()` up to
the first nested loop, followed on the stack by `flush`, `reap` (`waitpid`),
`drain` (whose end closes the pipes and reports `SPAWN_STOPPED`), `unpty` and
`finish`, each of which reads the state as it then is, as the code does.

Descriptors are tokens, `<<"pty", k>>` and `<<"stdio", k>>` of the child they were
made for, in two sets: what is `open` and what is `polled`. A token in the poll
table leads to the handle *embedded in the channel*; when that handle meanwhile
describes another session the event is one of the two "stale" ones: a `read()`
that blocks (the task `read`, which ends with what the child prints, `ReadOutput`,
or with its exit, `ReadEof`), or (for a zeroed or overwritten pty handle) undefined
behaviour, modelled as `phase = "crashed"`, as is the closing of a number that was
closed before and may be another's (`DrainStray`). The tokens of a call are polled
if it is in `WithRoom`, the calls whose descriptors are below `MAX_FD`; of the
others `io_reg_handle()` may refuse any, in silence.

A spawn may fail, and the code does not notice: `spawn.c:68` overwrites the error
of `posix_spawnp`. `DialFails` is therefore a dial like any other, into data mode
and with everything registered, but for the process: `pid` stays 0, so that
`io_spawn_wait` returns at once, and a hang-up closes the pty only. The two pipes,
at end of file, stay in the poll table. A redial overwrites their handles, and
from then on each pass over the table may block in a `read()` of the new child's
pipe.

The peer is of one of the kinds in `Patience`:
a `patient` one waits for the final answer to a command and does not send while a
handler is running, the other does; the code does not require the first.
`MCAtEnginePeers` has both kinds in one state space.

### EventLoop

The poll table and the `select()` pass. `passes` is the stack of passes under
way, each with its index, its count `rc` and whether a callback is running. The
descriptor sets are shared by all passes, as the static array is. Callbacks are
arbitrary: they close handles, open others and run a nested pass. The kernel
gives the lowest free number, and so often the one just closed. Numbers go up to
`Limit`, beyond the `MaxFd` that the table has room for, and `OpenPty` loses one
for good, the slave end `io_tty_open()` forgets. A dial (`Dial`) takes eight numbers
one after the other (`OpenEnd`: both ends of a pty, then of three pipes), closes the
three of the child and forgets the slave end (`CloseChildEnds`), and only then
registers what it keeps but for stdin's write end (`RegisterEnd`). `late` is a
history variable: the open numbers that were given when more than `MaxFd` were open
at once. The stale entries of a failed spawn are the subject of `AtEngine`; here its
descriptors are those of a call that nobody hangs up. `UsbHandle` is the one handle
that stands for all descriptors of libusb, which open and close in the middle of
any callback. Writing past the table (`overrun`) ends what the model knows.

### Timers

The rest of `io_step_loop()`: waiting, and the walk over the timer list. A pass
is its start and its timeout on the stack `passes`; handlers run while a pass
waits and callbacks while it walks, and both add and remove timers. The list is
modelled by its pointers (`head`, `nxt`), because what can go wrong is in them:
the walk holds the successor of the timer it calls, which may be unlinked
meanwhile. `since` and `added` are history variables. The numbers are small:
`Width` is what `last_ms` can hold, `Min` and `Default` are the two limits of the
loop's step. The program itself has one timer, that of the GNSS generator, so
that more than one is the contract of the library rather than a state of the
program. One abstraction: what the callback that `io_add_timer()` makes at once
does besides taking time is left out.

### CommandLine and ChannelInput

`CommandLine` has no variables: `at_split_args()`, `at_cmd_parse()` and the walk
of `on_cmd_line()` are operators on sequences of characters. The splitter writes
over the line it reads; `at_split_args` therefore gives the line afterwards, and
`Walk` goes from zero to zero in that, as the code does. `Written` is the
reference: the pieces between delimiters.

`ChannelInput` is `at_engine_input()` of one channel outside the mux. `pipe` is
what the host will still send; every `read()` takes any part of it. In command
mode the chunk goes through the line reader character by character, and a line
may dial; in data mode it is taken whole, with `plus_cnt` counting the pluses
kept back. `Character` is the alphabet, any set that has the characters the
reader looks at. `ending` is a hang-up's nested loop, in which chunks may still come.
AtEngine has the rest of a call; the two share `mode`, `Dial` there being
`StartCall` here.

### CmuxLink and ChannelStreams

`ChannelStreams` is the abstract specification: what is written to a channel
comes out of it, once, in order and eventually. `CmuxLink` is the framing, both
halves, over a line of bytes, and is checked to implement it
(`ImplementsStreams`, with `written` and `read` as the mapping). The width of a
byte is a parameter: with `Base = 12` lengths up to 5 take one byte and longer
ones two, so that all boundaries occur with payloads of seven bytes. The
checksum may be any value, the flag byte included, since the receiver does not
look at it. Receiving byte by byte is receiving in pieces of any size, because
`cmux_t` holds all that is remembered between two reads.

### UsbHost

The life of a device from plug to unplug. A *round* is one call into libusb's
event handling; it takes in the hotplug notices (onto the list), and completes
transfers one at a time. Rounds run on descriptor activity, inside a submit,
inside a deinit, and inside the request for an arrived device's name (`Ask`); only
the first kind is followed by the work on the list. A transfer that has completed
is submitted again, which libusb may refuse, also on a device that is still there:
`on_transfer_complete()` tells nobody, and `refused` remembers it. The
model counts references and opens per device as libusb does, keeps the set of
transfers in flight by wrapper and device, and lets every call of an init fail.
`failed` is a history variable for the devices whose init gave up half-way.

### HciInput, HciOutput and HciBridge

The two directions of the Bluetooth bridge. `HciInput` follows the copy loop and
the `check_again`, `read_again` and `resetRead` labels; sizes are parameters.
`HciOutput` counts what an endpoint's packet still lacks, as `rem_*_bytes` do.
`HciBridge` composes them: its steps are those of one or the other, and
`hci_usb_device_init()` is a step of both. They share no variable besides, so
that their interleavings commute; `direction` keeps one of them idle between two
inits, and every state of either, on its own, is reached.

### NmeaGenerator

A round of `timer_cb()` with one action per sentence. The printers are reduced
to what they do to the cursor and which satellites they name: a GSV sentence its
prns in order, a GSA or QSA sentence the set of places in `sats[]`. Signals
wander as `fetch_loc_info()` lets them. `GroupsComplete` excepts groups whose last
row ends with the last satellite and has places left (`WellSized`): they send one
empty sentence more than they announce. `UsedAgree` speaks of rounds that report
every constellation, and of no more satellites in one than a GSA has fields
(`WholePlan`), as in `main.c`.

### AtCommands

The handlers over `mdm_state`, with a line as a number of commands still to do,
each chosen when its turn comes. Numbers are stored modulo 256 where the field
is a byte. Error values are positions in the lists of `defs.h`, and the code of a
position is looked up as `resp.c` does it. `MCDevices` puts this module and the
receiver into one state space, with one of them at work: they share nothing.

## 3. What the runs check

| Run | Shows | Bounds |
|---|---|---|
| `engine_polite` | `MuxExclusive`, `HandlersReturn` | 2 mux channels, 2 dials, 1 frame per read |
| `engine_redial` | `CarrierLossNoticed` | 1 mux channel, 3 dials, all with room in the table, 1 frame per read, lines with two commands |
| `engine_peers` | `SessionConsistent`, `ChildAccounted` with any peer; `NoStaleHandles`, `OnlyFailedSpawnsLeak`, `ClosesItsOwnPipes`, `CloseSticks`, `StoppedClean`, `NeverAstray` with a patient one | 1 mux channel, 2 dials, the second perhaps without room in the table, 2 frames per read, lines with two commands |
| `event_loop` | `TableConsistent`, `OpenIsWatched`, `ReadyServed` | room for 7 descriptors of 12; either 1 handle and 2 descriptors of libusb in passes two deep, or 1 handle, 1 call, 3 lost ends and 1 descriptor ready at a time |
| `timers` | `ListSound`, `LoopStep`, `NoneOverdue`, `CalledWhenDue` | 3 timers, 5 additions and removals, 8 ticks, passes two deep |
| `at_input` | `LinesAsTyped`, `PppGetsAll`, `CommandsAsWritten` | all lines of 5 characters behind AT, texts of 6 beyond a buffer of 12, calls of 5 bytes |
| `cmux_link` | `GroundState`, `ImplementsStreams` | 3 writes, 2 channels, 5 payloads, frame size 6 |
| `usb_host` | `OnlyFailedInitsLeak`, `NothingFreedInFlight`, `ListensWhileOnline`, `NoGhostDevice`, `UnpluggedGoesOffline` | 2 adapters, 1 modem, writes at any time; on a device still there submits and the search for endpoints fail, on one that is gone any call |
| `hci_bridge` | `PacketsArrive`, `NeverFull`, `TypedOnce` | 3 packets of 5 kinds in, buffer of 15, 3 packets with up to 2 bytes out |
| `devices` | `GroupsComplete`, `UsedAgree`, `GroupsEnd` of the receiver, `RadioState`, `SimTold` of the modem | 2 constellations, signals 0 to 2; commands of every kind, numbers 0, 4, 5, 257, three commands a line |
| `nmea_used` | `AtMostTwelveUsed` is violated | the satellites of `main.c` |
| `at_codes` | `CodesAsDeclared` is violated | `CFUN` and `CRSM` |

Each module's types are checked once: as `TypeOK` or `BridgeTypeOK`, or as the first
part of `ListSound`, `PppGetsAll`, `NothingFreedInFlight`, `UsedAgree` and `RadioState`.

*Why these bounds.* Two dials are what it takes for a second session to meet the
remains of a first, on the same or on another channel; with three, a failed spawn
and the redial that runs into its remains can go on beside a call on the other
channel, whose end must be noticed. One mux channel besides
channel 0 is enough for everything that concerns one channel; `engine_polite` has
two because closing the mux goes over them one by one. `MaxFrames = 2` puts two
frames of a patient peer in one read, the case in which an event's nested loop returns into the
rest of a read; from an impatient peer, who sends between any two calls, single
ones (`MaxEager = 1`) do. `MCEventLoop` has two situations in
one state space, of which one is there from the start (`scene`). In the first one
handle and two descriptors of libusb are open: one can be removed before, at and
behind the place of the scan, and a number be reused. In the second, room for
seven is one less than a dial holds at once, so that with what was lost before, and
what earlier calls left free, a dial may fit but for ends it closes at once, or go
on with stdout's or stderr's end overrunning the table. Passes two deep contain
every way in which a nested pass disturbs an outer one. Of three timers one can be before, one at and one
behind the walk; their intervals (2, 4 and 5 for a unit of 2) have a common
divisor, and one that is no multiple of the unit. In `ChannelInput` the lines
contain every combination of the characters that the parser treats specially, and
the buffer of 12 makes lines end by its limit, with an escape on either side.
In `CmuxLink` the payloads lie around each limit (one byte, the frame size, the
one-byte length). Two adapters of one kind are the least in which a second
device meets the remains of the first; with the modem both drivers share the
list. Of a device still there a submit fails, which leaves transfers in flight
behind, or the search for endpoints; what else an init may fail at is left to devices
that are gone in the middle of it, and to the proofs, which are for any `FailAt`. In the HCI runs the packets include the largest that fits, one that needs
both length bytes, and parameters that look like packet types.

*Fairness.* `AtEngine`: the thread never stops of itself (weak fairness of the
steps that do not wait); a nested loop ends by its timeout however often events
come in between, hence strong fairness for `FlushEnd` and `DrainEnd`; a ready
handle is served (strong fairness of `StdioEof`, which `ReadyServed` of
`EventLoop` establishes for the loop); pppd exits on SIGINT, an assumption about
an external program without which `waitpid` blocks for ever. No fairness is
assumed of the peer, of a pppd that was not signalled, of the pty, or of what pppd
prints: a `read()` that blocks on a silent child blocks (`ReadOutput` is not fair).
`EventLoop`: the loop selects, dispatches and ends its passes (weak fairness), and
callbacks return; strong fairness of `Return` says
that callbacks run finitely many nested passes. `UsbHost`: a pending notice makes
libusb's descriptor ready, and what is begun is finished. `CmuxLink`: what is on
the line is read.

*The two violated properties* are disagreements between the code and what the
repository says: the code for `SIM_NOT_INSERT` (`resp.c:21` fills the CMS table
from the CME list, so the modem answers 98 instead of the 310 of `defs.h:195`),
and the number of satellites in use (`printer.h:79`: "00 - 12", with no limit in
the code and 20 satellites in `main.c`).

*What holds only under a condition.* Some facts that the models showed, and
that no statement in the repository excludes, are conditions of runs or parts of
properties.

- With a peer that does not wait, the stop can leave a running child, and a stale
  poll entry can be dispatched (the properties that need patience say `patient`).
- A line such as `ATD*99#;+CMUX=0` starts the mux below a call, and the end of
  that call puts channel 0 back in command mode while mux channels are open
  (`MuxExclusive` is checked with one command or frame per read; `SessionConsistent`
  says what still holds).
- A spawn that fails is taken for a call. After its hang-up two pipes stay open and
  polled (`Failed` in `NoStaleHandles`, `OnlyFailedSpawnsLeak` and `StoppedClean`);
  after a redial on that channel they can block the engine in `read()` until the new
  child prints something or exits (`Blocked` in `HandlersReturn` and
  `CarrierLossNoticed`, `FailedOn` in `NeverAstray`).
- Every call loses one descriptor, the slave end of its pty, and holds eight while
  it is dialled. When more than `MAX_FD` are open at once, a number given beyond
  the table goes unwatched, and number `MAX_FD` itself overruns it (`late` in
  `OpenIsWatched`; no other number does, because the kernel gives out the lowest
  first). A call without room is only noticed to have ended if it has an entry
  (`WithRoom` in `SessionConsistent` and `CarrierLossNoticed`).
- Past 32 bits of milliseconds a timer fires in every pass (`CalledWhenDue`), and
  a callback that removes the timer behind its own ends the walk there (`walk.cut`).
- What follows the dialling line in the same `read()` is run as command text and
  not sent to pppd (`PppGetsAll` is about what is read in data mode).
- A departure notice taken in by the round of a submit stays on the list until
  libusb has something else to report (`Stranded` in `UnpluggedGoesOffline`).
- A transfer that libusb refuses to take again is not submitted a second time, and
  the driver stays online without it (`refused` in `ListensWhileOnline`).
- A driver whose init failed half-way leaks what it had (`OnlyFailedInitsLeak`
  says that nothing else does; `Healthy` excepts it elsewhere).

## 4. What is proved

TLAPS checks the theorems below for every value of the constants, from the
named assumptions of the modules they extend. `PROJECT.json` lists them with
the property each one states. Each proof module extends the module it is about;
`DevicesProofs` extends the two devices that a terminal sees, which share nothing:

| Proofs | Theorems |
|---|---|
| `AtEngineProofs` | `TypeCorrect`, `ChildrenAccounted`, `SessionsConsistent`; with a patient peer `NoHandleStale`, `LeaksAreFailedSpawns`, `PipesClosedByOwner`, `ClosedChannelsStayClosed`, `StopsClean`, `EventsNeverAstray` |
| `EventLoopProofs` | `TypeCorrect`, `TableAlwaysConsistent`, `WatchedUnlessFull` |
| `TimersProofs` | `ListStaysSound`, `PassLeavesNoneOverdue`, `CallsAreDue`, `LoopStepKept` |
| `ChannelInputProofs` | `NothingKeptFromPppd`, `LinesReadAsTyped`, `CommandsRunAsWritten` |
| `CmuxLinkProofs` | `LinkTyped`, `GroundAtRest`, `LinkIsStreams` |
| `UsbHostProofs` | `ReferencesBalance`, `TransfersEndFirst`, `OnlineListens`, `GhostsLeave` |
| `HciBridgeProofs` | `TypeCorrect`, `InputNeverFull`, `PacketsTypedOnce`, `PacketsDelivered` |
| `DevicesProofs` | of `NmeaGenerator`: `GroupsListAll`, `SentencesAgree`, `RoundsComeToAnEnd`; of `AtCommands`: `ModemTypeCorrect`, `RadioConsistent`, `SimToldAlike` |

Few of the properties are inductive as the runs check them. What had to be added
says why they hold.

**AtEngine, any peer.** The properties speak of moments in which no handler runs,
so the invariants have to say what holds in the middle of one, in terms of the
control stack. `RunIndex` and `EnterIndex` say what the two operations on the
stack do position by position.

- *Children.* That the set of holders of a process is a singleton cannot be
  carried through a step. `Accounted` says it by positions: no two holders name
  one process, each names one not reaped, and every such process has a holder.
  `AccountKept` covers the steps that only shift the stack, `HandOver` the one
  from a channel's `pid` to a pending `waitpid()`.
- *Sessions.* `Settling` adds what a half-done hang-up owes: every `unpty` and
  `finish` on the stack stands directly behind the call it belongs to
  (`Chained`), no hang-up is towards data mode, the channel of the one at the top
  is not owned; and, for each channel, either its call is up, with pty and pipes
  of one child (or of a spawn that failed, and then without a process), or what is left of it belongs to a pending `drain` or `unpty`
  (`Channel`). A redial within a hang-up is the case that needs all of it.

**AtEngine, a patient peer.** `AllSettled` has four more parts. `Layers`: calls
that come from the peer lie below all those of the handler at work, so that
nothing is dialled inside a hang-up. `Tables`: only what is open is polled, and
what is open is the pty of a call that is up, the pipes of its child or of one
pending `drain`, or the pipes of a failed spawn; and each channel has at most one `drain`, which stands behind
the `waitpid()` of the child whose pipes it closes. `Closing`: every hang-up on
the stack of a channel that a SABM has closed leads to `CLOSED`. `Stopping`: while
the stop runs, each channel that is owned has its reset still to come. `Reading`
says that a `read()` that blocks is on a channel with such pipes of a failed spawn,
the only entries whose handles a redial overwrites.

**EventLoop.** The types depend on who holds which number: an end that is still to
be registered must be new to its handle and to the table, and not another's.
`Apart` says so, of the handles among themselves (`HandlesApart`), of the ends of
the dial under way (`HeldApart`), and of those due to be registered (`DueApart`).
`TableConsistent` is inductive together with this; the lemma `WithoutEntry` says what
`io_dereg_handle`'s shift does to positions. `OpenIsWatched` is not: that a number
beyond the table can be given out depends on who has the ones below. `GivenLate`
counts: the lowest free number is `MAX_FD` or more only when all of `Room` is in use,
so that with it more than `MAX_FD` numbers are; `BeyondTable` keeps that every number
in use beyond the table was given late, until it is closed.

**ChannelInput.** `PppGetsAll` is its own inductive invariant, types included.
`LinesAsTyped` needs one thing more: `escaped` is the parity of the run of
backslashes just typed (`EscapedNext`). The rest is `ReaderGoesOn`: what one more
character adds to the text that was kept (`KeptNext`, `EndsExtended`) is what it
adds to the buffer or to the lines (`HandedExtended`).

`CommandsAsWritten` is a property of every line; the induction is over its
characters. Whatever the line holds, `Laid` says that the arguments so far are
strings, one behind the other: no zero in any, and the next one starts behind the
zero of the last, so that the walk of `on_cmd_line()` arrives where they were put
(`Walked`). Without quotes and backslashes, `Pieced` adds which pieces of the line
they are: there is a list of the places where pieces begin, one for each argument;
the argument is copied from there, and ended with its delimiter unless it reaches
to the character read last; no piece is left out unless there is no more room.
At the end of the line that list is the beginning of `InOrder` of all such places
(`InOrderIs`).

**CmuxLink.** The receiver keeps far less than the sender knows. `LinkInv` says
that what is on the line, together with what the receiver has of a frame, is
some sequence of whole frames and noise, and that what these carry for a channel,
behind what was read, is what was written. "Some sequence of frames and noise" is
the least set `Carried` closed under putting either in front; `CarriedBegins` takes
it apart at its beginning, for the receiver, and `NoiseLast` and `FrameLast` extend
it at its end, for the sender. `FrameRead` shows that the receiver, given a
frame's bytes, ends where the sender put the end: with a payload full of
flags, both forms of the length, and any value of the check byte. Because
`Carried` quantifies over all closed sets TLC cannot evaluate it; the run checks
what follows from it. `LinkIsStreams` is the safety part of the refinement: it
maps every initial state, and each step to a step of `ChannelStreams` or a
stutter.

**UsbHost.** `Sound` is one invariant for the four theorems, because they need
each other: references balance only if a driver not online holds a device whose
init failed (`Holding`); a driver listens only if transfers in flight are
its own (`FlightsOwn`, which says when a cancelled one must end) or recorded as
`refused`, which only grows; a driver lets go
only if the notice is still to come or its deinit under way (`NoGhost`).
`Entries` counts by the positions of a list, so that counts over a concatenation
and a tail are lemmas about cardinalities.

**HciBridge.** `NeverFull` depends on what the last check left: `Collecting` says
that the buffer holds the beginning of a packet that is going to fit, with
`BufLen > 8` for the longest header. `TypedOnce` needs that the counters do not
wrap (`OutInv`). `PacketsArrive` speaks of what has arrived; what it needs is what
is still to come. `Behind` says that the packets the host gave are some that are
done, `a`, and some that are not, `b` (`Split`): what was submitted is the payload
of `a`, cut into pieces, and what lies in the window, the chunk and the pipe
together are the bytes of `b`. The steps of reading only move bytes from one
of the three to the next; the check finds at the window's front the bytes of
`b`'s first packet (`FrontPacket`: the type, the length in the header and, if it is
whole, where the packet ends), and `SubmitsJoined` says that the pieces for an endpoint
make up the payload again. When a call returns, nothing whole is left
(`NothingLeft`).

**NmeaGenerator.** The properties speak of groups and rounds that are complete;
`Rounds` says what holds between two sentences. A constellation's GSV sentences are
not begun, or lie in one piece, the i-th of them with the i-th four satellites
(`GroupLaid`). While the group goes on its last sentence is the round's last, and the
cursor stands behind four satellites for each sentence (`ToGoOn`); otherwise the
last row has moved it to the end of the places. `BeforeRow` has from this
where each row begins: that a group is begun once needs that a talker has one
bit in a sentence's mask. A cursor left by a GSA or a round cut short appears
nowhere in `Rounds`, since it is put back. `Told` says which sentences there are
when the mask has been gone through so far, and `Truthful` that their counts and
places are those of the signals, which no sentence changes. `RowsJoined` joins the
rows to the list of satellites.

**AtCommands.** `StatesAgree`, the part of `RadioState` besides the types, is its own
invariant: the cases of `CFUN` set all its fields together by the value the byte
holds. `SimTold` compares any two answers
of a line; what is kept is that those after the last `CFUN` tell the state as it
is now (`ToldNow`).

**Timers.** The list is a sequence without repetitions that `head` and `nxt` lead
along (`Chain`), with what `list_add` and `list_rem` do to it (`ChainAdded`,
`ChainCut`); that `Items` follows it is an induction along the links, and
`ListSound` says the rest. `TimersInv` adds where the walk stands in that sequence
(`Before`): nothing before its place is due. Adding leaves the place alone, or
moves it behind what was added when the walk had already read its end; removing
moves it by at most one, unless the timer removed is the one that comes next,
which is what `walk.cut` records. At a callback the timer called is not the next
one (`WalkSound`), so that taking it out of the list after its call never ends the
walk. `LoopStep` compares what `reset_loop_timeout` computes, one timer after the
other, with the greatest beat of all of them. `Pace` says which beats the step
found so far meets: exactly those that Default and the timers seen so far do, and
1. That one more round keeps it (`NarrowMeets`) needs that every common divisor
divides the greatest one; `GreatestDivides` has it from the least common multiple
(`LeastMultiple`), without Euclid's algorithm.

**Induction over data.** The library's induction theorems take an operator as a
parameter, which the provers cannot instantiate. Where a proof needs one, over a
length or along the recursion of `FlattenSeq` (`FlattenConcat`, `PiecesAre`,
`RowsJoined`), it assumes the set of counterexamples not empty and takes its
least element (`Minimum`, which follows from the well-foundedness of the subset
order on finite sets).

**Assumptions.** They are those of the modules, and weak: among them, there are
finitely many USB devices; the buffer of the line reader is longer than 3 and
that of the bridge longer than 8 bytes; the set of timers is finite, and no
interval is zero; there are finitely many constellations, each has at least one
place and no more satellites than places, and a round's sentences are distinct;
the width of a byte on the mux is even and the flag's two low bits do not both
stand set, as the flag must not look like an address; the texts a host sends are
sequences of `Character`, which contains those the reader looks at and not the
zero that ends a string.

**Only model-checked:** everything about liveness (`HandlersReturn`,
`CarrierLossNoticed`, `ReadyServed`, `UnpluggedGoesOffline`, and that what is
written is read in the end, in `ImplementsStreams`), since the rules for fairness
and `ENABLED` are out of the provers' reach; `MuxExclusive`, which holds only under
the bound of `engine_polite` (see above).

## 5. What is not modelled, and the plan

Assumptions behind the models: a round of libusb handles everything that is
pending and a cancelled transfer ends in it (as on Linux); `pipe()` succeeds, and
`openpty()` does or the dial is refused; every attachment has its own bus and address; frames
come in one piece to `AtEngine`, and the bytes of a read are not overwritten by a
nested one (the buffer `io_rx_buff` is shared, see the hazards); end of file on
the pty may or may not be reported; channel numbers on the mux are those that
exist; the frame size is positive; a command has no more parameters than `argv`
has elements; the characters of a line are not zero.

Not modelled: formatting (texts, coordinates, checksums), terminal settings,
`parse_args`, logging, the build without a pty, and the build with `poll()`.
`output_fd` of the transports, which keeps its number after `handle_read_error()`
has closed it, is listed as a hazard. What is left of `printer.h` computes text
from the position and the clock, without state; `enum_str.c`, `crc.c` and `log.c`
are tables and text.

The models, in the order of importance, are written: `AtEngine`, `EventLoop`,
`CmuxLink` with `ChannelStreams`, `UsbHost`, `ChannelInput` with `CommandLine`,
`Timers`, `HciBridge` of `HciInput` and `HciOutput`, `NmeaGenerator`, `AtCommands`.

Every safety property that a run checks is proved, but for `MuxExclusive`: it
fails once one `read()` may bring a DISC on channel 0 and then a SABM on another
channel, or a line that dials and starts the mux, so that it would have to be
stated of peers that send neither, as `engine_polite` does by its bound of one
frame or command a read. What is left to add are the components above:
`output_fd`, and the buffer that nested reads share.
