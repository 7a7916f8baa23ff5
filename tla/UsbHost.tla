------------------------------- MODULE UsbHost ------------------------------
(***************************************************************************)
(* USB devices coming and going: libs/usb/{host,device,transfer}.c, the    *)
(* init and deinit halves of libs/devices/{hci,serial}_usb.c, and          *)
(* usb_on_device() and the shutdown of main.c.                             *)
(*                                                                         *)
(* libusb reports everything from inside its event handling (a "round"     *)
(* here): hotplug notices, which on_hotplug() only puts on a list, and the *)
(* completions of transfers.  Rounds run when a descriptor of libusb is    *)
(* ready, but also inside usb_transfer_deinit(), to see a cancelled        *)
(* transfer end, inside a synchronous submit, and inside the request for   *)
(* an arrived device's name.  Only the first kind is followed by the work  *)
(* on the list.                                                            *)
(*                                                                         *)
(* A Device is one libusb_device: one attachment, from plug to unplug,     *)
(* with a bus and address of its own.  A driver is one of the two objects  *)
(* hci_dev and gsm_dev of main.c.                                          *)
(***************************************************************************)
EXTENDS Naturals, Sequences, SequencesExt, FiniteSets

CONSTANTS
  HciDevice,   \* attachments that hci_devices[] of main.c lists
  GsmDevice,   \* attachments that gsm_devices[] lists
  NoDevice,    \* NULL
  FailAt       \* which calls may fail on a device that is there

Device == HciDevice \cup GsmDevice
Driver == {"hci", "gsm"}
InitCalls == {"open", "claim", "endpoints", "alloc", "submit"}

ASSUME DeviceAssumption ==
  HciDevice \cap GsmDevice = {} /\ NoDevice \notin Device /\ IsFiniteSet(Device)
ASSUME FailAssumption == FailAt \subseteq InitCalls

(* The transfers of a driver, in the order of its xfers[] and of its init. *)
Xfers(v) == IF v = "hci" THEN <<"tx_cmd", "tx_acl", "rx_evt", "rx_acl">> ELSE <<"rx", "tx">>
Inward == {"rx_evt", "rx_acl", "rx"}
Slot == UNION {{<<v, Xfers(v)[i]>> : i \in DOMAIN Xfers(v)} : v \in Driver}
Listed(v) == IF v = "hci" THEN HciDevice ELSE GsmDevice

VARIABLES
  conn,      \* whether a device is not yet there, there, or gone
  notices,   \* hotplug notices in libusb
  list,      \* usb_host_t.hotplug_list
  refs,      \* libusb_ref_device() less libusb_unref_device(), by this program
  opens,     \* libusb_open() less libusb_close()
  dev, devh, online,  \* usb_device_t: dev, devh # NULL, usr_data # NULL
  xfer,      \* of each slot: usb_transfer_t.xfer # NULL, and is_tx_active
  flights,   \* transfers in flight: the slot of their wrapper and their device
  freed,     \* of these, the ones that libusb_free_transfer() was called for
  round,     \* transfers that the round under way still has to complete
  task,      \* what the program does when the round is over
  failed,    \* history: the devices whose init was begun and failed
  refused    \* history: the transfers that a device still there refused to take again

libusb == <<notices, refs, opens, flights, freed, round>>
drivers == <<dev, devh, online, xfer, failed, refused>>
vars == <<conn, list, libusb, drivers, task>>

Idle == [op |-> "idle"]
Task == {Idle, [op |-> "drain"], [op |-> "asked"], [op |-> "off"]}
        \cup [op : {"free", "freeing"}, v : Driver, i : 1..5, why : Device \cup {NoDevice}]

TypeOK ==
  /\ conn \in [Device -> {"new", "here", "gone"}]
  /\ notices \in Seq(Device \X BOOLEAN) /\ list \in Seq(Device \X BOOLEAN)
  /\ refs \in [Device -> Nat] /\ opens \in [Device -> Nat]
  /\ dev \in [Driver -> Device \cup {NoDevice}]
  /\ devh \in [Driver -> BOOLEAN] /\ online \in [Driver -> BOOLEAN]
  /\ xfer \in [Slot -> [alloc : BOOLEAN, active : BOOLEAN]]
  /\ flights \subseteq Slot \X Device /\ freed \subseteq flights /\ round \subseteq flights
  /\ task \in Task /\ failed \subseteq Device /\ refused \subseteq Slot \X Device
  \* what a driver is initialised from is a device it knows
  /\ \A v \in Driver : dev[v] \in Listed(v) \cup {NoDevice}

NoXfer == [alloc |-> FALSE, active |-> FALSE]

(* usb_host_start(): LIBUSB_HOTPLUG_ENUMERATE calls on_hotplug() for every  *)
(* device that is there already. *)
Init ==
  /\ \E present \in SUBSET Device :
       /\ conn = [d \in Device |-> IF d \in present THEN "here" ELSE "new"]
       /\ refs = [d \in Device |-> IF d \in present THEN 1 ELSE 0]
       /\ list \in {[i \in DOMAIN s |-> <<s[i], TRUE>>] : s \in SetToSeqs(present)}
  /\ notices = <<>> /\ opens = [d \in Device |-> 0]
  /\ dev = [v \in Driver |-> NoDevice] /\ devh = [v \in Driver |-> FALSE]
  /\ online = [v \in Driver |-> FALSE] /\ xfer = [s \in Slot |-> NoXfer]
  /\ flights = {} /\ freed = {} /\ round = {} /\ task = Idle /\ failed = {} /\ refused = {}

-----------------------------------------------------------------------------
(* External: somebody plugs a device in or pulls it out. *)
Plug(d) ==
  /\ conn[d] = "new"
  /\ conn' = [conn EXCEPT ![d] = "here"] /\ notices' = Append(notices, <<d, TRUE>>)
  /\ UNCHANGED <<list, refs, opens, flights, freed, round, drivers, task>>

Unplug(d) ==
  /\ conn[d] = "here"
  /\ conn' = [conn EXCEPT ![d] = "gone"] /\ notices' = Append(notices, <<d, FALSE>>)
  /\ UNCHANGED <<list, refs, opens, flights, freed, round, drivers, task>>

-----------------------------------------------------------------------------
(* Rounds.  libusb handles what is pending when it polls: every notice, the *)
(* transfers of devices that are gone, a transfer just cancelled, and the   *)
(* transfers that have received something.                                  *)

Dead == {f \in flights : conn[f[2]] = "gone"}
Pending == notices # <<>> \/ Dead # {}

(* on_hotplug(): the list keeps a reference until the notice is worked off. *)
Entries(s, d) == Cardinality({i \in DOMAIN s : s[i][1] = d})
MutantOnlyWhenEmpty(must) ==
  /\ \E busy \in SUBSET (flights \ Dead) : round' = must \cup Dead \cup busy
  /\ list' = (IF list = <<>> THEN notices ELSE list) /\ notices' = <<>>
  /\ refs' = [d \in Device |-> refs[d] + Entries(notices, d)]
StartRound(must) ==
  /\ \E busy \in SUBSET (flights \ Dead) : round' = must \cup Dead \cup busy
  /\ list' = list \o notices /\ notices' = <<>>
  /\ refs' = [d \in Device |-> refs[d] + Entries(notices, d)]

CanFail(d, call) == call \in FailAt \/ conn[d] = "gone"

(* on_transfer_complete(): what is active is given to on_transfer() and     *)
(* submitted again.  If the submit fails, the transfer is not active any    *)
(* more, and nobody is told. *)
MutantNoResubmit(f) ==
  /\ f \in round
  /\ round' = round \ {f} /\ flights' = flights \ {f} /\ freed' = freed \ {f}
  /\ UNCHANGED <<conn, list, notices, refs, opens, task, drivers>>
Complete(f) ==
  /\ f \in round
  /\ round' = round \ {f}
  /\ \E again \in BOOLEAN :
       /\ IF again THEN xfer[f[1]].active /\ conn[f[2]] = "here"
                   ELSE xfer[f[1]].active => CanFail(f[2], "submit")
       /\ flights' = IF again THEN flights ELSE flights \ {f}
       /\ xfer' = [xfer EXCEPT ![f[1]].active = again]
       /\ refused' = IF xfer[f[1]].active /\ ~again /\ conn[f[2]] = "here"
                     THEN refused \cup {f} ELSE refused
  /\ freed' = freed \cap flights'
  /\ UNCHANGED <<conn, list, notices, refs, opens, task, dev, devh, online, failed>>

(* on_usb_fd_activity(): one round, then the list. *)
FdActivity ==
  /\ task = Idle /\ round = {}
  /\ Pending \/ flights # {}
  /\ StartRound({})
  /\ task' = [op |-> "drain"]
  /\ UNCHANGED <<conn, opens, flights, freed, drivers>>

(* hci_usb_device_input(), serial_usb_device_input(): libusb_bulk_transfer()*)
(* and libusb_control_transfer() run rounds until the transfer has ended.   *)
Submit(v) ==
  /\ task = Idle /\ round = {} /\ online[v]
  /\ StartRound({})
  /\ UNCHANGED <<conn, opens, flights, freed, drivers, task>>

-----------------------------------------------------------------------------
(* The init of a driver.  usb_device is zeroed first, whatever it held; the *)
(* calls that follow are made in order until one fails, and what the ones   *)
(* before it got is kept.  Done(d): the list entry's reference is returned. *)

(* The transfers after n of them were set up, the n+1st only allocated if  *)
(* its submit failed. *)
XfersAfter(v, n, last) ==
  [s \in Slot |->
     IF s[1] # v THEN xfer[s]
     ELSE LET i == CHOOSE i \in DOMAIN Xfers(v) : Xfers(v)[i] = s[2] IN
          IF i <= n THEN [alloc |-> TRUE, active |-> s[2] \in Inward]
          ELSE IF i = n + 1 THEN [alloc |-> last, active |-> FALSE]
          ELSE xfer[s]]
FlightsAfter(v, d, n) ==
  flights \cup {<<<<v, Xfers(v)[i]>>, d>> : i \in {i \in 1..n : Xfers(v)[i] \in Inward}}

Took(v, d, opened) ==
  /\ dev' = [dev EXCEPT ![v] = d] /\ devh' = [devh EXCEPT ![v] = opened]
  /\ opens' = IF opened THEN [opens EXCEPT ![d] = @ + 1] ELSE opens

Done(d) == refs' = [refs EXCEPT ![d] = @ - 1]
Failing(d) == failed' = failed \cup {d} /\ UNCHANGED online

FailsEarly(v, d) ==
  /\ \/ CanFail(d, "open") /\ Took(v, d, FALSE)
     \/ CanFail(d, "claim") /\ Took(v, d, TRUE)
  /\ Failing(d) /\ UNCHANGED <<xfer, flights>>

FailsLate(v, d) ==
  /\ Took(v, d, TRUE) /\ Failing(d)
  /\ \E n \in 0..(Len(Xfers(v)) - 1) :
       /\ \/ CanFail(d, "alloc") /\ xfer' = XfersAfter(v, n, FALSE)
          \/ CanFail(d, "submit") /\ Xfers(v)[n + 1] \in Inward /\ xfer' = XfersAfter(v, n, TRUE)
       /\ flights' = FlightsAfter(v, d, n)

Succeeds(v, d) ==
  /\ conn[d] = "here"
  /\ Took(v, d, TRUE)
  /\ online' = [online EXCEPT ![v] = TRUE]
  /\ xfer' = XfersAfter(v, Len(Xfers(v)), FALSE)
  /\ flights' = FlightsAfter(v, d, Len(Xfers(v)))
  /\ UNCHANGED failed

(* serial_usb_device_init() does not find both endpoints: this one failure  *)
(* gives everything back. *)
NoEndpoints(v, d) ==
  /\ v = "gsm" /\ CanFail(d, "endpoints")
  /\ dev' = [dev EXCEPT ![v] = NoDevice] /\ devh' = [devh EXCEPT ![v] = FALSE]
  /\ UNCHANGED <<opens, online, xfer, flights, failed>>

(* The device's reference, less the one of the list entry being worked off. *)
DeviceInit(v, d) ==
  \/ (FailsEarly(v, d) \/ FailsLate(v, d) \/ Succeeds(v, d)) /\ UNCHANGED refs
  \/ NoEndpoints(v, d) /\ Done(d)

-----------------------------------------------------------------------------
(* on_usb_fd_activity() goes on with the first entry of the list, and with  *)
(* it on_hotplug_safe() and usb_on_device().                                *)

Head1 == Head(list)
Draining == task.op = "drain" /\ round = {}

(* An arrived device is opened and asked for its name: the request runs     *)
(* rounds as a submit does. *)
Ask ==
  /\ Draining /\ list # <<>> /\ Head1[2]
  /\ StartRound({})
  /\ task' = [op |-> "asked"]
  /\ UNCHANGED <<conn, opens, flights, freed, drivers>>

Arrived ==
  /\ list # <<>> /\ Head1[2] /\ round = {}
  /\ task.op = "asked" \/ (Draining /\ CanFail(Head1[1], "open"))
  /\ list' = Tail(list) /\ task' = [op |-> "drain"]
  /\ LET d == Head1[1]
         v == CHOOSE v \in Driver : d \in Listed(v) IN
       \/ /\ online[v]
          /\ Done(d) /\ UNCHANGED <<opens, drivers, flights>>
       \/ ~online[v] /\ DeviceInit(v, d)
  /\ UNCHANGED <<conn, notices, freed, round, refused>>

(* usb_device_match(), then hci_usb_device_deinit() or its serial twin: the *)
(* entry keeps its reference until the deinit is over. *)
Left ==
  /\ Draining /\ list # <<>> /\ ~Head1[2]
  /\ list' = Tail(list)
  /\ LET d == Head1[1]
         v == CHOOSE v \in Driver : d \in Listed(v) IN
       IF dev[v] = d /\ online[v]
       THEN task' = [op |-> "free", v |-> v, i |-> 1, why |-> d] /\ UNCHANGED refs
       ELSE Done(d) /\ UNCHANGED task
  /\ UNCHANGED <<conn, notices, opens, flights, freed, round, drivers>>

Drained ==
  /\ Draining /\ list = <<>>
  /\ task' = Idle
  /\ UNCHANGED <<conn, list, libusb, drivers>>

-----------------------------------------------------------------------------
(* The deinit of a driver: usb_transfer_deinit() for each of its transfers, *)
(* then the interface, the handle and the device are given back.            *)

At == <<task.v, Xfers(task.v)[task.i]>>
Freeing == task.op \in {"free", "freeing"} /\ round = {}
More == task.i <= Len(Xfers(task.v))

MutantNoCancel ==
  /\ Freeing /\ task.op = "free" /\ More /\ xfer[At].alloc
  /\ xfer[At].active /\ At[2] \in Inward
  /\ task' = [task EXCEPT !.op = "freeing"]
  /\ xfer' = [xfer EXCEPT ![At].active = FALSE]
  /\ UNCHANGED <<conn, list, notices, refs, round, opens, flights, freed, dev, devh, online, failed, refused>>
(* libusb_cancel_transfer(), and a round to see it end. *)
Cancel ==
  /\ Freeing /\ task.op = "free" /\ More /\ xfer[At].alloc
  /\ xfer[At].active /\ At[2] \in Inward
  /\ xfer' = [xfer EXCEPT ![At].active = FALSE]
  /\ StartRound({f \in flights : f = <<At, dev[task.v]>>})
  /\ task' = [task EXCEPT !.op = "freeing"]
  /\ UNCHANGED <<conn, opens, flights, freed, dev, devh, online, failed, refused>>

FreeXfer ==
  /\ Freeing /\ More
  /\ task.op = "freeing" \/ ~xfer[At].alloc \/ ~xfer[At].active \/ At[2] \notin Inward
  /\ xfer' = [xfer EXCEPT ![At].alloc = FALSE]
  /\ freed' = freed \cup (IF xfer[At].alloc THEN {f \in flights : f = <<At, dev[task.v]>>} ELSE {})
  /\ task' = [task EXCEPT !.op = "free", !.i = @ + 1]
  /\ UNCHANGED <<conn, list, notices, refs, opens, flights, round, dev, devh, online, failed, refused>>

(* A deinit returns one reference of the device, and the list entry that     *)
(* led to it another.  The rest of the list follows, or the rest of main(). *)
MutantNoUnref(d, why) ==
  refs' = [e \in Device |-> refs[e] - (IF e = why THEN 1 ELSE 0)]
GiveBack(d, why) ==
  refs' = [e \in Device |-> refs[e] - (IF e = d THEN 1 ELSE 0) - (IF e = why THEN 1 ELSE 0)]

DeviceGone ==
  /\ Freeing /\ ~More
  /\ opens' = [opens EXCEPT ![dev[task.v]] = @ - 1]
  /\ dev' = [dev EXCEPT ![task.v] = NoDevice]
  /\ devh' = [devh EXCEPT ![task.v] = FALSE] /\ online' = [online EXCEPT ![task.v] = FALSE]
  /\ GiveBack(dev[task.v], task.why)
  /\ task' = IF task.why # NoDevice THEN [op |-> "drain"]
             ELSE IF task.v = "hci" /\ online["gsm"] THEN [task EXCEPT !.v = "gsm", !.i = 1]
             ELSE [op |-> "off"]
  /\ UNCHANGED <<conn, list, notices, flights, freed, round, xfer, failed, refused>>

(* main() after the loop: hci_usb_device_deinit(), serial_usb_device_deinit()*)
(* and usb_host_deinit(). *)
Shutdown ==
  /\ task = Idle /\ round = {}
  /\ task' = IF \E v \in Driver : online[v]
             THEN [op |-> "free", i |-> 1, why |-> NoDevice,
                   v |-> IF online["hci"] THEN "hci" ELSE "gsm"]
             ELSE [op |-> "off"]
  /\ UNCHANGED <<conn, list, libusb, drivers>>

-----------------------------------------------------------------------------
Proceed == (\E f \in flights : Complete(f)) \/ Ask \/ Arrived \/ Left \/ Drained
           \/ Cancel \/ FreeXfer \/ DeviceGone
Loop == FdActivity \/ Proceed
Off == task = [op |-> "off"] /\ UNCHANGED vars
Next == Loop \/ Shutdown \/ Off \/ (\E v \in Driver : Submit(v)) \/ \E d \in Device : Plug(d) \/ Unplug(d)

(* io_step_loop() calls on_usb_fd_activity() while a descriptor of libusb   *)
(* is ready, and what it begins it finishes. *)
Fairness == WF_vars(Pending /\ FdActivity) /\ WF_vars(Proceed)

SafeSpec == Init /\ [][Next]_vars
Spec == SafeSpec /\ Fairness

-----------------------------------------------------------------------------
(* Whatever comes and goes, in whatever order the notices and the           *)
(* completions are handled, the references and handles that the program     *)
(* holds of a device are those that something will give back: only a device *)
(* whose init failed half-way (where `goto end' gives nothing back) leaks.  *)
Refs(d) ==
  Entries(list, d) + Cardinality({v \in Driver : dev[v] = d})
  + (IF task.op \in {"free", "freeing"} /\ task.why = d THEN 1 ELSE 0)
Opens(d) == Cardinality({v \in Driver : dev[v] = d /\ devh[v]})
OnlyFailedInitsLeak ==
  \A d \in Device :
    /\ refs[d] >= Refs(d) /\ opens[d] >= Opens(d)
    /\ d \notin failed => refs[d] = Refs(d) /\ opens[d] = Opens(d)

Healthy(v) == failed \cap Listed(v) = {}

(* No transfer is freed while it is in flight, neither when its device was  *)
(* pulled out nor at shutdown: a deinit sees each of them end, through      *)
(* rounds that complete and resubmit the others.  (After a failed init the  *)
(* wrapper of a new device may be the one of an old transfer.)  The types,  *)
(* with reference counts that never go below zero, are part of it.          *)
NothingFreedInFlight == TypeOK /\ \A f \in freed : ~Healthy(f[1][1])

(* A driver that is online keeps listening: each of its inward transfers is *)
(* in flight on the device it holds, until that device is gone or let go,   *)
(* through completions that come in the rounds of other transfers' cancels  *)
(* and submits.  The one exception is a transfer that libusb once refused   *)
(* to take again: on_transfer_complete() does not try a second time, and    *)
(* the driver stays online without it.                                      *)
ListensWhileOnline ==
  \A v \in Driver :
    (online[v] /\ Healthy(v) /\ conn[dev[v]] = "here" /\ ~(task.op \in {"free", "freeing"} /\ task.v = v))
      => \A s \in Slot : s[1] = v /\ s[2] \in Inward =>
           (xfer[s].active /\ <<s, dev[v]>> \in flights) \/ <<s, dev[v]>> \in refused

(* When all notices are worked off, no driver believes in a device that is  *)
(* gone: arrivals and departures that pile up on the list, or come in       *)
(* during a deinit, are not taken in the wrong order or forgotten.          *)
NoGhostDevice ==
  (task = Idle /\ round = {} /\ notices = <<>> /\ list = <<>>)
    => \A v \in Driver : online[v] => conn[dev[v]] = "here"

(* A driver lets go of a device that was pulled out - unless it was the     *)
(* round of a submit that took the notice in: then it waits on the list     *)
(* until a descriptor of libusb is ready again.                             *)
Ghost(v) == online[v] /\ conn[dev[v]] = "gone"
Stranded(d) == task = Idle /\ round = {} /\ <<d, FALSE>> \in ToSet(list)
UnpluggedGoesOffline == \A v \in Driver : Ghost(v) ~> ~Ghost(v) \/ Stranded(dev[v])
=============================================================================
