----------------------------- MODULE MCEventLoop ----------------------------
(***************************************************************************)
(* EventLoop in two situations, of which one is there from the start, so   *)
(* that each stays small: passes nest while a handle and the descriptors   *)
(* of libusb open and close; or calls and terminals use the numbers up,    *)
(* with one descriptor ready at a time.                                    *)
(***************************************************************************)
EXTENDS EventLoop

VARIABLE scene
Scenes == {"nested", "calls"}

Few ==
  IF scene = "nested"
  THEN leaked' = {} /\ ~Dialling'
  ELSE fds'[UsbHandle] = {} /\ Len(passes') <= 1 /\ Cardinality(ready') <= 1

MCInit == Init /\ scene \in Scenes
MCNext == Next /\ Few /\ UNCHANGED scene
MCSpec == MCInit /\ [][MCNext]_<<vars, scene>> /\ Fairness
=============================================================================
