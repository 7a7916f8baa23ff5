--------------------------- MODULE MCAtEnginePeers --------------------------
(* AtEngine with two kinds of peer, of which one is there from the start: a *)
(* patient one waits for answers, but may send two frames or commands at    *)
(* once; the other sends single ones at any time.                           *)
EXTENDS AtEngine

(* ATD*99#;+CMUX=0 dials and starts the mux in one line. *)
MixedLines == {<<"dial">>, <<"cmux">>, <<"dial", "cmux">>}
=============================================================================
