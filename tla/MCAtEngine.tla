----------------------------- MODULE MCAtEngine -----------------------------
(* AtEngine on a small instance.  Lines as a .cfg cannot write them. *)
EXTENDS AtEngine

PlainLines == {<<"dial">>, <<"cmux">>}
=============================================================================
