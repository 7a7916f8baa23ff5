----------------------------- MODULE MCCmuxLink -----------------------------
(* CmuxLink with bytes below 12: two data channels, lengths up to 5 in one  *)
(* byte.  Payloads of one, two, five, six and seven bytes, with flag bytes. *)
EXTENDS CmuxLink

SmallPayloads == {<<SOF_MARKER>>, <<1, SOF_MARKER>>, <<0, 1, 2, 3, 4>>,
                  <<SOF_MARKER, 7, 7, 11, 3, SOF_MARKER>>, <<1, 2, 3, 4, 5, 6, 7>>}
SmallFcs == {0, SOF_MARKER}
=============================================================================
