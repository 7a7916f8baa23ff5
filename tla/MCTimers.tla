------------------------------ MODULE MCTimers ------------------------------
(* Timers in a unit of which 2 are the shortest step and 8 the default: a   *)
(* repeated timer like the one of the GNSS generator, a slower one, and one *)
(* that is called once.  The clock goes past what last_ms can hold. *)
EXTENDS Timers, TLC

Intervals == "nmea" :> 4 @@ "slow" :> 5 @@ "once" :> 2
=============================================================================
