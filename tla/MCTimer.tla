------------------------------- MODULE MCTimer -------------------------------
(* Timer with a small Kilo: two seconds and a bit of Kilo^3 nanoseconds. *)
EXTENDS Timer
=============================================================================
