------------------------------ MODULE MCTimers ------------------------------
(* The reactor's timers on small instances. *)
EXTENDS Timers
=============================================================================
