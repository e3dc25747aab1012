---------------------------- MODULE MCLiveReload ----------------------------
(* Live mode on a small instance. *)
EXTENDS LiveReload
=============================================================================
