--------------------------- MODULE MCWorkerHandle ---------------------------
(* Single workers on small instances. *)
EXTENDS WorkerHandle
=============================================================================
