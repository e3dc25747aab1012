---------------------------- MODULE MCWorkerPool ----------------------------
(* The worker pool on small instances. *)
EXTENDS WorkerPool, TLC

\* Pool threads, jobs and spawned threads are interchangeable (safety only).
Symmetry ==
    Permutations(Thread) \cup Permutations(Job) \cup Permutations(Spawned)
=============================================================================
