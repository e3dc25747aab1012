------------------------------ MODULE MCReactor ------------------------------
(* The reactor's coroutines on small instances. *)
EXTENDS Reactor, TLC

\* Addresses and descriptor numbers are interchangeable (safety only).
Symmetry == Permutations(Coro) \cup Permutations(ConnFd)
=============================================================================
