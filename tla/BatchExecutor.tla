--------------------------- MODULE BatchExecutor ---------------------------
(***************************************************************************)
(* What a worker pool promises to the code that uses it, with no threads,  *)
(* no locks and no counters (the comment on WorkerPool in worker.h):       *)
(* jobs are submitted, each one finishes exactly once, and wait_all()      *)
(* returns only when every job submitted since the previous wait_all() has *)
(* finished, giving back exactly those jobs, in completion order.          *)
(***************************************************************************)
EXTENDS Naturals, Sequences

CONSTANTS Job,      \* the jobs that may ever be submitted
          Caller    \* the threads that may call wait_all()

VARIABLES issued,   \* every job submitted so far
          open,     \* the jobs submitted since the last wait_all()
          finished, \* the open jobs that have finished, in completion order
          returned  \* returned[c]: the list caller c's last wait_all() gave it

vars == <<issued, open, finished, returned>>

Finished == {finished[i] : i \in DOMAIN finished}

Init ==
    /\ issued = {}
    /\ open = {}
    /\ finished = <<>>
    /\ returned = [c \in Caller |-> <<>>]

\* A job nobody has submitted before joins the open batch.
Submit(j) ==
    /\ j \notin issued
    /\ issued' = issued \cup {j}
    /\ open' = open \cup {j}
    /\ UNCHANGED <<finished, returned>>

\* An open job finishes, once.
Finish(j) ==
    /\ j \in open \ Finished
    /\ finished' = Append(finished, j)
    /\ UNCHANGED <<issued, open, returned>>

\* wait_all() returns to c: every open job has finished, c gets them all and
\* the next batch starts empty.
Collect(c) ==
    /\ Finished = open
    /\ returned' = [returned EXCEPT ![c] = finished]
    /\ open' = {}
    /\ finished' = <<>>
    /\ UNCHANGED issued

Next ==
    \/ \E j \in Job : Submit(j) \/ Finish(j)
    \/ \E c \in Caller : Collect(c)

Spec == Init /\ [][Next]_vars
=============================================================================
