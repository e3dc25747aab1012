-------------------------------- MODULE Future --------------------------------
(***************************************************************************)
(* What a worker handle promises to the code that holds it, with no lock,  *)
(* no condition variable and no flags (the comments of worker.h): a worker *)
(* is started once and finishes at most once, and whoever waits for it, in *)
(* whatever number and however often, gets the outcome of that one run,    *)
(* never one that is missing, of another worker or early.                  *)
(***************************************************************************)
CONSTANTS Task,       \* the workers that may be started
          FileTask,   \* those of them that run a file
          Client,     \* the threads that may wait for a worker
          NoTask      \* "waits for nothing"

VARIABLES stage,      \* stage[t]: "new", "started" or "finished"
          awaits,     \* awaits[c]: the worker c is waiting for, or NoTask
          got         \* got[c]: the outcome c's last wait returned

vars == <<stage, awaits, got>>

\* A file has an empty data value for its outcome, a function what it returns.
Outcome(t) == IF t \in FileTask THEN "empty" ELSE "value"

Init ==
    /\ stage = [t \in Task |-> "new"]
    /\ awaits = [c \in Client |-> NoTask]
    /\ got = [c \in Client |-> "null"]

\* worker.spawn
Start(t) ==
    /\ stage[t] = "new" /\ t \notin FileTask
    /\ stage' = [stage EXCEPT ![t] = "started"]
    /\ UNCHANGED <<awaits, got>>

\* worker.run starts a worker and waits for it.
Run(c, t) ==
    /\ stage[t] = "new" /\ t \in FileTask
    /\ awaits[c] = NoTask
    /\ stage' = [stage EXCEPT ![t] = "started"]
    /\ awaits' = [awaits EXCEPT ![c] = t]
    /\ UNCHANGED got

Finish(t) ==
    /\ stage[t] = "started"
    /\ stage' = [stage EXCEPT ![t] = "finished"]
    /\ UNCHANGED <<awaits, got>>

\* .on("done") and .terminate()
Await(c, t) ==
    /\ stage[t] # "new"
    /\ awaits[c] = NoTask
    /\ awaits' = [awaits EXCEPT ![c] = t]
    /\ UNCHANGED <<stage, got>>

\* The wait is over, because the worker is.
Get(c) ==
    /\ awaits[c] # NoTask /\ stage[awaits[c]] = "finished"
    /\ got' = [got EXCEPT ![c] = Outcome(awaits[c])]
    /\ awaits' = [awaits EXCEPT ![c] = NoTask]
    /\ UNCHANGED stage

Next ==
    \/ \E t \in Task : Start(t) \/ Finish(t)
    \/ \E c \in Client, t \in Task : Run(c, t) \/ Await(c, t)
    \/ \E c \in Client : Get(c)

Spec == Init /\ [][Next]_vars
=============================================================================
