---------------------------- MODULE WorkerHandle ----------------------------
(***************************************************************************)
(* Single workers: worker.spawn(fn), worker.run(file, cb), .on("done", cb) *)
(* and .terminate(), i.e. WorkerHandle in src/src/runtime/worker.c and its *)
(* callers in src/src/interp/interp.c.                                     *)
(*                                                                         *)
(* The sections of code under h->mu are single steps.  What                *)
(* worker_handle_join does after it has released h->mu (the test of        *)
(* h->joined, pthread_join, the assignment to h->joined) is separate       *)
(* steps: nothing protects it.                                             *)
(***************************************************************************)
EXTENDS Naturals, FiniteSets

CONSTANTS Handle,        \* the workers that may be started
          FileHandle,    \* those of them that worker.run starts on a file
          Main,          \* the main thread
          Peer,          \* other threads whose Jaguar code may join a handle
          NoOne,         \* "the interpreter lock is free", "no handle"
          JoinContexts   \* the contexts whose code may join a handle

Context == {"script", "timer", "spawn"}
Joiner == {Main} \cup Peer

ASSUME HandleAssumption ==
    /\ FileHandle \subseteq Handle
    /\ Main \notin Peer
    /\ Joiner \cap Handle = {}
    /\ NoOne \notin Joiner \cup Handle
    /\ JoinContexts \subseteq Context

VARIABLES
    gil,     \* owner of g_interp_lock, or NoOne
    hpc,     \* where each worker's thread is
    done,    \* h->done
    joined,  \* h->joined
    result,  \* h->result: "null", "value" or (worker.run) "empty"
    joins,   \* history: how often pthread_join was called on the thread
    jpc,     \* where each joiner is
    jh,      \* the handle a joiner is joining
    got      \* history: what the joiner's last join returned

vars == <<gil, hpc, done, joined, result, joins, jpc, jh, got>>

\* A worker's thread: not created, "lock" before interp_lock() ("load" while
\* worker.run's thread still reads and checks its file), "running" under the
\* lock, "publish" before it takes h->mu, "exited".
HandlePc == {"none", "load", "lock", "running", "publish", "exited"}
\* A joiner: out of Jaguar code, in a context, or inside worker_handle_join:
\* "cv" asleep on h->cv, "retest" woken, "check" past the loop and about to
\* test h->joined, "pjoin" in pthread_join, "mark" about to set h->joined,
\* "give" about to hand over the result.
JoinerPc == {"out", "cv", "retest", "check", "pjoin", "mark", "give"} \cup Context

LockedContext(j) == IF j = Main THEN "timer" ELSE "spawn"
Asleep(h) == {j \in Joiner : jpc[j] = "cv" /\ jh[j] = h}

Init ==
    /\ gil = NoOne
    /\ hpc = [h \in Handle |-> "none"]
    /\ done = [h \in Handle |-> FALSE]
    /\ joined = [h \in Handle |-> FALSE]
    /\ result = [h \in Handle |-> "null"]
    /\ joins = [h \in Handle |-> 0]
    /\ jpc = [j \in Joiner |-> "out"]
    /\ jh = [j \in Joiner |-> NoOne]
    /\ got = [j \in Joiner |-> "null"]
-----------------------------------------------------------------------------
(* The worker's thread: thread_main_func and thread_main_file. *)

\* worker.run's thread has read, parsed and type-checked its file ...
LoadFile(h) ==
    /\ hpc[h] = "load"
    /\ hpc' = [hpc EXCEPT ![h] = "lock"]
    /\ UNCHANGED <<gil, done, joined, result, joins, jpc, jh, got>>

\* ... or could not: it reports on stderr and publishes an empty result.
LoadFails(h) ==
    /\ hpc[h] = "load"
    /\ hpc' = [hpc EXCEPT ![h] = "publish"]
    /\ UNCHANGED <<gil, done, joined, result, joins, jpc, jh, got>>

\* interp_lock()
StartWork(h) ==
    /\ hpc[h] = "lock"
    /\ gil = NoOne
    /\ gil' = h
    /\ hpc' = [hpc EXCEPT ![h] = "running"]
    /\ UNCHANGED <<done, joined, result, joins, jpc, jh, got>>

\* Faulty variant: a path out of the worker that skips interp_unlock().
FinishWorkLocked(h) ==
    /\ hpc[h] = "running"
    /\ hpc' = [hpc EXCEPT ![h] = "publish"]
    /\ UNCHANGED <<gil, done, joined, result, joins, jpc, jh, got>>

\* interp_unlock() after interp_invoke or interp_run
FinishWork(h) ==
    /\ hpc[h] = "running"
    /\ gil' = NoOne
    /\ hpc' = [hpc EXCEPT ![h] = "publish"]
    /\ UNCHANGED <<done, joined, result, joins, jpc, jh, got>>

\* Faulty variant: done is announced and the result dropped.
PublishNoResult(h) ==
    /\ hpc[h] = "publish"
    /\ done' = [done EXCEPT ![h] = TRUE]
    /\ IF Asleep(h) = {} THEN UNCHANGED jpc
       ELSE \E j \in Asleep(h) : jpc' = [jpc EXCEPT ![j] = "retest"]
    /\ hpc' = [hpc EXCEPT ![h] = "exited"]
    /\ UNCHANGED <<gil, joined, result, joins, jh, got>>

\* Faulty variant: no signal when done is set.
PublishNoSignal(h) ==
    /\ hpc[h] = "publish"
    /\ result' = [result EXCEPT ![h] = IF h \in FileHandle THEN "empty" ELSE "value"]
    /\ done' = [done EXCEPT ![h] = TRUE]
    /\ hpc' = [hpc EXCEPT ![h] = "exited"]
    /\ UNCHANGED <<gil, joined, joins, jpc, jh, got>>

\* Under h->mu: store the result, set done, signal one joiner; then exit.
Publish(h) ==
    /\ hpc[h] = "publish"
    /\ result' = [result EXCEPT ![h] = IF h \in FileHandle THEN "empty" ELSE "value"]
    /\ done' = [done EXCEPT ![h] = TRUE]
    /\ IF Asleep(h) = {} THEN UNCHANGED jpc
       ELSE \E j \in Asleep(h) : jpc' = [jpc EXCEPT ![j] = "retest"]
    /\ hpc' = [hpc EXCEPT ![h] = "exited"]
    /\ UNCHANGED <<gil, joined, joins, jh, got>>
-----------------------------------------------------------------------------
(* The code that starts and joins workers. *)

EnterScript ==
    /\ jpc[Main] = "out"
    /\ jpc' = [jpc EXCEPT ![Main] = "script"]
    /\ UNCHANGED <<gil, hpc, done, joined, result, joins, jh, got>>

LeaveScript ==
    /\ jpc[Main] = "script"
    /\ jpc' = [jpc EXCEPT ![Main] = "out"]
    /\ UNCHANGED <<gil, hpc, done, joined, result, joins, jh, got>>

\* A timer callback on the main thread, a worker function on a peer.
EnterLocked(j) ==
    /\ jpc[j] = "out"
    /\ gil = NoOne
    /\ gil' = j
    /\ jpc' = [jpc EXCEPT ![j] = LockedContext(j)]
    /\ UNCHANGED <<hpc, done, joined, result, joins, jh, got>>

LeaveLocked(j) ==
    /\ jpc[j] = LockedContext(j)
    /\ gil' = NoOne
    /\ jpc' = [jpc EXCEPT ![j] = "out"]
    /\ UNCHANGED <<hpc, done, joined, result, joins, jh, got>>

\* worker_spawn_func: create the thread.
Spawn(j, h) ==
    /\ jpc[j] \in Context
    /\ h \notin FileHandle
    /\ hpc[h] = "none"
    /\ hpc' = [hpc EXCEPT ![h] = "lock"]
    /\ UNCHANGED <<gil, done, joined, result, joins, jpc, jh, got>>

\* worker_handle_join takes h->mu and tests h->done: sleep, or leave the loop.
TestDone(j, h) ==
    /\ jpc' = [jpc EXCEPT ![j] = IF done[h] THEN "check" ELSE "cv"]
    /\ jh' = [jh EXCEPT ![j] = h]

\* worker.run(path, cb): start the file's thread and join it at once.
RunFile(j, h) ==
    /\ jpc[j] \in JoinContexts
    /\ h \in FileHandle
    /\ hpc[h] = "none"
    /\ hpc' = [hpc EXCEPT ![h] = "load"]
    /\ TestDone(j, h)
    /\ UNCHANGED <<gil, done, joined, result, joins, got>>

\* .on("done", cb) or .terminate() on a worker started earlier.  The handle of
\* a worker.run never reaches the program.
Join(j, h) ==
    /\ jpc[j] \in JoinContexts
    /\ h \notin FileHandle
    /\ hpc[h] # "none"
    /\ TestDone(j, h)
    /\ UNCHANGED <<gil, hpc, done, joined, result, joins, got>>

Retest(j) ==
    /\ jpc[j] = "retest"
    /\ TestDone(j, jh[j])
    /\ UNCHANGED <<gil, hpc, done, joined, result, joins, got>>

\* pthread_cond_wait may return without a signal.
SpuriousWake(j) ==
    /\ jpc[j] = "cv"
    /\ jpc' = [jpc EXCEPT ![j] = "retest"]
    /\ UNCHANGED <<gil, hpc, done, joined, result, joins, jh, got>>

\* Faulty variant: pthread_join on every call.
CheckJoinedNever(j) ==
    /\ jpc[j] = "check"
    /\ jpc' = [jpc EXCEPT ![j] = "pjoin"]
    /\ joins' = [joins EXCEPT ![jh[j]] = @ + 1]
    /\ UNCHANGED <<gil, hpc, done, joined, result, jh, got>>

\* if (!h->joined) pthread_join(...): read without a lock.
CheckJoined(j) ==
    /\ jpc[j] = "check"
    /\ IF joined[jh[j]]
       THEN jpc' = [jpc EXCEPT ![j] = "give"] /\ UNCHANGED joins
       ELSE /\ jpc' = [jpc EXCEPT ![j] = "pjoin"]
            /\ joins' = [joins EXCEPT ![jh[j]] = @ + 1]
    /\ UNCHANGED <<gil, hpc, done, joined, result, jh, got>>

\* pthread_join returns when the thread has exited.
ThreadJoined(j) ==
    /\ jpc[j] = "pjoin"
    /\ hpc[jh[j]] = "exited"
    /\ jpc' = [jpc EXCEPT ![j] = "mark"]
    /\ UNCHANGED <<gil, hpc, done, joined, result, joins, jh, got>>

MarkJoined(j) ==
    /\ jpc[j] = "mark"
    /\ joined' = [joined EXCEPT ![jh[j]] = TRUE]
    /\ jpc' = [jpc EXCEPT ![j] = "give"]
    /\ UNCHANGED <<gil, hpc, done, result, joins, jh, got>>

\* Return h->result (an empty data value if there is none) to the context of
\* the call, where the callback runs.
GiveResult(j) ==
    /\ jpc[j] = "give"
    /\ got' = [got EXCEPT ![j] = IF result[jh[j]] = "null" THEN "empty" ELSE result[jh[j]]]
    /\ jpc' = [jpc EXCEPT ![j] = IF gil = j THEN LockedContext(j) ELSE "script"]
    /\ UNCHANGED <<gil, hpc, done, joined, result, joins, jh>>
-----------------------------------------------------------------------------
HandleStep(h) ==
    LoadFile(h) \/ LoadFails(h) \/ StartWork(h) \/ FinishWork(h) \/ Publish(h)

InJoin(j) ==
    \/ Retest(j) \/ CheckJoined(j) \/ ThreadJoined(j) \/ MarkJoined(j)
    \/ GiveResult(j)

JoinerStep(j) ==
    \/ EnterLocked(j) \/ LeaveLocked(j)
    \/ \E h \in Handle : Spawn(j, h) \/ RunFile(j, h) \/ Join(j, h)
    \/ InJoin(j) \/ SpuriousWake(j)

Next ==
    \/ \E h \in Handle : HandleStep(h)
    \/ \E j \in Joiner : JoinerStep(j)
    \/ EnterScript \/ LeaveScript

Spec == Init /\ [][Next]_vars

\* Threads run; a released mutex is eventually obtained by a thread that keeps
\* asking for it; worker functions and callbacks return.
Fairness ==
    /\ \A h \in Handle :
        /\ WF_vars(LoadFile(h) \/ LoadFails(h))
        /\ SF_vars(StartWork(h))
        /\ WF_vars(FinishWork(h)) /\ WF_vars(Publish(h))
    /\ \A j \in Joiner : WF_vars(LeaveLocked(j)) /\ WF_vars(InJoin(j))

FairSpec == Spec /\ Fairness
-----------------------------------------------------------------------------
(* Properties. *)

\* Every variable of the worker-handle model keeps its type.
TypeOK ==
    /\ gil \in {NoOne} \cup Handle \cup Joiner
    /\ hpc \in [Handle -> HandlePc]
    /\ done \in [Handle -> BOOLEAN]
    /\ joined \in [Handle -> BOOLEAN]
    /\ result \in [Handle -> {"null", "value", "empty"}]
    /\ joins \in [Handle -> Nat]
    /\ jpc \in [Joiner -> JoinerPc]
    /\ jh \in [Joiner -> Handle \cup {NoOne}]
    /\ \A j \in Joiner : jpc[j] \notin Context \cup {"out"} => jh[j] \in Handle
    /\ got \in [Joiner -> {"null", "value", "empty"}]

\* However often .on("done") and .terminate() are called on a worker, its
\* thread is joined at most once (a second pthread_join is undefined), and
\* h->joined is set only after the join.
JoinedOnce ==
    \A h \in Handle :
        /\ joins[h] <= 1
        /\ joined[h] => joins[h] = 1 /\ hpc[h] = "exited"

\* A join returns the worker's own result: the thread has exited by then, so
\* the fallback to an empty data value is never taken for worker.spawn.
ResultOfFinishedThread ==
    \A j \in Joiner :
        jpc[j] = "give" =>
            /\ hpc[jh[j]] = "exited"
            /\ result[jh[j]] = IF jh[j] \in FileHandle THEN "empty" ELSE "value"

\* A joiner that sleeps on a worker that is done is going to be woken.
NoStrandedJoiner ==
    \A j \in Joiner : jpc[j] = "cv" => ~done[jh[j]]

\* .on("done"), .terminate() and worker.run return.
JoinReturns ==
    \A j \in Joiner : jpc[j] = "cv" ~> jpc[j] \in Context

\* A handle is a future: its worker has finished once the thread has exited,
\* and a joiner waits from the call of worker_handle_join to its return.
Stage(h) ==
    IF hpc[h] = "none" THEN "new" ELSE IF hpc[h] = "exited" THEN "finished" ELSE "started"
Awaits(j) == IF jpc[j] \in Context \cup {"out"} THEN NoOne ELSE jh[j]

Promise == INSTANCE Future WITH
    Task <- Handle, FileTask <- FileHandle, Client <- Joiner, NoTask <- NoOne,
    stage <- [h \in Handle |-> Stage(h)],
    awaits <- [j \in Joiner |-> Awaits(j)]

\* Whoever joins a worker, from whatever contexts and however often, gets the
\* outcome of its one run and gets it after the end of that run, although done,
\* joined and result are tested and set in separate steps.
ImplementsFuture == Promise!Spec
=============================================================================
