----------------------------- MODULE WorkerPool -----------------------------
(***************************************************************************)
(* The worker pool of src/src/runtime/worker.c (worker.pool, .submit and   *)
(* .onAll) together with the interpreter lock of src/src/interp/interp.c   *)
(* and the threads that call into the pool.                                *)
(*                                                                         *)
(* Everything the code does between locking and unlocking pool->mu is one  *)
(* step here: no other thread can see the pool in between, and             *)
(* pthread_cond_wait gives the mutex up and falls asleep atomically.  The  *)
(* interpreter lock is held across whole calls into Jaguar code, so it is  *)
(* a variable (gil).                                                       *)
(*                                                                         *)
(* Callers of the pool are the main thread, which runs the script and the  *)
(* HTTP and WebSocket handlers WITHOUT the lock but timer callbacks WITH   *)
(* it (timer_trampoline), and the threads worker.spawn starts, which run   *)
(* their function with the lock (thread_main_func).  A job may submit      *)
(* further jobs while it runs.                                             *)
(***************************************************************************)
EXTENDS Naturals, Sequences, FiniteSets

CONSTANTS Thread,   \* the pool's OS threads (pool->threads)
          Main,     \* the main thread
          Spawned,  \* the threads of worker.spawn that use the pool
          Job,      \* the Job objects that may be submitted (bounds submits)
          NoOne,    \* "the lock is free" / "no job in hand"
          BlockingContexts  \* the contexts whose code may call .onAll()

Context == {"script", "timer", "spawn"}
Caller == {Main} \cup Spawned

\* worker_pool_create starts at least one thread; the model's names differ.
ASSUME PoolAssumption ==
    /\ Thread # {} /\ IsFiniteSet(Thread)
    /\ Main \notin Spawned
    /\ Caller \cap Thread = {}
    /\ NoOne \notin Thread \cup Caller \cup Job
    /\ BlockingContexts \subseteq Context

VARIABLES
    gil,        \* owner of g_interp_lock, or NoOne
    tpc,        \* where each pool thread is in pool_thread_main
    tjob,       \* the job a pool thread has taken off the queue
    cpc,        \* where each caller is: outside, in a context, or in wait_all
    queue,      \* pool->queue_head .. queue_tail
    submitted, completed,
    results,    \* pool->results_head .. results_tail: the finished jobs
    issued,     \* history: every job ever submitted
    returned    \* history: the list each caller's last wait_all() returned

pool == <<queue, submitted, completed, results>>
vars == <<gil, tpc, tjob, cpc, pool, issued, returned>>

\* Positions of a pool thread: "top" about to lock pool->mu and test the
\* queue, "job_available" asleep on that condition variable, "fetched" holding
\* a job and waiting for the interpreter lock, "running" inside interp_invoke,
\* "report" about to append its result.
ThreadPc == {"top", "job_available", "fetched", "running", "report"}
\* Positions of a caller: "out" of Jaguar code, running in a context,
\* "all_done" asleep on that condition variable, "retest" woken from it.
CallerPc == {"out", "all_done", "retest"} \cup Context

InFlight == {t \in Thread : tpc[t] \in {"fetched", "running", "report"}}
Top == {t \in Thread : tpc[t] = "top"}
Sleeping == {t \in Thread : tpc[t] = "job_available"}
AsleepInWaitAll == {c \in Caller : cpc[c] = "all_done"}

\* The lock-holding context of caller c (timer_trampoline, thread_main_func).
LockedContext(c) == IF c = Main THEN "timer" ELSE "spawn"

Init ==
    /\ gil = NoOne
    /\ tpc = [t \in Thread |-> "top"]
    /\ tjob = [t \in Thread |-> NoOne]
    /\ cpc = [c \in Caller |-> "out"]
    /\ queue = <<>>
    /\ submitted = 0 /\ completed = 0
    /\ results = <<>>
    /\ issued = {}
    /\ returned = [c \in Caller |-> <<>>]
-----------------------------------------------------------------------------
(* The condition variables. *)

\* Faulty variant: submit links the job and wakes nobody.
SignalNobody == UNCHANGED tpc

\* pthread_cond_signal(&pool->job_available): one sleeper, if there is one.
SignalJobAvailable ==
    IF Sleeping = {} THEN UNCHANGED tpc
    ELSE \E t \in Sleeping : tpc' = [tpc EXCEPT ![t] = "top"]

\* pthread_cond_signal(&pool->all_done): one sleeper, if there is one.
SignalAllDone ==
    IF AsleepInWaitAll = {} THEN UNCHANGED cpc
    ELSE \E c \in AsleepInWaitAll : cpc' = [cpc EXCEPT ![c] = "retest"]

\* pthread_cond_wait may return without a signal; both loops test again.
SpuriousThreadWake(t) ==
    /\ tpc[t] = "job_available"
    /\ tpc' = [tpc EXCEPT ![t] = "top"]
    /\ UNCHANGED <<gil, tjob, cpc, pool, issued, returned>>

SpuriousCallerWake(c) ==
    /\ cpc[c] = "all_done"
    /\ cpc' = [cpc EXCEPT ![c] = "retest"]
    /\ UNCHANGED <<gil, tpc, tjob, pool, issued, returned>>
-----------------------------------------------------------------------------
(* pool_thread_main: the loop of a pool thread. *)

\* The queue is empty: sleep (shutdown is never set, so the loop never ends).
WaitForJob(t) ==
    /\ tpc[t] = "top"
    /\ queue = <<>>
    /\ tpc' = [tpc EXCEPT ![t] = "job_available"]
    /\ UNCHANGED <<gil, tjob, cpc, pool, issued, returned>>

\* Unlink the head of the queue.
TakeJob(t) ==
    /\ tpc[t] = "top"
    /\ queue # <<>>
    /\ tjob' = [tjob EXCEPT ![t] = Head(queue)]
    /\ queue' = Tail(queue)
    /\ tpc' = [tpc EXCEPT ![t] = "fetched"]
    /\ UNCHANGED <<gil, cpc, submitted, completed, results, issued, returned>>

\* Faulty variant: the job runs without taking the interpreter lock.
StartJobUnlocked(t) ==
    /\ tpc[t] = "fetched"
    /\ gil' = t
    /\ tpc' = [tpc EXCEPT ![t] = "running"]
    /\ UNCHANGED <<tjob, cpc, pool, issued, returned>>

\* interp_lock() before interp_invoke.
StartJob(t) ==
    /\ tpc[t] = "fetched"
    /\ gil = NoOne
    /\ gil' = t
    /\ tpc' = [tpc EXCEPT ![t] = "running"]
    /\ UNCHANGED <<tjob, cpc, pool, issued, returned>>

\* Faulty variant: a path out of the job that skips interp_unlock().
FinishJobLocked(t) ==
    /\ tpc[t] = "running"
    /\ tpc' = [tpc EXCEPT ![t] = "report"]
    /\ UNCHANGED <<gil, tjob, cpc, pool, issued, returned>>

\* The job function returned (or failed: interp_invoke then returns void);
\* interp_unlock().
FinishJob(t) ==
    /\ tpc[t] = "running"
    /\ gil' = NoOne
    /\ tpc' = [tpc EXCEPT ![t] = "report"]
    /\ UNCHANGED <<tjob, cpc, pool, issued, returned>>

\* Faulty variant: the counters are compared before the job is counted.
ReportTestsFirst(t) ==
    /\ tpc[t] = "report"
    /\ results' = Append(results, tjob[t])
    /\ completed' = completed + 1
    /\ IF completed >= submitted THEN SignalAllDone ELSE UNCHANGED cpc
    /\ tpc' = [tpc EXCEPT ![t] = "top"]
    /\ tjob' = [tjob EXCEPT ![t] = NoOne]
    /\ UNCHANGED <<gil, queue, submitted, issued, returned>>

\* Append the result, count it, and wake a waiter when the batch is complete.
Report(t) ==
    /\ tpc[t] = "report"
    /\ results' = Append(results, tjob[t])
    /\ completed' = completed + 1
    /\ IF completed' >= submitted THEN SignalAllDone ELSE UNCHANGED cpc
    /\ tpc' = [tpc EXCEPT ![t] = "top"]
    /\ tjob' = [tjob EXCEPT ![t] = NoOne]
    /\ UNCHANGED <<gil, queue, submitted, issued, returned>>
-----------------------------------------------------------------------------
(* The callers. *)

\* The main thread runs the script, or a route or WebSocket callback.
EnterScript ==
    /\ cpc[Main] = "out"
    /\ cpc' = [cpc EXCEPT ![Main] = "script"]
    /\ UNCHANGED <<gil, tpc, tjob, pool, issued, returned>>

LeaveScript ==
    /\ cpc[Main] = "script"
    /\ cpc' = [cpc EXCEPT ![Main] = "out"]
    /\ UNCHANGED <<gil, tpc, tjob, pool, issued, returned>>

\* timer_trampoline on the main thread, thread_main_func on a spawned one:
\* interp_lock() ... interp_unlock() around the call into Jaguar code.
EnterLocked(c) ==
    /\ cpc[c] = "out"
    /\ gil = NoOne
    /\ gil' = c
    /\ cpc' = [cpc EXCEPT ![c] = LockedContext(c)]
    /\ UNCHANGED <<tpc, tjob, pool, issued, returned>>

LeaveLocked(c) ==
    /\ cpc[c] = LockedContext(c)
    /\ gil' = NoOne
    /\ cpc' = [cpc EXCEPT ![c] = "out"]
    /\ UNCHANGED <<tpc, tjob, pool, issued, returned>>

\* Faulty variant: signal only when the queue was empty before.
PoolSubmitWakesIfEmpty(j) ==
    /\ j \notin issued
    /\ issued' = issued \cup {j}
    /\ queue' = Append(queue, j)
    /\ submitted' = submitted + 1
    /\ IF queue = <<>> THEN SignalJobAvailable ELSE UNCHANGED tpc
    /\ UNCHANGED <<gil, tjob, cpc, completed, results, returned>>

\* worker_pool_submit: link the job at the tail and signal job_available.
PoolSubmit(j) ==
    /\ j \notin issued
    /\ issued' = issued \cup {j}
    /\ queue' = Append(queue, j)
    /\ submitted' = submitted + 1
    /\ SignalJobAvailable
    /\ UNCHANGED <<gil, tjob, cpc, completed, results, returned>>

CallerSubmit(c, j) == cpc[c] \in Context /\ PoolSubmit(j)

JobSubmit(t, j) == tpc[t] = "running" /\ PoolSubmit(j)

\* worker_pool_wait_all locks pool->mu and tests the counters, on entry and
\* after every wake-up.
InWaitAll(c) == cpc[c] \in BlockingContexts \cup {"retest"}

WaitAllSleep(c) ==
    /\ InWaitAll(c)
    /\ completed < submitted
    /\ cpc' = [cpc EXCEPT ![c] = "all_done"]
    /\ UNCHANGED <<gil, tpc, tjob, pool, issued, returned>>

\* Faulty variant: only one of the two counters is reset.
WaitAllReturnNoReset(c) ==
    /\ InWaitAll(c)
    /\ ~(completed < submitted)
    /\ returned' = [returned EXCEPT ![c] = results]
    /\ results' = <<>>
    /\ submitted' = 0
    /\ cpc' = [cpc EXCEPT ![c] = IF gil = c THEN LockedContext(c) ELSE "script"]
    /\ UNCHANGED <<gil, tpc, tjob, queue, completed, issued>>

\* Faulty variant: "if" for "while", so a spurious wake-up ends the wait.
WaitAllReturnOnWake(c) ==
    /\ InWaitAll(c)
    /\ cpc[c] = "retest" \/ ~(completed < submitted)
    /\ returned' = [returned EXCEPT ![c] = results]
    /\ results' = <<>>
    /\ submitted' = 0
    /\ completed' = 0
    /\ cpc' = [cpc EXCEPT ![c] = IF gil = c THEN LockedContext(c) ELSE "script"]
    /\ UNCHANGED <<gil, tpc, tjob, queue, issued>>

\* Nothing is outstanding: take the result list, reset the counters, and go
\* back to the context of the call (its callback runs there).
WaitAllReturn(c) ==
    /\ InWaitAll(c)
    /\ ~(completed < submitted)
    /\ returned' = [returned EXCEPT ![c] = results]
    /\ results' = <<>>
    /\ submitted' = 0
    /\ completed' = 0
    /\ cpc' = [cpc EXCEPT ![c] = IF gil = c THEN LockedContext(c) ELSE "script"]
    /\ UNCHANGED <<gil, tpc, tjob, queue, issued>>
-----------------------------------------------------------------------------
ThreadStep(t) ==
    \/ WaitForJob(t) \/ TakeJob(t) \/ StartJob(t) \/ FinishJob(t) \/ Report(t)
    \/ SpuriousThreadWake(t)
    \/ \E j \in Job : JobSubmit(t, j)

CallerStep(c) ==
    \/ EnterLocked(c) \/ LeaveLocked(c)
    \/ \E j \in Job : CallerSubmit(c, j)
    \/ WaitAllSleep(c) \/ WaitAllReturn(c)
    \/ SpuriousCallerWake(c)

Next ==
    \/ \E t \in Thread : ThreadStep(t)
    \/ \E c \in Caller : CallerStep(c)
    \/ EnterScript \/ LeaveScript

Spec == Init /\ [][Next]_vars

\* Threads are scheduled; a thread blocked on a mutex that is released again
\* and again gets it eventually (strong fairness of StartJob); job functions
\* and callbacks return.
Fairness ==
    /\ \A t \in Thread :
        /\ WF_vars(WaitForJob(t)) /\ WF_vars(TakeJob(t))
        /\ SF_vars(StartJob(t))
        /\ WF_vars(FinishJob(t)) /\ WF_vars(Report(t))
    /\ \A c \in Caller :
        /\ WF_vars(LeaveLocked(c))
        /\ WF_vars(cpc[c] = "retest" /\ (WaitAllSleep(c) \/ WaitAllReturn(c)))

FairSpec == Spec /\ Fairness
-----------------------------------------------------------------------------
(* Properties. *)

\* Every variable of the pool model keeps its type.
TypeOK ==
    /\ gil \in {NoOne} \cup Thread \cup Caller
    /\ tpc \in [Thread -> ThreadPc]
    /\ tjob \in [Thread -> Job \cup {NoOne}]
    /\ cpc \in [Caller -> CallerPc]
    /\ queue \in Seq(Job)
    /\ submitted \in Nat /\ completed \in Nat
    /\ results \in Seq(Job)
    /\ issued \subseteq Job
    /\ returned \in [Caller -> Seq(Job)]

\* The two counters of worker.c, which are all wait_all() looks at, always
\* agree with where the jobs really are: what was submitted and not yet
\* counted as completed is queued or in a thread's hands, across resets of the
\* counters and submits that race with a wait.
Accounting ==
    /\ completed = Len(results)
    /\ submitted = Len(queue) + Cardinality(InFlight) + Len(results)

\* No pool thread sleeps on job_available while there is a queued job that no
\* awake thread is coming for: one cond_signal per submit is enough, although
\* a busy thread may steal the job a woken thread was signalled for.
NoSleepWhileJobQueued ==
    Sleeping # {} => Len(queue) <= Cardinality(Top)

\* A caller asleep in wait_all() has something to wait for, or another caller
\* has been woken and will look: the single cond_signal in pool_thread_main
\* never leaves a waiter behind.
NoStrandedWaiter ==
    AsleepInWaitAll # {} =>
        \/ completed < submitted
        \/ \E c \in Caller : cpc[c] = "retest"

\* A job in a thread's hands or a callback in a locked context is inside
\* interp_lock(), including while it sleeps in wait_all(): two workers never
\* run interpreter code at the same time (DESIGN_DECISIONS.md).
OneInterpreter ==
    /\ \A t \in Thread : tpc[t] = "running" <=> gil = t
    /\ \A c \in Caller :
        /\ cpc[c] = LockedContext(c) => gil = c
        /\ gil = c => cpc[c] \in {LockedContext(c), "all_done", "retest"}

\* .onAll() comes back: a caller that sleeps in wait_all() returns from it.
OnAllReturns ==
    \A c \in Caller : cpc[c] = "all_done" ~> cpc[c] \in Context

\* Every submitted job is eventually run and reported.
JobsFinish ==
    \A j \in Job : j \in issued ~>
        /\ \A i \in DOMAIN queue : queue[i] # j
        /\ \A t \in Thread : tjob[t] # j

\* The pool implements the batch executor: the open batch is what is queued,
\* in a thread's hands or in the result list.
Members(s) == {s[i] : i \in DOMAIN s}
InHand == {tjob[t] : t \in InFlight}
Open == Members(queue) \cup InHand \cup Members(results)

Batch == INSTANCE BatchExecutor WITH open <- Open, finished <- results

\* Counters, condition variables and locks together deliver exactly the jobs
\* of a batch, each once, and only when all of them have finished.
ImplementsBatchExecutor == Batch!Spec
=============================================================================
