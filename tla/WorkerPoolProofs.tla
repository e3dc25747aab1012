-------------------------- MODULE WorkerPoolProofs --------------------------
(***************************************************************************)
(* What holds of the worker pool for any number of threads, callers and    *)
(* jobs.                                                                   *)
(***************************************************************************)
EXTENDS WorkerPool, FiniteSetTheorems, TLAPS

\* A pool thread has a job in hand exactly between taking it off the queue
\* and reporting it (the local variable job of pool_thread_main).
HandsFull == \A t \in Thread : t \in InFlight <=> tjob[t] # NoOne

TypeInv == TypeOK /\ HandsFull

\* The fact behind every later proof: types and hands are preserved by every
\* step of the pool.
LEMMA TypeInvStep == TypeInv /\ [Next]_vars => TypeInv'
<1> SUFFICES ASSUME TypeInv, [Next]_vars PROVE TypeInv'
    OBVIOUS
<1> USE PoolAssumption DEF TypeInv, TypeOK, HandsFull, InFlight, ThreadPc,
        CallerPc, Context
<1>1. ASSUME NEW t \in Thread, SpuriousThreadWake(t) PROVE TypeInv'
    BY <1>1 DEF SpuriousThreadWake, pool
<1>2. ASSUME NEW c \in Caller, SpuriousCallerWake(c) PROVE TypeInv'
    BY <1>2 DEF SpuriousCallerWake, pool
<1>3. ASSUME NEW t \in Thread, WaitForJob(t) PROVE TypeInv'
    BY <1>3 DEF WaitForJob, pool
<1>4. ASSUME NEW t \in Thread, TakeJob(t) PROVE TypeInv'
    <2>1. Head(queue) \in Job /\ Tail(queue) \in Seq(Job)
        BY <1>4 DEF TakeJob
    <2>2. QED
        BY <1>4, <2>1 DEF TakeJob
<1>5. ASSUME NEW t \in Thread, StartJob(t) PROVE TypeInv'
    BY <1>5 DEF StartJob, pool
<1>6. ASSUME NEW t \in Thread, FinishJob(t) PROVE TypeInv'
    BY <1>6 DEF FinishJob, pool
<1>7. ASSUME NEW t \in Thread, Report(t) PROVE TypeInv'
    <2>1. tjob[t] \in Job
        BY <1>7 DEF Report
    <2>2. results' \in Seq(Job)
        BY <1>7, <2>1 DEF Report
    <2>3. cpc' \in [Caller -> CallerPc]
        BY <1>7 DEF Report, SignalAllDone, AsleepInWaitAll
    <2>4. QED
        BY <1>7, <2>2, <2>3 DEF Report
<1>8. ASSUME NEW j \in Job, PoolSubmit(j) PROVE TypeInv'
    <2>1. queue' \in Seq(Job)
        BY <1>8 DEF PoolSubmit
    <2>2. tpc' \in [Thread -> ThreadPc] /\ InFlight' = InFlight
        BY <1>8 DEF PoolSubmit, SignalJobAvailable, Sleeping
    <2>3. QED
        BY <1>8, <2>1, <2>2 DEF PoolSubmit
<1>9. CASE EnterScript \/ LeaveScript
    BY <1>9 DEF EnterScript, LeaveScript, pool
<1>10. ASSUME NEW c \in Caller, EnterLocked(c) \/ LeaveLocked(c) PROVE TypeInv'
    BY <1>10 DEF EnterLocked, LeaveLocked, LockedContext, pool
<1>11. ASSUME NEW c \in Caller, WaitAllSleep(c) PROVE TypeInv'
    BY <1>11 DEF WaitAllSleep, pool
<1>12. ASSUME NEW c \in Caller, WaitAllReturn(c) PROVE TypeInv'
    BY <1>12 DEF WaitAllReturn, LockedContext
<1>13. CASE UNCHANGED vars
    BY <1>13 DEF vars, pool
<1>14. QED
    BY <1>1, <1>2, <1>3, <1>4, <1>5, <1>6, <1>7, <1>8, <1>9, <1>10, <1>11,
       <1>12, <1>13
    DEF Next, ThreadStep, CallerStep, JobSubmit, CallerSubmit

LEMMA TypeInvHolds == Spec => []TypeInv
<1>1. Init => TypeInv
    BY PoolAssumption DEF Init, TypeInv, TypeOK, HandsFull, InFlight, ThreadPc,
       CallerPc
<1>2. QED
    BY <1>1, TypeInvStep, PTL DEF Spec

\* Every reachable state of the pool is type correct, for any number of
\* threads, callers and jobs (worker.c, interp.c).
THEOREM TypeCorrect == Spec => []TypeOK
    BY TypeInvHolds, PTL DEF TypeInv
-----------------------------------------------------------------------------
(* Counting. *)

\* The sets of threads the invariants count are finite.
LEMMA ThreadSets ==
    /\ IsFiniteSet(InFlight) /\ Cardinality(InFlight) \in Nat
    /\ IsFiniteSet(Top) /\ Cardinality(Top) \in Nat
<1>1. InFlight \in SUBSET Thread /\ Top \in SUBSET Thread
    BY DEF InFlight, Top
<1>2. IsFiniteSet(InFlight) /\ IsFiniteSet(Top)
    BY <1>1, PoolAssumption, FS_Subset
<1>3. QED
    BY <1>2, FS_CardinalityType

\* How a change of one thread's position changes those sets.
LEMMA Moves ==
    ASSUME TypeOK, NEW t \in Thread, NEW p \in ThreadPc,
           tpc' = [tpc EXCEPT ![t] = p]
    PROVE  /\ InFlight' = IF p \in {"fetched", "running", "report"}
                          THEN InFlight \cup {t} ELSE InFlight \ {t}
           /\ Top' = IF p = "top" THEN Top \cup {t} ELSE Top \ {t}
           /\ Sleeping' = IF p = "job_available"
                          THEN Sleeping \cup {t} ELSE Sleeping \ {t}
    BY DEF TypeOK, InFlight, Top, Sleeping

\* Every step preserves the agreement of the counters with the jobs.
LEMMA AccountingStep ==
    ASSUME TypeInv, Accounting, [Next]_vars PROVE Accounting'
<1> USE DEF Accounting
<1>0. /\ TypeOK /\ Len(queue) \in Nat /\ Len(results) \in Nat
      /\ \A t \in Thread : t \in InFlight => tjob[t] \in Job
    BY DEF TypeInv, TypeOK, HandsFull
<1>1. ASSUME InFlight' = InFlight, UNCHANGED pool PROVE Accounting'
    BY <1>1 DEF pool
<1>2. ASSUME NEW t \in Thread,
             SpuriousThreadWake(t) \/ WaitForJob(t) \/ StartJob(t) \/ FinishJob(t)
      PROVE  Accounting'
    <2>1. UNCHANGED pool
        BY <1>2 DEF SpuriousThreadWake, WaitForJob, StartJob, FinishJob
    <2>2. InFlight' = InFlight
        BY <1>0, <1>2 DEF SpuriousThreadWake, WaitForJob, StartJob, FinishJob,
            InFlight, TypeOK
    <2>3. QED
        BY <1>1, <2>1, <2>2
<1>3. ASSUME NEW t \in Thread, TakeJob(t) PROVE Accounting'
    <2>1. InFlight' = InFlight \cup {t} /\ t \notin InFlight
        BY <1>0, <1>3, Moves DEF TakeJob, InFlight, ThreadPc
    <2>2. Cardinality(InFlight') = Cardinality(InFlight) + 1
        BY <2>1, ThreadSets, FS_AddElement
    <2>3. Len(queue') = Len(queue) - 1
        BY <1>0, <1>3 DEF TakeJob, TypeOK
    <2>4. QED
        BY <1>0, <1>3, <2>2, <2>3, ThreadSets DEF TakeJob
<1>4. ASSUME NEW t \in Thread, Report(t) PROVE Accounting'
    <2>1. InFlight' = InFlight \ {t} /\ t \in InFlight
        BY <1>0, <1>4, Moves DEF Report, InFlight, ThreadPc
    <2>2. Cardinality(InFlight') = Cardinality(InFlight) - 1
        BY <2>1, ThreadSets, FS_RemoveElement
    <2>3. Len(results') = Len(results) + 1
        BY <1>0, <1>4, <2>1 DEF Report, TypeOK
    <2>4. completed' = completed + 1 /\ UNCHANGED <<submitted, queue>>
        BY <1>4 DEF Report
    <2>5. Cardinality(InFlight) \in Nat /\ Len(queue') = Len(queue)
        BY <2>4, ThreadSets
    <2>6. Len(queue) \in Nat /\ Len(results) \in Nat
        BY <1>0
    <2>7. submitted' = Len(queue') + Cardinality(InFlight') + Len(results')
        BY <2>2, <2>3, <2>4, <2>5, <2>6
    <2>8. QED
        BY <2>3, <2>4, <2>7
<1>5. ASSUME NEW j \in Job, PoolSubmit(j) PROVE Accounting'
    <2>1. InFlight' = InFlight
        BY <1>0, <1>5 DEF PoolSubmit, SignalJobAvailable, Sleeping, InFlight,
            TypeOK
    <2>2. Len(queue') = Len(queue) + 1
        BY <1>0, <1>5 DEF PoolSubmit, TypeOK
    <2>3. QED
        BY <1>0, <1>5, <2>1, <2>2, ThreadSets DEF PoolSubmit
<1>6. ASSUME NEW c \in Caller,
             EnterLocked(c) \/ LeaveLocked(c) \/ WaitAllSleep(c)
                \/ SpuriousCallerWake(c)
      PROVE  Accounting'
    BY <1>1, <1>6 DEF EnterLocked, LeaveLocked, WaitAllSleep,
       SpuriousCallerWake, InFlight
<1>7. CASE EnterScript \/ LeaveScript
    BY <1>1, <1>7 DEF EnterScript, LeaveScript, InFlight
<1>8. ASSUME NEW c \in Caller, WaitAllReturn(c) PROVE Accounting'
    <2>1. Len(queue) = 0 /\ Cardinality(InFlight) = 0
        BY <1>0, <1>8, ThreadSets DEF WaitAllReturn
    <2>2. InFlight' = InFlight /\ queue' = queue
        BY <1>8 DEF WaitAllReturn, InFlight
    <2>3. QED
        BY <1>8, <2>1, <2>2 DEF WaitAllReturn
<1>9. CASE UNCHANGED vars
    BY <1>1, <1>9 DEF vars, InFlight
<1>10. QED
    BY <1>2, <1>3, <1>4, <1>5, <1>6, <1>7, <1>8, <1>9
    DEF Next, ThreadStep, CallerStep, JobSubmit, CallerSubmit

\* The counters wait_all() tests always say where the jobs are
\* (worker_pool_submit, pool_thread_main, worker_pool_wait_all).
THEOREM AccountingCorrect == Spec => []Accounting
<1>1. Init => Accounting
    <2>1. SUFFICES ASSUME Init PROVE Accounting
        OBVIOUS
    <2>2. InFlight = {}
        BY <2>1 DEF Init, InFlight
    <2>3. QED
        BY <2>1, <2>2, FS_EmptySet DEF Init, Accounting
<1>2. TypeInv /\ Accounting /\ [Next]_vars => Accounting'
    BY AccountingStep
<1>3. QED
    BY <1>1, <1>2, TypeInvHolds, PTL DEF Spec
-----------------------------------------------------------------------------
(* Wake-ups. *)

\* Every step keeps the awake threads numerous enough for the queued jobs.
LEMMA NoSleepStep ==
    ASSUME TypeInv, NoSleepWhileJobQueued, [Next]_vars
    PROVE  NoSleepWhileJobQueued'
<1> USE DEF NoSleepWhileJobQueued
<1>0. TypeOK /\ Len(queue) \in Nat
    BY DEF TypeInv, TypeOK
<1>1. ASSUME UNCHANGED <<tpc, queue>> PROVE NoSleepWhileJobQueued'
    BY <1>1 DEF Sleeping, Top
<1>2. ASSUME NEW t \in Thread, WaitForJob(t) PROVE NoSleepWhileJobQueued'
    <2>1. Len(queue') = 0
        BY <1>2 DEF WaitForJob, pool
    <2>2. Top' = Top \ {t}
        BY <1>0, <1>2, Moves DEF WaitForJob, ThreadPc
    <2>3. Cardinality(Top') \in Nat
        BY <2>2, ThreadSets, FS_RemoveElement, FS_CardinalityType
    <2>4. QED
        BY <2>1, <2>3
<1>3. ASSUME NEW t \in Thread, TakeJob(t) PROVE NoSleepWhileJobQueued'
    <2>1. /\ Top' = Top \ {t} /\ t \in Top
          /\ Sleeping' = Sleeping
        BY <1>0, <1>3, Moves DEF TakeJob, ThreadPc, Top, Sleeping
    <2>2. Cardinality(Top') = Cardinality(Top) - 1
        BY <2>1, ThreadSets, FS_RemoveElement
    <2>3. Len(queue') = Len(queue) - 1
        BY <1>0, <1>3 DEF TakeJob, TypeOK
    <2>4. QED
        BY <1>0, <2>1, <2>2, <2>3, ThreadSets
<1>4. ASSUME NEW t \in Thread, StartJob(t) \/ FinishJob(t)
      PROVE  NoSleepWhileJobQueued'
    <2>1. Top' = Top /\ Sleeping' = Sleeping /\ queue' = queue
        BY <1>0, <1>4 DEF StartJob, FinishJob, Top, Sleeping, TypeOK, pool
    <2>2. QED
        BY <2>1
<1>5. ASSUME NEW t \in Thread, t \notin Top, queue' = queue,
             tpc' = [tpc EXCEPT ![t] = "top"]
      PROVE  NoSleepWhileJobQueued'
    <2>1. Top' = Top \cup {t} /\ Sleeping' \subseteq Sleeping
        <3>1. "top" \in ThreadPc
            BY DEF ThreadPc
        <3>2. QED
            BY <1>0, <1>5, <3>1, Moves
    <2>2. Cardinality(Top') = Cardinality(Top) + 1
        BY <1>5, <2>1, ThreadSets, FS_AddElement
    <2>3. QED
        BY <1>0, <1>5, <2>1, <2>2, ThreadSets
<1>6. ASSUME NEW t \in Thread, Report(t) \/ SpuriousThreadWake(t)
      PROVE  NoSleepWhileJobQueued'
    BY <1>5, <1>6 DEF Report, SpuriousThreadWake, Top, pool
<1>7. ASSUME NEW j \in Job, PoolSubmit(j) PROVE NoSleepWhileJobQueued'
    <2>1. Len(queue') = Len(queue) + 1
        BY <1>0, <1>7 DEF PoolSubmit, TypeOK
    <2>2. CASE Sleeping = {}
        <3>1. Sleeping' = {}
            BY <1>7, <2>2 DEF PoolSubmit, SignalJobAvailable, Sleeping
        <3>2. QED
            BY <3>1
    <2>3. CASE Sleeping # {}
        <3>1. PICK t \in Sleeping : tpc' = [tpc EXCEPT ![t] = "top"]
            BY <1>7, <2>3 DEF PoolSubmit, SignalJobAvailable
        <3>2. t \in Thread /\ t \notin Top
            BY <3>1 DEF Sleeping, Top
        <3>3. Top' = Top \cup {t}
            BY <1>0, <3>1, <3>2, Moves DEF ThreadPc
        <3>4. Cardinality(Top') = Cardinality(Top) + 1
            BY <3>2, <3>3, ThreadSets, FS_AddElement
        <3>5. QED
            BY <1>0, <2>1, <2>3, <3>4, ThreadSets
    <2>4. QED
        BY <2>2, <2>3
<1>8. ASSUME NEW c \in Caller,
             EnterLocked(c) \/ LeaveLocked(c) \/ WaitAllSleep(c)
                \/ WaitAllReturn(c) \/ SpuriousCallerWake(c)
      PROVE  NoSleepWhileJobQueued'
    BY <1>1, <1>8 DEF EnterLocked, LeaveLocked, WaitAllSleep, WaitAllReturn,
       SpuriousCallerWake, pool
<1>9. CASE EnterScript \/ LeaveScript \/ UNCHANGED vars
    BY <1>1, <1>9 DEF EnterScript, LeaveScript, vars, pool
<1>10. QED
    BY <1>2, <1>3, <1>4, <1>6, <1>7, <1>8, <1>9
    DEF Next, ThreadStep, CallerStep, JobSubmit, CallerSubmit

\* No wake-up is lost between worker_pool_submit and pool_thread_main: a pool
\* thread never sleeps while a queued job has no awake thread coming for it.
THEOREM NoLostJobWakeup == Spec => []NoSleepWhileJobQueued
<1>1. Init => NoSleepWhileJobQueued
    BY DEF Init, NoSleepWhileJobQueued, Sleeping
<1>2. TypeInv /\ NoSleepWhileJobQueued /\ [Next]_vars => NoSleepWhileJobQueued'
    BY NoSleepStep
<1>3. QED
    BY <1>1, <1>2, TypeInvHolds, PTL DEF Spec
-----------------------------------------------------------------------------
(* The interpreter lock. *)

\* Every step keeps the lock with the code that runs under it.
LEMMA OneInterpreterStep ==
    ASSUME TypeInv, OneInterpreter, [Next]_vars PROVE OneInterpreter'
<1> USE PoolAssumption DEF OneInterpreter, TypeInv, TypeOK, Context, CallerPc,
        LockedContext
<1>1. ASSUME NEW t \in Thread,
             SpuriousThreadWake(t) \/ WaitForJob(t) \/ TakeJob(t)
      PROVE  OneInterpreter'
    BY <1>1 DEF SpuriousThreadWake, WaitForJob, TakeJob
<1>2. ASSUME NEW t \in Thread, StartJob(t) PROVE OneInterpreter'
    BY <1>2 DEF StartJob
<1>3. ASSUME NEW t \in Thread, FinishJob(t) PROVE OneInterpreter'
    BY <1>3 DEF FinishJob
<1>4. ASSUME NEW t \in Thread, Report(t) PROVE OneInterpreter'
    BY <1>4 DEF Report, SignalAllDone, AsleepInWaitAll
<1>5. ASSUME NEW j \in Job, PoolSubmit(j) PROVE OneInterpreter'
    BY <1>5 DEF PoolSubmit, SignalJobAvailable, Sleeping
<1>6. CASE EnterScript \/ LeaveScript
    BY <1>6 DEF EnterScript, LeaveScript, Caller
<1>7. ASSUME NEW c \in Caller, EnterLocked(c) \/ LeaveLocked(c)
      PROVE  OneInterpreter'
    <2>1. CASE EnterLocked(c)
        BY <2>1 DEF EnterLocked
    <2>2. CASE LeaveLocked(c)
        BY <2>2 DEF LeaveLocked
    <2>3. QED
        BY <1>7, <2>1, <2>2
<1>8. ASSUME NEW c \in Caller,
             WaitAllSleep(c) \/ WaitAllReturn(c) \/ SpuriousCallerWake(c)
      PROVE  OneInterpreter'
    BY <1>8 DEF WaitAllSleep, WaitAllReturn, SpuriousCallerWake
<1>9. CASE UNCHANGED vars
    BY <1>9 DEF vars
<1>10. QED
    BY <1>1, <1>2, <1>3, <1>4, <1>5, <1>6, <1>7, <1>8, <1>9
    DEF Next, ThreadStep, CallerStep, JobSubmit, CallerSubmit

\* Interpreter code of workers is serialised by interp_lock() whatever the
\* number of pool threads, spawned threads and timer callbacks.
THEOREM WorkersSerialised == Spec => []OneInterpreter
<1>1. Init => OneInterpreter
    BY PoolAssumption DEF Init, OneInterpreter, LockedContext
<1>2. TypeInv /\ OneInterpreter /\ [Next]_vars => OneInterpreter'
    BY OneInterpreterStep
<1>3. QED
    BY <1>1, <1>2, TypeInvHolds, PTL DEF Spec
-----------------------------------------------------------------------------
(* One waiter. *)

\* Not both: scripts, which wait without the lock, and worker functions.
OneSideWaits == "script" \notin BlockingContexts \/ "spawn" \notin BlockingContexts

Waiting(c) == cpc[c] \in {"all_done", "retest"}

\* Where the callers inside wait_all() came from, and that nobody sleeps there
\* for nothing.
Waits ==
    /\ \A c \in Caller :
        /\ cpc[c] \in Context => cpc[c] = LockedContext(c) \/ (c = Main /\ cpc[c] = "script")
        /\ Waiting(c) => \/ gil = c /\ LockedContext(c) \in BlockingContexts
                         \/ c = Main /\ gil # c /\ "script" \in BlockingContexts
    /\ AsleepInWaitAll # {} => completed < submitted

WaitInv == TypeInv /\ OneInterpreter /\ Waits

\* Two callers in wait_all() would both hold the lock or both be the main
\* thread.
LEMMA WaiterAlone ==
    ASSUME OneSideWaits, WaitInv, NEW c \in Caller, NEW d \in Caller,
           Waiting(c), Waiting(d) \/ InWaitAll(d)
    PROVE  c = d
<1> USE PoolAssumption DEF Waiting, LockedContext, Context
<1>1. \/ gil = c /\ LockedContext(c) \in BlockingContexts
      \/ c = Main /\ gil # c /\ "script" \in BlockingContexts
    BY DEF WaitInv, Waits
<1>2. \/ gil = d /\ LockedContext(d) \in BlockingContexts
      \/ d = Main /\ gil # d /\ "script" \in BlockingContexts
    <2>1. CASE Waiting(d)
        BY <2>1 DEF WaitInv, Waits
    <2>2. CASE cpc[d] \in BlockingContexts
        <3>1. cpc[d] \in Context
            BY <2>2
        <3>2. CASE cpc[d] = LockedContext(d)
            BY <2>2, <3>2 DEF WaitInv, OneInterpreter
        <3>3. CASE d = Main /\ cpc[d] = "script"
            BY <2>2, <3>3 DEF WaitInv, OneInterpreter
        <3>4. QED
            BY <3>1, <3>2, <3>3 DEF WaitInv, Waits
    <2>3. QED
        BY <2>1, <2>2 DEF InWaitAll
<1>3. QED
    BY <1>1, <1>2 DEF OneSideWaits

LEMMA WaitsStep ==
    ASSUME OneSideWaits, WaitInv, [Next]_vars
    PROVE  Waits'
<1> USE PoolAssumption DEF Waiting, LockedContext, AsleepInWaitAll
<1>0. TypeOK /\ OneInterpreter /\ Waits
    BY DEF WaitInv, TypeInv
<1>1. ASSUME UNCHANGED <<gil, cpc, submitted, completed>> PROVE Waits'
    BY <1>0, <1>1 DEF Waits
<1>2. ASSUME NEW t \in Thread, SpuriousThreadWake(t) \/ WaitForJob(t) \/ TakeJob(t)
      PROVE  Waits'
    BY <1>1, <1>2 DEF SpuriousThreadWake, WaitForJob, TakeJob, pool
<1>3. ASSUME NEW t \in Thread, StartJob(t) \/ FinishJob(t) PROVE Waits'
    <2>1. gil \notin Caller /\ gil' \notin Caller
        BY <1>0, <1>3 DEF StartJob, FinishJob, OneInterpreter, TypeOK, Caller
    <2>2. UNCHANGED <<cpc, submitted, completed>>
        BY <1>3 DEF StartJob, FinishJob, pool
    <2>3. QED
        BY <1>0, <2>1, <2>2 DEF Waits
<1>4. ASSUME NEW t \in Thread, Report(t) PROVE Waits'
    <2>1. completed' = completed + 1 /\ UNCHANGED <<gil, submitted>>
        BY <1>4 DEF Report
    <2>2. CASE completed' >= submitted
        <3>1. SignalAllDone
            BY <1>4, <2>2 DEF Report
        <3>2. \A c, d \in AsleepInWaitAll : c = d
            BY WaiterAlone
        <3>3. AsleepInWaitAll' = {}
            BY <1>0, <3>1, <3>2 DEF SignalAllDone, TypeOK
        <3>4. \A c \in Caller :
                cpc'[c] = cpc[c] \/ (cpc[c] = "all_done" /\ cpc'[c] = "retest")
            BY <1>0, <3>1 DEF SignalAllDone, TypeOK
        <3>5. QED
            BY <1>0, <2>1, <3>3, <3>4 DEF Waits, Context
    <2>3. CASE ~(completed' >= submitted)
        <3>1. UNCHANGED cpc
            BY <1>4, <2>3 DEF Report
        <3>2. QED
            BY <1>0, <2>1, <2>3, <3>1 DEF TypeOK, Waits
    <2>4. QED
        BY <2>2, <2>3
<1>5. ASSUME NEW j \in Job, PoolSubmit(j) PROVE Waits'
    BY <1>0, <1>5 DEF PoolSubmit, TypeOK, Waits
<1>6. CASE EnterScript \/ LeaveScript
    BY <1>0, <1>6 DEF EnterScript, LeaveScript, TypeOK, pool, Waits, Caller, Context
<1>7. ASSUME NEW c \in Caller, EnterLocked(c) \/ LeaveLocked(c) PROVE Waits'
    <2>1. UNCHANGED <<submitted, completed>> /\ cpc[c] # "all_done" /\ cpc'[c] \notin {"all_done", "retest"}
        BY <1>0, <1>7 DEF EnterLocked, LeaveLocked, TypeOK, pool
    <2>2. \A d \in Caller : d # c => cpc'[d] = cpc[d] /\ gil # d /\ gil' # d
        BY <1>0, <1>7 DEF EnterLocked, LeaveLocked, TypeOK, OneInterpreter
    <2>3. cpc'[c] \in Context => cpc'[c] = LockedContext(c)
        BY <1>0, <1>7 DEF EnterLocked, LeaveLocked, TypeOK, Context
    <2>4. QED
        BY <1>0, <2>1, <2>2, <2>3 DEF Waits
<1>8. ASSUME NEW c \in Caller, WaitAllSleep(c) \/ SpuriousCallerWake(c) PROVE Waits'
    BY <1>0, <1>8, ZenonT(40) DEF WaitAllSleep, SpuriousCallerWake, InWaitAll, TypeOK, pool, Waits,
       Context, OneInterpreter
<1>9. ASSUME NEW c \in Caller, WaitAllReturn(c) PROVE Waits'
    <2>1. \A d \in AsleepInWaitAll : d = c
        BY <1>9, WaiterAlone DEF WaitAllReturn
    <2>2. cpc[c] # "all_done"
        BY <1>9 DEF WaitAllReturn, InWaitAll, Context
    <2>3. AsleepInWaitAll' = {}
        BY <1>0, <1>9, <2>1, <2>2 DEF WaitAllReturn, TypeOK
    <2>4. gil # c => c = Main
        BY <1>0, <1>9 DEF WaitAllReturn, InWaitAll, Waits, Context, OneInterpreter
    <2>5. QED
        BY <1>0, <1>9, <2>3, <2>4 DEF WaitAllReturn, TypeOK, Waits, Context
<1>10. CASE UNCHANGED vars
    BY <1>1, <1>10 DEF vars, pool
<1>11. QED
    BY <1>2, <1>3, <1>4, <1>5, <1>6, <1>7, <1>8, <1>9, <1>10
    DEF Next, ThreadStep, CallerStep, JobSubmit, CallerSubmit

\* As long as scripts and worker functions do not both call .onAll(), the one
\* signal on all_done is enough: no waiter sleeps when its batch is complete.
THEOREM NoWaiterStranded ==
    ASSUME OneSideWaits
    PROVE  Spec => []NoStrandedWaiter
<1>1. Init => WaitInv
    <2>1. Init => TypeInv /\ OneInterpreter
        BY PoolAssumption DEF Init, TypeInv, TypeOK, HandsFull, InFlight, ThreadPc,
           CallerPc, OneInterpreter, LockedContext
    <2>2. Init => Waits
        BY DEF Init, Waits, Waiting, Context, AsleepInWaitAll
    <2>3. QED
        BY <2>1, <2>2 DEF WaitInv
<1>2. WaitInv /\ [Next]_vars => WaitInv'
    BY TypeInvStep, OneInterpreterStep, WaitsStep DEF WaitInv
<1>3. WaitInv => NoStrandedWaiter
    BY DEF WaitInv, Waits, NoStrandedWaiter
<1>4. QED
    BY <1>1, <1>2, <1>3, PTL DEF Spec
-----------------------------------------------------------------------------
(* The pool implements the batch executor. *)

NoRepeats(s) == \A i, k \in DOMAIN s : s[i] = s[k] => i = k

\* A job is in one place: queued once, in one thread's hands, or reported once;
\* and every job in the pool was submitted.
OnePlace ==
    /\ NoRepeats(queue)
    /\ NoRepeats(results)
    /\ \A t, u \in InFlight : tjob[t] = tjob[u] => t = u
    /\ Members(queue) \cap InHand = {}
    /\ Members(queue) \cap Members(results) = {}
    /\ InHand \cap Members(results) = {}
    /\ Open \subseteq issued

\* What Append and Tail do to the members of a sequence without repeats.
LEMMA AppendMembers ==
    ASSUME NEW S, NEW s \in Seq(S), NEW e \in S
    PROVE  /\ Members(Append(s, e)) = Members(s) \cup {e}
           /\ NoRepeats(s) /\ e \notin Members(s) => NoRepeats(Append(s, e))
<1> DEFINE a == Append(s, e)
           n == Len(s)
<1>1. /\ n \in Nat
      /\ DOMAIN s = 1 .. n
      /\ DOMAIN a = 1 .. n + 1
      /\ a[n + 1] = e
      /\ \A i \in 1 .. n : a[i] = s[i]
    OBVIOUS
<1> HIDE DEF a, n
<1>2. DOMAIN a = DOMAIN s \cup {n + 1} /\ n + 1 \notin DOMAIN s
    BY <1>1
<1>3. \A i \in DOMAIN s : a[i] = s[i]
    BY <1>1
<1>4. QED
    BY <1>1, <1>2, <1>3 DEF Members, NoRepeats, a

LEMMA TailMembers ==
    ASSUME NEW S, NEW s \in Seq(S), s # <<>>, NoRepeats(s)
    PROVE  /\ Members(s) = Members(Tail(s)) \cup {Head(s)}
           /\ Head(s) \notin Members(Tail(s))
           /\ NoRepeats(Tail(s))
<1> DEFINE r == Tail(s)
           n == Len(s)
<1>1. /\ n \in Nat \ {0}
      /\ DOMAIN s = 1 .. n
      /\ DOMAIN r = 1 .. n - 1
      /\ Head(s) = s[1]
      /\ \A i \in 1 .. n - 1 : r[i] = s[i + 1]
    OBVIOUS
<1> HIDE DEF r, n
<1>2. \A i \in DOMAIN s : i = 1 \/ i - 1 \in DOMAIN r
    BY <1>1
<1>3. \A i \in DOMAIN r : i + 1 \in DOMAIN s /\ i + 1 # 1 /\ r[i] = s[i + 1]
    BY <1>1
<1>4. \A i \in DOMAIN s : s[i] = Head(s) \/ s[i] \in Members(r)
    <2>1. TAKE i \in DOMAIN s
    <2>2. CASE i = 1
        BY <1>1, <2>2
    <2>3. CASE i - 1 \in DOMAIN r
        <3>1. r[i - 1] = s[i]
            BY <1>1, <2>3
        <3>2. QED
            BY <2>3, <3>1 DEF Members
    <2>4. QED
        BY <1>2, <2>2, <2>3
<1>5. Head(s) \in Members(s)
    BY <1>1 DEF Members
<1>6. \A i, k \in DOMAIN r : i + 1 = k + 1 => i = k
    BY <1>1
<1>7. Members(r) \subseteq Members(s)
    BY <1>3 DEF Members
<1>8. Head(s) \notin Members(r)
    BY <1>1, <1>3 DEF Members, NoRepeats
<1>9. NoRepeats(r)
    BY <1>1, <1>3, <1>6 DEF NoRepeats
<1>10. Members(s) = Members(r) \cup {Head(s)}
    BY <1>4, <1>5, <1>7 DEF Members
<1>11. QED
    BY <1>8, <1>9, <1>10 DEF r

\* A step that only moves a thread between in-flight positions, or wakes it,
\* leaves the jobs in hand alone.
LEMMA SameHands ==
    ASSUME InFlight' = InFlight, UNCHANGED tjob PROVE InHand' = InHand
    BY DEF InHand

\* Taking a job moves it from the queue to the thread's hands.
LEMMA TakeJobMoves ==
    ASSUME TypeInv, OnePlace, NEW t \in Thread, TakeJob(t)
    PROVE  /\ OnePlace'
           /\ Open' = Open
<1> DEFINE j == Head(queue)
<1>1. TypeOK /\ t \notin InFlight /\ queue # <<>> /\ queue \in Seq(Job)
    BY DEF TypeInv, TypeOK, TakeJob, InFlight
<1>2. /\ Members(queue) = Members(queue') \cup {j}
      /\ j \notin Members(queue')
      /\ NoRepeats(queue')
    BY <1>1, TailMembers DEF OnePlace, TakeJob
<1>3. InFlight' = InFlight \cup {t}
    BY <1>1, Moves DEF TakeJob, ThreadPc
<1>4. tjob'[t] = j /\ \A u \in InFlight : tjob'[u] = tjob[u]
    BY <1>1 DEF TakeJob, InFlight, TypeOK
<1> HIDE DEF j
<1>5. InHand' = InHand \cup {j}
    BY <1>1, <1>3, <1>4 DEF InHand
<1>6. UNCHANGED <<results, issued>>
    BY DEF TakeJob
<1>7. \A u, v \in InFlight' : tjob'[u] = tjob'[v] => u = v
    <2>1. \A u \in InFlight : tjob[u] # j
        BY <1>2 DEF OnePlace, InHand
    <2>2. QED
        BY <1>3, <1>4, <2>1 DEF OnePlace
<1>8. Open' = Open
    BY <1>2, <1>5, <1>6 DEF Open
<1>9. QED
    BY <1>2, <1>5, <1>6, <1>7, <1>8 DEF OnePlace

\* Reporting moves the job from the thread's hands to the result list.
LEMMA ReportMoves ==
    ASSUME TypeInv, OnePlace, NEW t \in Thread, Report(t)
    PROVE  /\ OnePlace'
           /\ Open' = Open
           /\ tjob[t] \in Open \ Members(results)
           /\ results' = Append(results, tjob[t])
<1> DEFINE j == tjob[t]
<1>1. TypeOK /\ t \in InFlight /\ j \in Job /\ results \in Seq(Job)
    BY DEF TypeInv, TypeOK, HandsFull, Report, InFlight
<1>2. j \in InHand /\ j \notin Members(results) /\ j \notin Members(queue)
    BY <1>1 DEF InHand, OnePlace
<1>3. results' = Append(results, j)
    BY DEF Report
<1>4. Members(results') = Members(results) \cup {j} /\ NoRepeats(results')
    BY <1>1, <1>2, <1>3, AppendMembers DEF OnePlace
<1>5. InFlight' = InFlight \ {t}
    BY <1>1, Moves DEF Report, ThreadPc
<1>6. \A u \in InFlight' : tjob'[u] = tjob[u] /\ u \in InFlight /\ tjob[u] # j
    BY <1>1, <1>5 DEF Report, InFlight, TypeOK, OnePlace
<1>7. InHand' = InHand \ {j}
    <2>1. InHand' \subseteq InHand \ {j}
        BY <1>6 DEF InHand
    <2>2. ASSUME NEW u \in InFlight, tjob[u] # j
          PROVE  u \in InFlight' /\ tjob'[u] = tjob[u]
        BY <1>5, <1>6, <2>2
    <2>3. InHand \ {j} \subseteq InHand'
        BY <2>2 DEF InHand
    <2>4. QED
        BY <2>1, <2>3
<1>8. UNCHANGED <<queue, issued>>
    BY DEF Report
<1>9. Open' = Open
    BY <1>2, <1>4, <1>7, <1>8 DEF Open
<1> HIDE DEF j
<1>10. \A u, v \in InFlight' : tjob'[u] = tjob'[v] => u = v
    BY <1>6 DEF OnePlace
<1>11. OnePlace'
    BY <1>2, <1>4, <1>7, <1>8, <1>9, <1>10 DEF OnePlace
<1>12. QED
    BY <1>2, <1>3, <1>9, <1>11 DEF Open, j

\* Submitting adds one job, never seen before, to the queue.
LEMMA SubmitMoves ==
    ASSUME TypeInv, OnePlace, NEW j \in Job, PoolSubmit(j)
    PROVE  /\ OnePlace'
           /\ Open' = Open \cup {j}
<1>1. TypeOK /\ queue \in Seq(Job) /\ j \notin Open
    BY DEF TypeInv, TypeOK, PoolSubmit, OnePlace
<1>2. Members(queue') = Members(queue) \cup {j} /\ NoRepeats(queue')
    BY <1>1, AppendMembers DEF PoolSubmit, OnePlace, Open
<1>3. InFlight' = InFlight /\ UNCHANGED tjob
    BY <1>1 DEF PoolSubmit, SignalJobAvailable, Sleeping, InFlight, TypeOK
<1>4. InHand' = InHand
    BY <1>3, SameHands
<1>5. UNCHANGED results /\ issued' = issued \cup {j}
    BY DEF PoolSubmit
<1>6. Open' = Open \cup {j}
    BY <1>2, <1>4, <1>5 DEF Open
<1>7. QED
    BY <1>1, <1>2, <1>3, <1>4, <1>5, <1>6 DEF OnePlace, Open

\* wait_all() returns exactly the open batch and starts an empty one.
LEMMA WaitAllMoves ==
    ASSUME TypeInv, Accounting, OnePlace, NEW c \in Caller, WaitAllReturn(c)
    PROVE  /\ OnePlace'
           /\ Open = Members(results)
           /\ Open' = {}
<1>1. Len(queue) \in Nat /\ Len(results) \in Nat /\ queue \in Seq(Job)
    BY DEF TypeInv, TypeOK
<1>2. Len(queue) = 0 /\ Cardinality(InFlight) = 0
    BY <1>1, ThreadSets DEF WaitAllReturn, Accounting
<1>3. queue = <<>> /\ InFlight = {}
    BY <1>1, <1>2, ThreadSets, FS_EmptySet
<1>4. Members(queue) = {} /\ InHand = {}
    BY <1>3 DEF Members, InHand
<1>5. /\ InFlight' = InFlight
      /\ results' = <<>>
      /\ UNCHANGED <<tjob, queue, issued>>
    BY DEF WaitAllReturn, InFlight
<1>6. InHand' = {}
    BY <1>4, <1>5, SameHands
<1>7. Members(queue') = {} /\ Members(results') = {} /\ NoRepeats(results')
    BY <1>4, <1>5 DEF Members, NoRepeats
<1>8. Open = Members(results) /\ Open' = {}
    BY <1>4, <1>6, <1>7 DEF Open
<1>9. QED
    BY <1>3, <1>5, <1>6, <1>7, <1>8 DEF OnePlace, NoRepeats

\* The remaining steps move no job.
LEMMA OtherMoves ==
    ASSUME TypeInv, OnePlace,
           InFlight' = InFlight,
           UNCHANGED <<tjob, queue, results, issued>>
    PROVE  OnePlace' /\ Open' = Open
<1>1. InHand' = InHand
    BY SameHands
<1>2. QED
    BY <1>1 DEF OnePlace, Open, Members, NoRepeats

\* Every step of the pool is a step of the batch executor or leaves the batch
\* as it is.
LEMMA StepRefines ==
    ASSUME TypeInv, Accounting, OnePlace, [Next]_vars
    PROVE  OnePlace' /\ [Batch!Next]_(Batch!vars)
<1> USE DEF Batch!vars
<1>1. ASSUME InFlight' = InFlight,
             UNCHANGED <<tjob, queue, results, issued, returned>>
      PROVE  OnePlace' /\ UNCHANGED Batch!vars
    BY <1>1, OtherMoves
<1>2. ASSUME NEW t \in Thread,
             SpuriousThreadWake(t) \/ WaitForJob(t) \/ StartJob(t) \/ FinishJob(t)
      PROVE  OnePlace' /\ UNCHANGED Batch!vars
    <2>1. InFlight' = InFlight
        BY <1>2 DEF TypeInv, TypeOK, InFlight, SpuriousThreadWake, WaitForJob,
           StartJob, FinishJob
    <2>2. QED
        BY <1>1, <1>2, <2>1 DEF SpuriousThreadWake, WaitForJob, StartJob,
           FinishJob, pool
<1>3. ASSUME NEW c \in Caller,
             EnterLocked(c) \/ LeaveLocked(c) \/ WaitAllSleep(c)
                \/ SpuriousCallerWake(c)
      PROVE  OnePlace' /\ UNCHANGED Batch!vars
    BY <1>1, <1>3 DEF InFlight, EnterLocked, LeaveLocked, WaitAllSleep,
       SpuriousCallerWake, pool
<1>4. ASSUME EnterScript \/ LeaveScript \/ UNCHANGED vars
      PROVE  OnePlace' /\ UNCHANGED Batch!vars
    BY <1>1, <1>4 DEF InFlight, EnterScript, LeaveScript, vars, pool
<1>5. ASSUME NEW t \in Thread, TakeJob(t)
      PROVE  OnePlace' /\ UNCHANGED Batch!vars
    BY <1>5, TakeJobMoves DEF TakeJob
<1>6. ASSUME NEW t \in Thread, Report(t) PROVE OnePlace' /\ Batch!Next
    <2>1. tjob[t] \in Job
        BY <1>6 DEF TypeInv, TypeOK, HandsFull, Report, InFlight
    <2>2. UNCHANGED <<issued, returned>>
        BY <1>6 DEF Report
    <2>3. Batch!Finish(tjob[t])
        BY <1>6, <2>2, ReportMoves DEF Batch!Finish, Batch!Finished, Members
    <2>4. QED
        BY <1>6, <2>1, <2>3, ReportMoves DEF Batch!Next
<1>7. ASSUME NEW j \in Job, PoolSubmit(j) PROVE OnePlace' /\ Batch!Next
    <2>1. Batch!Submit(j)
        BY <1>7, SubmitMoves DEF Batch!Submit, PoolSubmit
    <2>2. QED
        BY <1>7, <2>1, SubmitMoves DEF Batch!Next
<1>8. ASSUME NEW c \in Caller, WaitAllReturn(c) PROVE OnePlace' /\ Batch!Next
    <2>1. Batch!Collect(c)
        BY <1>8, WaitAllMoves DEF Batch!Collect, Batch!Finished, Members,
           WaitAllReturn
    <2>2. QED
        BY <1>8, <2>1, WaitAllMoves DEF Batch!Next
<1>9. QED
    BY <1>2, <1>3, <1>4, <1>5, <1>6, <1>7, <1>8
    DEF Next, ThreadStep, CallerStep, JobSubmit, CallerSubmit

\* worker.c keeps the promise of worker.h, for any number of threads, callers
\* and jobs: every wait_all() returns exactly the jobs submitted since the
\* previous one, each once, and only when all of them have finished.
THEOREM Refinement == Spec => ImplementsBatchExecutor
<1>1. Init => OnePlace /\ Batch!Init
    <2>1. SUFFICES ASSUME Init PROVE OnePlace /\ Batch!Init
        OBVIOUS
    <2>2. InFlight = {}
        BY <2>1 DEF Init, InFlight
    <2>3. InHand = {} /\ Members(queue) = {} /\ Members(results) = {}
        BY <2>1, <2>2 DEF Init, InHand, Members
    <2>4. Open = {}
        BY <2>3 DEF Open
    <2>5. QED
        BY <2>1, <2>2, <2>3, <2>4 DEF Init, OnePlace, NoRepeats, Batch!Init
<1>2. TypeInv /\ Accounting /\ OnePlace /\ [Next]_vars
        => OnePlace' /\ [Batch!Next]_(Batch!vars)
    BY StepRefines
<1>3. QED
    BY <1>1, <1>2, TypeInvHolds, AccountingCorrect, PTL
    DEF Spec, ImplementsBatchExecutor, Batch!Spec
=============================================================================
