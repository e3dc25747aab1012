------------------------- MODULE WorkerHandleProofs -------------------------
(***************************************************************************)
(* What holds of worker handles for any number of workers and threads.     *)
(* Which result a join gives needs no assumption on who joins.  That a     *)
(* thread is joined once, and that no joiner is left asleep, rests on      *)
(* joiners excluding each other, which the interpreter lock gives only if  *)
(* scripts, which run without it, and workers do not both join.            *)
(***************************************************************************)
EXTENDS WorkerHandle, TLAPS

\* done is set with the result as the last thing a worker's thread does, and
\* who is past the wait loop has seen it.
Past == {"check", "pjoin", "mark", "give"}
Finished ==
    /\ \A h \in Handle :
        /\ done[h] <=> hpc[h] = "exited"
        /\ hpc[h] = "exited" => result[h] = IF h \in FileHandle THEN "empty" ELSE "value"
        /\ joined[h] => hpc[h] = "exited"
    /\ \A j \in Joiner : jpc[j] \in Past => done[jh[j]]

RInv == TypeOK /\ Finished

USE HandleAssumption

LEMMA InitRInv == Init => RInv
    BY DEF Init, RInv, TypeOK, Finished, Past, Joiner, JoinerPc, HandlePc, Context

LEMMA HandleStepR ==
    ASSUME RInv, NEW h \in Handle, HandleStep(h)
    PROVE  RInv'
<1> USE DEF RInv
<1>1. CASE LoadFile(h)
    BY <1>1 DEF LoadFile, TypeOK, Finished, HandlePc
<1>2. CASE LoadFails(h)
    BY <1>2 DEF LoadFails, TypeOK, Finished, HandlePc
<1>3. CASE StartWork(h)
    BY <1>3 DEF StartWork, TypeOK, Finished, HandlePc
<1>4. CASE FinishWork(h)
    BY <1>4 DEF FinishWork, TypeOK, Finished, HandlePc
<1>5. CASE Publish(h)
  <2>1. /\ jpc' \in [Joiner -> JoinerPc]
        /\ \A j \in Joiner : jpc'[j] \in {jpc[j], "retest"}
        /\ \A j \in Joiner : jpc'[j] # jpc[j] => jpc[j] = "cv"
      BY <1>5 DEF Publish, TypeOK, Asleep, JoinerPc
  <2>2. TypeOK'
      BY <1>5, <2>1 DEF Publish, TypeOK, HandlePc, Context
  <2>3. Finished'
      BY <1>5, <2>1 DEF Publish, TypeOK, Finished, Past, Context
  <2> QED
      BY <2>2, <2>3
<1> QED
    BY <1>1, <1>2, <1>3, <1>4, <1>5 DEF HandleStep

LEMMA JoinerStepR ==
    ASSUME RInv, NEW j \in Joiner, JoinerStep(j)
    PROVE  RInv'
<1> USE DEF RInv
<1>1. CASE EnterLocked(j)
    BY <1>1 DEF EnterLocked, LockedContext, TypeOK, Finished, Past, JoinerPc, Context
<1>2. CASE LeaveLocked(j)
    BY <1>2 DEF LeaveLocked, TypeOK, Finished, Past, JoinerPc, Context
<1>3. ASSUME NEW h \in Handle, Spawn(j, h) PROVE RInv'
    BY <1>3 DEF Spawn, TypeOK, Finished, HandlePc
<1>4. ASSUME NEW h \in Handle, RunFile(j, h) PROVE RInv'
    BY <1>4 DEF RunFile, TestDone, TypeOK, Finished, Past, HandlePc, JoinerPc, Context
<1>5. ASSUME NEW h \in Handle, Join(j, h) PROVE RInv'
    BY <1>5 DEF Join, TestDone, TypeOK, Finished, Past, JoinerPc, Context
<1>6. CASE Retest(j)
    BY <1>6 DEF Retest, TestDone, TypeOK, Finished, Past, JoinerPc, Context
<1>7. CASE SpuriousWake(j)
    BY <1>7 DEF SpuriousWake, TypeOK, Finished, Past, JoinerPc, Context
<1>8. CASE CheckJoined(j)
    BY <1>8 DEF CheckJoined, TypeOK, Finished, Past, JoinerPc, Context
<1>9. CASE ThreadJoined(j)
    BY <1>9 DEF ThreadJoined, TypeOK, Finished, Past, JoinerPc, Context
<1>10. CASE MarkJoined(j)
    BY <1>10 DEF MarkJoined, TypeOK, Finished, Past, JoinerPc, Context
<1>11. CASE GiveResult(j)
    BY <1>11 DEF GiveResult, LockedContext, TypeOK, Finished, Past, JoinerPc, Context
<1> QED
    BY <1>1, <1>2, <1>3, <1>4, <1>5, <1>6, <1>7, <1>8, <1>9, <1>10, <1>11
    DEF JoinerStep, InJoin

LEMMA RInvStep == RInv /\ [Next]_vars => RInv'
<1> SUFFICES ASSUME RInv, [Next]_vars PROVE RInv'
    OBVIOUS
<1>1. CASE EnterScript \/ LeaveScript
    BY <1>1 DEF EnterScript, LeaveScript, RInv, TypeOK, Finished, Past, Joiner, JoinerPc, Context
<1>2. CASE UNCHANGED vars
    BY <1>2 DEF vars, RInv, TypeOK, Finished
<1> QED
    BY <1>1, <1>2, HandleStepR, JoinerStepR DEF Next

\* Every variable of the worker-handle model keeps its type, whoever joins.
THEOREM TypeCorrect == Spec => []TypeOK
    BY InitRInv, RInvStep, PTL DEF Spec, RInv

\* Whoever joins, from whatever context and however often: worker_handle_join
\* hands over the result of a thread that has exited, and its fallback to an
\* empty value is never taken for worker.spawn.
THEOREM JoinGivesResult == Spec => []ResultOfFinishedThread
<1>1. RInv => ResultOfFinishedThread
    BY DEF RInv, TypeOK, Finished, Past, ResultOfFinishedThread, Context
<1> QED
    BY <1>1, InitRInv, RInvStep, PTL DEF Spec
-----------------------------------------------------------------------------
(* Joiners that exclude each other. *)

InWait == {"cv", "retest", "check", "pjoin", "mark", "give"}

\* Code in a locked context or a worker holds the interpreter lock, scripts do
\* not, and a
\* thread other than the main one is never inside a join without the lock.
Locking ==
    /\ \A h \in Handle : hpc[h] = "running" => gil = h
    /\ \A j \in Joiner :
        /\ jpc[j] = LockedContext(j) => gil = j
        /\ jpc[j] \in {"out", "script"} => gil # j
        /\ jpc[j] \in Context => jpc[j] = LockedContext(j) \/ (j = Main /\ jpc[j] = "script")
        /\ jpc[j] \in InWait => \/ gil = j /\ LockedContext(j) \in JoinContexts
                                \/ gil # j /\ j = Main /\ "script" \in JoinContexts

LInv == RInv /\ Locking

LEMMA InitLInv == Init => LInv
    BY InitRInv DEF Init, LInv, Locking, LockedContext, InWait, Context, Joiner

LEMMA LInvStep == LInv /\ [Next]_vars => LInv'
<1> SUFFICES ASSUME LInv, [Next]_vars PROVE Locking'
    BY RInvStep DEF LInv
<1> USE DEF LInv, Locking, LockedContext, InWait, Context
<1>0. jpc \in [Joiner -> JoinerPc] /\ hpc \in [Handle -> HandlePc] /\ HandleAssumption
    BY DEF RInv, TypeOK
<1>1. ASSUME NEW h \in Handle, HandleStep(h) PROVE Locking'
  <2>1. CASE Publish(h)
      BY <1>0, <2>1 DEF Publish, Asleep
  <2>2. CASE StartWork(h) \/ FinishWork(h)
      BY <1>0, <2>2 DEF StartWork, FinishWork
  <2> QED
      BY <1>0, <1>1, <2>1, <2>2 DEF HandleStep, LoadFile, LoadFails
<1>2. ASSUME NEW j \in Joiner, EnterLocked(j) \/ LeaveLocked(j) PROVE Locking'
    BY <1>0, <1>2 DEF EnterLocked, LeaveLocked, Joiner
<1>3. ASSUME NEW j \in Joiner, NEW h \in Handle, Spawn(j, h) \/ RunFile(j, h) \/ Join(j, h)
      PROVE  Locking'
    BY <1>0, <1>3, ZenonT(40) DEF Spawn, RunFile, Join, TestDone, Joiner
<1>4. ASSUME NEW j \in Joiner, InJoin(j) \/ SpuriousWake(j) PROVE Locking'
    BY <1>0, <1>4 DEF InJoin, SpuriousWake, Retest, TestDone, CheckJoined, ThreadJoined,
                      MarkJoined, GiveResult, Joiner
<1>5. CASE EnterScript \/ LeaveScript
    BY <1>0, <1>5 DEF EnterScript, LeaveScript, Joiner
<1>6. CASE UNCHANGED vars
    BY <1>6 DEF vars
<1> QED
    BY <1>1, <1>2, <1>3, <1>4, <1>5, <1>6 DEF Next, JoinerStep

\* Not both: scripts, which run without the lock, and worker functions.
OneSideJoins == "script" \notin JoinContexts \/ "spawn" \notin JoinContexts

Alone == \A i, j \in Joiner : jpc[i] \in InWait /\ jpc[j] \in InWait => i = j

LEMMA JoinersAlone ==
    ASSUME OneSideJoins, LInv
    PROVE  Alone
    BY DEF OneSideJoins, LInv, Locking, LockedContext, InWait, Alone, Joiner

\* pthread_join has been called on a thread exactly if h->joined is set or a
\* joiner is between the call and the assignment, and then not both.
Counts ==
    \A h \in Handle :
        LET between == \E j \in Joiner : jpc[j] \in {"pjoin", "mark"} /\ jh[j] = h
        IN /\ joins[h] = IF joined[h] \/ between THEN 1 ELSE 0
           /\ ~(joined[h] /\ between)

JInv == LInv /\ Counts /\ NoStrandedJoiner

LEMMA InitJInv == Init => JInv
    BY InitLInv DEF Init, JInv, Counts, NoStrandedJoiner

\* Publish signals one joiner; no other can be asleep.
LEMMA HandleStepJ ==
    ASSUME OneSideJoins, JInv, NEW h \in Handle, HandleStep(h)
    PROVE  Counts' /\ NoStrandedJoiner'
<1> USE DEF JInv
<1>1. CASE Publish(h)
  <2>1. jpc \in [Joiner -> JoinerPc] /\ done \in [Handle -> BOOLEAN]
      BY DEF LInv, RInv, TypeOK
  <2>2. \A j \in Joiner : jpc[j] = "cv" /\ jh[j] = h => jpc'[j] = "retest"
      BY <1>1, <2>1, JoinersAlone DEF Publish, Asleep, Alone, InWait
  <2>3. \A j \in Joiner : jpc'[j] # jpc[j] => jpc[j] = "cv" /\ jpc'[j] = "retest"
      BY <1>1, <2>1 DEF Publish, Asleep
  <2>4. NoStrandedJoiner'
      BY <1>1, <2>1, <2>2, <2>3 DEF Publish, NoStrandedJoiner
  <2>5. \A j \in Joiner : jpc'[j] \in {"pjoin", "mark"} <=> jpc[j] \in {"pjoin", "mark"}
      BY <2>3
  <2>6. Counts'
      BY <1>1, <2>5 DEF Publish, Counts
  <2> QED
      BY <2>4, <2>6
<1>2. CASE ~Publish(h)
    BY <1>2 DEF HandleStep, LoadFile, LoadFails, StartWork, FinishWork, Counts, NoStrandedJoiner
<1> QED
    BY <1>1, <1>2

LEMMA JoinerStepJ ==
    ASSUME OneSideJoins, JInv, NEW j \in Joiner, JoinerStep(j)
    PROVE  Counts' /\ NoStrandedJoiner'
<1> USE DEF JInv
<1>0. /\ jpc \in [Joiner -> JoinerPc] /\ jh \in [Joiner -> Handle \cup {NoOne}]
      /\ joined \in [Handle -> BOOLEAN] /\ joins \in [Handle -> Nat]
      /\ \A i \in Joiner : jpc[i] \in InWait => jh[i] \in Handle
    BY DEF LInv, RInv, TypeOK, InWait, Context
<1>1. CASE EnterLocked(j) \/ LeaveLocked(j)
    BY <1>0, <1>1 DEF EnterLocked, LeaveLocked, LockedContext, Counts, NoStrandedJoiner
<1>2. ASSUME NEW h \in Handle, Spawn(j, h) PROVE Counts' /\ NoStrandedJoiner'
    BY <1>2 DEF Spawn, Counts, NoStrandedJoiner
<1>3. ASSUME NEW h \in Handle, RunFile(j, h) \/ Join(j, h) PROVE Counts' /\ NoStrandedJoiner'
    BY <1>0, <1>3 DEF RunFile, Join, TestDone, Counts, NoStrandedJoiner, Context
<1>4. CASE Retest(j)
    BY <1>0, <1>4 DEF Retest, TestDone, Counts, NoStrandedJoiner
<1>5. CASE SpuriousWake(j)
    BY <1>0, <1>5 DEF SpuriousWake, Counts, NoStrandedJoiner
<1>6. CASE CheckJoined(j)
  <2>1. \A i \in Joiner : i # j => jpc[i] \notin {"pjoin", "mark"}
      BY <1>6, JoinersAlone DEF CheckJoined, Alone, InWait
  <2>2. Counts'
      BY <1>0, <1>6, <2>1 DEF CheckJoined, Counts, InWait
  <2>3. NoStrandedJoiner'
      BY <1>0, <1>6 DEF CheckJoined, NoStrandedJoiner
  <2> QED
      BY <2>2, <2>3
<1>7. CASE ThreadJoined(j)
    BY <1>0, <1>7 DEF ThreadJoined, Counts, NoStrandedJoiner
<1>8. CASE MarkJoined(j)
  <2>1. \A i \in Joiner : i # j => jpc[i] \notin {"pjoin", "mark"}
      BY <1>8, JoinersAlone DEF MarkJoined, Alone, InWait
  <2>2. Counts'
      BY <1>0, <1>8, <2>1 DEF MarkJoined, Counts, InWait
  <2>3. NoStrandedJoiner'
      BY <1>0, <1>8 DEF MarkJoined, NoStrandedJoiner
  <2> QED
      BY <2>2, <2>3
<1>9. CASE GiveResult(j)
    BY <1>0, <1>9 DEF GiveResult, LockedContext, Counts, NoStrandedJoiner
<1> QED
    BY <1>1, <1>2, <1>3, <1>4, <1>5, <1>6, <1>7, <1>8, <1>9 DEF JoinerStep, InJoin

LEMMA JInvStep ==
    ASSUME OneSideJoins
    PROVE  JInv /\ [Next]_vars => JInv'
<1> SUFFICES ASSUME JInv, [Next]_vars PROVE Counts' /\ NoStrandedJoiner'
    BY LInvStep DEF JInv
<1>1. CASE EnterScript \/ LeaveScript
    BY <1>1 DEF EnterScript, LeaveScript, JInv, LInv, RInv, TypeOK, Joiner, Counts, NoStrandedJoiner
<1>2. CASE UNCHANGED vars
    BY <1>2 DEF vars, JInv, Counts, NoStrandedJoiner
<1> QED
    BY <1>1, <1>2, HandleStepJ, JoinerStepJ DEF Next

\* pthread_join is called at most once on a worker's thread and h->joined is set
\* only after it, although nothing protects h->joined, as long as scripts and
\* worker functions do not both join.
THEOREM JoinedAtMostOnce ==
    ASSUME OneSideJoins
    PROVE  Spec => []JoinedOnce
<1>1. JInv => JoinedOnce
    BY DEF JInv, LInv, RInv, Finished, Counts, JoinedOnce
<1> QED
    BY <1>1, InitJInv, JInvStep, PTL DEF Spec

\* Under the same condition the one signal a worker sends is enough: no joiner
\* sleeps on a worker that is done.
THEOREM NoJoinerStranded ==
    ASSUME OneSideJoins
    PROVE  Spec => []NoStrandedJoiner
    BY InitJInv, JInvStep, PTL DEF Spec, JInv
-----------------------------------------------------------------------------
(* A handle is a future. *)

\* What a step changes of the abstract state.
LEMMA SameStages ==
    ASSUME hpc' = hpc
    PROVE  [h \in Handle |-> Stage(h)]' = [h \in Handle |-> Stage(h)]
    BY DEF Stage

LEMMA StageSet ==
    ASSUME TypeOK, NEW h \in Handle, NEW p \in HandlePc, hpc' = [hpc EXCEPT ![h] = p]
    PROVE  [g \in Handle |-> Stage(g)]' = [[g \in Handle |-> Stage(g)] EXCEPT ![h] =
               IF p = "none" THEN "new" ELSE IF p = "exited" THEN "finished" ELSE "started"]
    BY DEF Stage, TypeOK

LEMMA SameAwaits ==
    ASSUME \A j \in Joiner : Awaits(j)' = Awaits(j)
    PROVE  [j \in Joiner |-> Awaits(j)]' = [j \in Joiner |-> Awaits(j)]
    OBVIOUS

LEMMA AwaitsSet ==
    ASSUME NEW j \in Joiner, NEW a, Awaits(j)' = a,
           \A i \in Joiner : i # j => Awaits(i)' = Awaits(i)
    PROVE  [i \in Joiner |-> Awaits(i)]' = [[i \in Joiner |-> Awaits(i)] EXCEPT ![j] = a]
    OBVIOUS

\* Publishing a result is the end of the worker; the rest of its thread's life
\* changes nothing a joiner could see.
LEMMA HandleStepPromises ==
    ASSUME RInv, NEW h \in Handle, HandleStep(h)
    PROVE  [Promise!Next]_(Promise!vars)
<1> USE DEF RInv
<1>1. TypeOK /\ jpc \in [Joiner -> JoinerPc] /\ hpc \in [Handle -> HandlePc]
    BY DEF TypeOK
<1>2. UNCHANGED got
    BY DEF HandleStep, LoadFile, LoadFails, StartWork, FinishWork, Publish
<1>3. [j \in Joiner |-> Awaits(j)]' = [j \in Joiner |-> Awaits(j)]
  <2>1. UNCHANGED jh /\ \A j \in Joiner : jpc'[j] = jpc[j] \/ (jpc[j] = "cv" /\ jpc'[j] = "retest")
      BY <1>1 DEF HandleStep, LoadFile, LoadFails, StartWork, FinishWork, Publish, Asleep
  <2>2. \A j \in Joiner : Awaits(j)' = Awaits(j)
      BY <2>1 DEF Awaits, Context
  <2> QED
      BY <2>2, SameAwaits
<1>4. CASE Publish(h)
  <2>1. [g \in Handle |-> Stage(g)]' = [[g \in Handle |-> Stage(g)] EXCEPT ![h] = "finished"]
      BY <1>1, <1>4, StageSet DEF Publish, HandlePc
  <2>2. Stage(h) = "started"
      BY <1>4 DEF Publish, Stage
  <2>3. Promise!Finish(h)
      BY <1>2, <1>3, <2>1, <2>2 DEF Promise!Finish
  <2> QED
      BY <2>3 DEF Promise!Next
<1>5. CASE ~Publish(h)
  <2>1. \A g \in Handle : Stage(g)' = Stage(g)
      BY <1>1, <1>5 DEF HandleStep, LoadFile, LoadFails, StartWork, FinishWork, Stage
  <2> QED
      BY <1>2, <1>3, <2>1 DEF Promise!vars
<1> QED
    BY <1>4, <1>5

\* A joiner's steps: starting a worker, beginning to wait, the end of the wait.
LEMMA JoinerStepPromises ==
    ASSUME RInv, NEW j \in Joiner, JoinerStep(j)
    PROVE  [Promise!Next]_(Promise!vars)
<1> USE DEF RInv
<1>1. /\ TypeOK /\ jpc \in [Joiner -> JoinerPc] /\ hpc \in [Handle -> HandlePc]
      /\ jh \in [Joiner -> Handle \cup {NoOne}]
    BY DEF TypeOK
<1>2. ASSUME UNCHANGED <<hpc, got>>, \A i \in Joiner : Awaits(i)' = Awaits(i)
      PROVE  UNCHANGED Promise!vars
    BY <1>2, SameStages, SameAwaits DEF Promise!vars
<1>3. CASE EnterLocked(j) \/ LeaveLocked(j)
  <2>1. \A i \in Joiner : Awaits(i)' = Awaits(i)
      BY <1>1, <1>3 DEF EnterLocked, LeaveLocked, LockedContext, Awaits, Context
  <2> QED
      BY <1>2, <1>3, <2>1 DEF EnterLocked, LeaveLocked
<1>4. CASE Retest(j) \/ SpuriousWake(j) \/ CheckJoined(j) \/ ThreadJoined(j) \/ MarkJoined(j)
  <2>1. \A i \in Joiner : Awaits(i)' = Awaits(i)
      BY <1>1, <1>4 DEF Retest, TestDone, SpuriousWake, CheckJoined, ThreadJoined, MarkJoined,
         Awaits, Context
  <2> QED
      BY <1>2, <1>4, <2>1 DEF Retest, SpuriousWake, CheckJoined, ThreadJoined, MarkJoined
<1>5. ASSUME NEW h \in Handle, Spawn(j, h) PROVE Promise!Next
  <2>1. [g \in Handle |-> Stage(g)]' = [[g \in Handle |-> Stage(g)] EXCEPT ![h] = "started"]
      BY <1>1, <1>5, StageSet DEF Spawn, HandlePc
  <2>2. \A i \in Joiner : Awaits(i)' = Awaits(i)
      BY <1>5 DEF Spawn, Awaits
  <2>3. Promise!Start(h)
      BY <1>5, <2>1, <2>2, SameAwaits DEF Spawn, Stage, Promise!Start
  <2> QED
      BY <2>3 DEF Promise!Next
<1>6. ASSUME NEW h \in Handle, jpc[j] \in JoinContexts, TestDone(j, h)
      PROVE  /\ Awaits(j) = NoOne
             /\ [i \in Joiner |-> Awaits(i)]' = [[i \in Joiner |-> Awaits(i)] EXCEPT ![j] = h]
  <2>1. Awaits(j) = NoOne
      BY <1>6 DEF Awaits
  <2>2. Awaits(j)' = h /\ \A i \in Joiner : i # j => Awaits(i)' = Awaits(i)
      BY <1>1, <1>6 DEF TestDone, Awaits, Context
  <2> QED
      BY <2>1, <2>2, AwaitsSet
<1>7. ASSUME NEW h \in Handle, RunFile(j, h) PROVE Promise!Next
  <2>1. [g \in Handle |-> Stage(g)]' = [[g \in Handle |-> Stage(g)] EXCEPT ![h] = "started"]
      BY <1>1, <1>7, StageSet DEF RunFile, HandlePc
  <2>2. Promise!Run(j, h)
      BY <1>6, <1>7, <2>1 DEF RunFile, Stage, Promise!Run
  <2> QED
      BY <2>2 DEF Promise!Next
<1>8. ASSUME NEW h \in Handle, Join(j, h) PROVE Promise!Next
  <2>1. Promise!Await(j, h)
      BY <1>6, <1>8, SameStages DEF Join, Stage, Promise!Await
  <2> QED
      BY <2>1 DEF Promise!Next
<1>9. CASE GiveResult(j)
  <2>1. jpc[j] = "give" /\ jh[j] \in Handle /\ Awaits(j) = jh[j]
      BY <1>9 DEF GiveResult, TypeOK, Awaits, Context
  <2>2. Stage(jh[j]) = "finished" /\ result[jh[j]] = Promise!Outcome(jh[j])
      BY <2>1 DEF Finished, Past, Stage, Promise!Outcome
  <2>3. got' = [got EXCEPT ![j] = Promise!Outcome(jh[j])]
      BY <1>9, <2>2 DEF GiveResult, Promise!Outcome
  <2>4. Awaits(j)' = NoOne /\ \A i \in Joiner : i # j => Awaits(i)' = Awaits(i)
      BY <1>1, <1>9 DEF GiveResult, LockedContext, Awaits, Context
  <2>5. [i \in Joiner |-> Awaits(i)]' = [[i \in Joiner |-> Awaits(i)] EXCEPT ![j] = NoOne]
      BY <2>4, AwaitsSet
  <2>6. [g \in Handle |-> Stage(g)]' = [g \in Handle |-> Stage(g)]
      BY <1>9, SameStages DEF GiveResult
  <2>7. Promise!Get(j)
      BY <2>1, <2>2, <2>3, <2>5, <2>6 DEF Promise!Get
  <2> QED
      BY <2>7 DEF Promise!Next
<1> QED
    BY <1>3, <1>4, <1>5, <1>7, <1>8, <1>9 DEF JoinerStep, InJoin

\* worker.c keeps the promise of worker.h for single workers, whoever joins them
\* from whatever context: a wait returns the outcome of its worker's one run,
\* after the end of that run.
THEOREM FutureKept == Spec => ImplementsFuture
<1>1. Init => Promise!Init
    BY DEF Init, Stage, Awaits, Promise!Init
<1>2. RInv /\ [Next]_vars => [Promise!Next]_(Promise!vars)
  <2> SUFFICES ASSUME RInv, [Next]_vars PROVE [Promise!Next]_(Promise!vars)
      OBVIOUS
  <2>1. CASE EnterScript \/ LeaveScript \/ UNCHANGED vars
    <3>1. UNCHANGED <<hpc, got>>
        BY <2>1 DEF EnterScript, LeaveScript, vars
    <3>2. \A i \in Joiner : Awaits(i)' = Awaits(i)
        BY <2>1 DEF EnterScript, LeaveScript, vars, RInv, TypeOK, Awaits, Context, Joiner
    <3> QED
        BY <3>1, <3>2, SameStages, SameAwaits DEF Promise!vars
  <2> QED
      BY <2>1, HandleStepPromises, JoinerStepPromises DEF Next
<1> QED
    BY <1>1, <1>2, InitRInv, RInvStep, PTL DEF Spec, ImplementsFuture, Promise!Spec
=============================================================================
