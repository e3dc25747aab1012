-------------------------- MODULE LiveReloadProofs --------------------------
(***************************************************************************)
(* What holds of live mode for any contents and any number of writes.      *)
(***************************************************************************)
EXTENDS LiveReload, TLAPS

\* No file is newer than the clock, a file that is there is no older than the
\* time last remembered, and the absence of a file has time 0.
Times == /\ file.mtime <= clock
         /\ file.mtime # 0 => last <= file.mtime
         /\ file = NoFile <=> file.mtime = 0

\* What the loop holds in its hands: if the time it remembered is still the
\* file's, then the file it opened and the text it read are the file's.
InHand == /\ pc = "read" /\ file # NoFile /\ last = file.mtime => open = file
          /\ pc = "run" /\ file # NoFile /\ last = file.mtime => src = file.data

\* Each reload has a time of its own, the one under way included.
Paid == reloads + (IF pc = "poll" THEN 0 ELSE 1) <= last

IInv == TypeOK /\ Times /\ InHand /\ NothingForgotten /\ Paid

LEMMA InitIInv == Init => IInv
<1> SUFFICES ASSUME Init PROVE IInv
    OBVIOUS
<1>1. CASE file = NoFile /\ clock = 0
    BY <1>1 DEF Init, IInv, TypeOK, Times, InHand, NothingForgotten, Paid, NoFile, File, Text
<1>2. ASSUME NEW c \in Content, file = [mtime |-> 1, data |-> c], clock = 1
      PROVE  IInv
    BY <1>2 DEF Init, IInv, TypeOK, Times, InHand, NothingForgotten, Paid, NoFile, File, Text
<1> QED
    BY <1>1, <1>2 DEF Init

\* A write gives the file a time later than any the loop can have remembered.
LEMMA WriteKeeps ==
    ASSUME IInv, NEW c \in Content, Write(c)
    PROVE  IInv'
<1> USE DEF IInv, Write
<1>1. TypeOK'
    BY DEF TypeOK, File, Text
<1>2. file'.mtime = clock + 1 /\ last' < file'.mtime
    BY DEF TypeOK, File
<1>3. Times'
    BY <1>2 DEF TypeOK, Times, NoFile
<1>4. InHand' /\ NothingForgotten'
    BY <1>2 DEF TypeOK, InHand, NothingForgotten
<1>5. Paid'
    BY DEF Paid
<1> QED
    BY <1>1, <1>3, <1>4, <1>5

\* Every other step, action by action.
LEMMA LoopKeeps ==
    ASSUME IInv, Loop
    PROVE  IInv'
<1> USE DEF IInv
<1>1. CASE Poll
  <2>1. last' = file.mtime /\ file.mtime # 0 /\ last < last'
      BY <1>1 DEF Poll, Changed, file_mtime_ns, TypeOK, File, Times
  <2>2. TypeOK' /\ Times'
      BY <1>1, <2>1 DEF Poll, TypeOK, Times, File, NoFile
  <2>3. InHand' /\ NothingForgotten'
      BY <1>1 DEF Poll, InHand, NothingForgotten
  <2>4. Paid'
    <3>1. reloads \in Nat /\ last \in Nat /\ last' \in Nat /\ reloads <= last
        BY <1>1, <2>2 DEF Poll, Paid, TypeOK
    <3>2. reloads' = reloads /\ pc' = "open"
        BY <1>1 DEF Poll
    <3> QED
        BY <2>1, <3>1, <3>2 DEF Paid
  <2> QED
      BY <2>2, <2>3, <2>4
<1>2. CASE OpenFails
  <2>1. TypeOK' /\ Times' /\ InHand' /\ NothingForgotten'
      BY <1>2 DEF OpenFails, TypeOK, Times, InHand, NothingForgotten, NoFile, File
  <2>2. Paid'
      BY <1>2 DEF OpenFails, Paid, TypeOK
  <2> QED
      BY <2>1, <2>2
<1>3. CASE Open
  <2>1. TypeOK' /\ Times' /\ InHand' /\ NothingForgotten'
      BY <1>3 DEF Open, TypeOK, Times, InHand, NothingForgotten, NoFile, File
  <2>2. Paid'
      BY <1>3 DEF Open, Paid
  <2> QED
      BY <2>1, <2>2
<1>4. CASE Read
  <2>1. src' \in Text
      BY <1>4 DEF Read, TypeOK, File, Text
  <2>2. TypeOK' /\ Times'
      BY <1>4, <2>1 DEF Read, TypeOK, Times, NoFile
  <2>3. InHand' /\ NothingForgotten'
      BY <1>4 DEF Read, InHand, NothingForgotten, NoFile
  <2>4. Paid'
      BY <1>4 DEF Read, Paid
  <2> QED
      BY <2>2, <2>3, <2>4
<1>5. CASE Run
  <2>1. TypeOK' /\ Times' /\ InHand' /\ NothingForgotten'
      BY <1>5 DEF Run, TypeOK, Times, InHand, NothingForgotten, NoFile
  <2>2. Paid'
      BY <1>5 DEF Run, Paid, TypeOK
  <2> QED
      BY <2>1, <2>2
<1> QED
    BY <1>1, <1>2, <1>3, <1>4, <1>5 DEF Loop

LEMMA IInvStep == IInv /\ [Next]_vars => IInv'
<1> SUFFICES ASSUME IInv, [Next]_vars PROVE IInv'
    OBVIOUS
<1>1. CASE Loop
    BY <1>1, LoopKeeps
<1>2. CASE Remove
  <2>1. TypeOK' /\ Times' /\ InHand' /\ NothingForgotten'
      BY <1>2 DEF IInv, Remove, TypeOK, Times, InHand, NothingForgotten, NoFile, File, Text
  <2>2. Paid'
      BY <1>2 DEF IInv, Remove, Paid
  <2> QED
      BY <2>1, <2>2 DEF IInv
<1>3. ASSUME NEW c \in Content, Write(c) PROVE IInv'
    BY <1>3, WriteKeeps
<1>4. CASE UNCHANGED vars
    BY <1>4 DEF vars, IInv, TypeOK, Times, InHand, NothingForgotten, Paid, NoFile
<1> QED
    BY <1>1, <1>2, <1>3, <1>4 DEF Next

\* The variables of run_live have their types and no time is remembered that
\* no file has had.
THEOREM TypeCorrect == Spec => []TypeOK
    BY InitIInv, IInvStep, PTL DEF Spec, IInv

\* A save is never lost in the window between stat and the end of the run.
THEOREM ForgetsNothing == Spec => []NothingForgotten
    BY InitIInv, IInvStep, PTL DEF Spec, IInv

\* Live mode runs the file at most once for each write.
THEOREM EveryReloadPaid == Spec => []ReloadsPaid
<1>1. IInv => ReloadsPaid
    BY DEF IInv, TypeOK, Paid, ReloadsPaid
<1> QED
    BY <1>1, InitIInv, IInvStep, PTL DEF Spec
=============================================================================
