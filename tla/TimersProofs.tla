---------------------------- MODULE TimersProofs ----------------------------
(***************************************************************************)
(* What holds of the reactor's timers for any delays, any number of timers *)
(* and any clock.                                                          *)
(***************************************************************************)
EXTENDS Timers, TLAPS

\* What a single timer's record looks like between two steps: live.clear
\* deactivates; a timer that has run and is still scheduled repeats, and is due
\* one interval after it was rescheduled; a one-shot timer has run at most
\* once; only a clear or its single run deactivates a timer.
TimerInv(i) ==
    /\ timer[i].cleared => ~timer[i].active
    /\ timer[i].runs > 0 /\ timer[i].active
            /\ ~(phase = "callback" /\ current = i) =>
        /\ timer[i].interval > 0
        /\ timer[i].due = timer[i].ended + timer[i].interval
    /\ timer[i].interval = 0 => timer[i].runs <= 1
    /\ ~timer[i].active /\ ~timer[i].cleared =>
        timer[i].interval = 0 /\ timer[i].runs = 1

\* What the loop's local variables say during a pass.
PassInv ==
    /\ phase \in {"pass", "callback"} => snap <= now /\ cursor <= passTop
    /\ phase = "callback" => timer[current].runs > 0

IInv == TypeOK /\ PassInv /\ \A i \in Ids : TimerInv(i)

\* The length of the timer list and its elements.
LEMMA TimerFacts ==
    ASSUME TypeOK
    PROVE  /\ Len(timer) \in Nat
           /\ Ids = 1 .. Len(timer)
           /\ \A i \in Ids : timer[i] \in TimerRec
    BY DEF TypeOK, Ids

\* A change to one record, field by field.
LEMMA OneTimer ==
    ASSUME TypeOK, NEW i \in Ids, NEW r \in TimerRec,
           timer' = [timer EXCEPT ![i] = r]
    PROVE  /\ timer' \in Seq(TimerRec)
           /\ Len(timer') = Len(timer)
           /\ Ids' = Ids
           /\ timer'[i] = r
           /\ \A k \in Ids : k # i => timer'[k] = timer[k]
    BY DEF TypeOK, Ids

LEMMA NewTimerRec ==
    ASSUME TypeOK, NEW d \in Delay, NEW e \in BOOLEAN
    PROVE  /\ NewTimer(d, e) \in TimerRec
           /\ NewTimer(d, e).active
           /\ ~NewTimer(d, e).cleared
           /\ NewTimer(d, e).runs = 0
    BY TimerAssumption DEF TypeOK, NewTimer, TimerRec

LEMMA IInvStep == IInv /\ [Next]_vars => IInv'
<1> SUFFICES ASSUME IInv, [Next]_vars PROVE IInv'
    OBVIOUS
<1>0. /\ TypeOK /\ PassInv /\ \A i \in Ids : TimerInv(i)
      /\ Len(timer) \in Nat /\ Ids = 1 .. Len(timer)
      /\ \A i \in Ids : timer[i] \in TimerRec
    BY TimerFacts DEF IInv
<1>1. ASSUME NEW d \in Delay, NEW e \in BOOLEAN, AddTimer(d, e) PROVE IInv'
    <2> DEFINE r == NewTimer(d, e)
    <2>1. r \in TimerRec /\ r.active /\ ~r.cleared /\ r.runs = 0
        BY <1>0, NewTimerRec
    <2>2. timer' = Append(timer, r)
        BY <1>1 DEF AddTimer
    <2> HIDE DEF r
    <2>3. /\ timer' \in Seq(TimerRec)
          /\ Len(timer') = Len(timer) + 1
          /\ Ids' = 1 .. Len(timer) + 1
          /\ timer'[Len(timer) + 1] = r
          /\ \A i \in Ids : timer'[i] = timer[i]
        BY <1>0, <2>1, <2>2 DEF TypeOK, Ids
    <2>4. UNCHANGED <<now, listening, phase, deadline, snap, cursor, current, passTop>>
        BY <1>1 DEF AddTimer, loop
    <2>5. TypeOK'
        BY <1>0, <2>3, <2>4 DEF TypeOK
    <2>6. PassInv'
        BY <1>0, <2>3, <2>4 DEF TypeOK, PassInv
    <2>7. ASSUME NEW i \in Ids' PROVE TimerInv(i)'
        <3>1. CASE i \in Ids
            BY <1>0, <2>3, <2>4, <3>1 DEF TimerInv
        <3>2. CASE i \notin Ids
            <4>1. i = Len(timer) + 1
                BY <1>0, <2>3, <3>2
            <4>2. QED
                BY <2>1, <2>3, <4>1 DEF TimerInv
        <3>3. QED
            BY <3>1, <3>2
    <2>8. QED
        BY <2>5, <2>6, <2>7 DEF IInv
<1>2. ASSUME NEW i \in Ids, ClearTimer(i) PROVE IInv'
    <2> DEFINE r == [timer[i] EXCEPT !.active = FALSE, !.cleared = TRUE]
    <2>1. /\ r \in TimerRec /\ ~r.active /\ r.cleared
          /\ r.interval = timer[i].interval /\ r.runs = timer[i].runs
        BY <1>0 DEF TimerRec
    <2>2. timer' = [timer EXCEPT ![i] = r]
        BY <1>0, <1>2 DEF ClearTimer, TypeOK, TimerRec, Ids
    <2> HIDE DEF r
    <2>3. /\ timer' \in Seq(TimerRec) /\ Len(timer') = Len(timer) /\ Ids' = Ids
          /\ timer'[i] = r /\ \A k \in Ids : k # i => timer'[k] = timer[k]
        BY <1>0, <2>1, <2>2, OneTimer
    <2>4. UNCHANGED <<now, listening, phase, deadline, snap, cursor, current, passTop>>
        BY <1>2 DEF ClearTimer, loop
    <2>5. TypeOK' /\ PassInv'
        BY <1>0, <2>1, <2>3, <2>4 DEF TypeOK, PassInv
    <2>6. ASSUME NEW k \in Ids PROVE TimerInv(k)'
        BY <1>0, <2>1, <2>3, <2>4 DEF TimerInv
    <2>7. QED
        BY <2>3, <2>5, <2>6 DEF IInv
<1>3. CASE Tick \/ Listen
    <2>1. listening' \in BOOLEAN
        BY <1>0, <1>3, Zenon DEF Tick, Listen, TypeOK
    <2>2. UNCHANGED <<timer, phase, loop>> /\ now' \in {now, now + 1}
        BY <1>3 DEF Tick, Listen
    <2>3. TypeOK' /\ PassInv'
        BY <1>0, <2>1, <2>2 DEF TypeOK, PassInv, loop
    <2>4. QED
        BY <1>0, <2>2, <2>3 DEF IInv, TimerInv, loop, Ids
<1>4. ASSUME NEW i \in 1 .. cursor, Due(i),
             current' = i,
             timer' = [timer EXCEPT ![i].runs = @ + 1],
             phase = "pass", phase' = "callback",
             UNCHANGED <<now, listening, deadline, snap, cursor, passTop>>
      PROVE  IInv'
    <2> DEFINE r == [timer[i] EXCEPT !.runs = @ + 1]
    <2>0. i \in Ids
        BY <1>0, <1>4 DEF TypeOK
    <2>1. /\ r \in TimerRec /\ r.active = timer[i].active
          /\ r.cleared = timer[i].cleared /\ r.due = timer[i].due
          /\ r.interval = timer[i].interval /\ r.runs = timer[i].runs + 1
        BY <1>0, <2>0 DEF TimerRec
    <2>2. timer' = [timer EXCEPT ![i] = r]
        BY <1>0, <1>4, <2>0 DEF TypeOK, TimerRec, Ids
    <2> HIDE DEF r
    <2>3. /\ timer' \in Seq(TimerRec) /\ Len(timer') = Len(timer) /\ Ids' = Ids
          /\ timer'[i] = r /\ \A k \in Ids : k # i => timer'[k] = timer[k]
        BY <1>0, <2>0, <2>1, <2>2, OneTimer
    <2>4. timer[i].runs \in Nat
        BY <1>0, <2>0 DEF TimerRec
    <2>5. TypeOK' /\ PassInv'
        BY <1>0, <1>4, <2>1, <2>3, <2>4 DEF TypeOK, PassInv
    <2>6. TimerInv(i)'
        BY <1>0, <1>4, <2>0, <2>1, <2>3, <2>4 DEF TimerInv, Due
    <2>7. ASSUME NEW k \in Ids, k # i PROVE TimerInv(k)'
        BY <1>0, <1>4, <2>3, <2>7 DEF TimerInv
    <2>8. QED
        BY <2>3, <2>5, <2>6, <2>7 DEF IInv
<1>5. ASSUME NEW i \in Ids, i = current, CallbackReturns PROVE IInv'
    <2> DEFINE again == timer[i].interval > 0 /\ timer[i].active
               r == IF again
                    THEN [timer[i] EXCEPT !.due = now + timer[i].interval,
                                          !.ended = now]
                    ELSE [timer[i] EXCEPT !.active = FALSE]
    <2>0. i \in 1 .. cursor
        BY <1>0, <1>5 DEF CallbackReturns, TypeOK
    <2>1. timer[i] \in TimerRec /\ now \in Nat
        BY <1>0 DEF TypeOK
    <2>2. r \in TimerRec
        <3>1. CASE again
            <4>1. now + timer[i].interval \in Nat
                BY <2>1 DEF TimerRec
            <4>2. \A d, n \in Nat :
                    [timer[i] EXCEPT !.due = d, !.ended = n] \in TimerRec
                BY <2>1 DEF TimerRec
            <4>3. QED
                BY <2>1, <3>1, <4>1, <4>2
        <3>2. CASE ~again
            BY <2>1, <3>2 DEF TimerRec
        <3>3. QED
            BY <3>1, <3>2
    <2>3. timer' = [timer EXCEPT ![i] = r]
        <3>1. CASE again
            BY <1>0, <1>5, <2>1, <3>1 DEF CallbackReturns, TypeOK, TimerRec, Ids
        <3>2. CASE ~again
            BY <1>0, <1>5, <2>1, <3>2 DEF CallbackReturns, TypeOK, TimerRec, Ids
        <3>3. QED
            BY <3>1, <3>2
    <2>4. /\ r.cleared = timer[i].cleared /\ r.interval = timer[i].interval
          /\ r.runs = timer[i].runs
          /\ again => r.active /\ r.due = now + r.interval /\ r.ended = now
          /\ ~again => ~r.active
        BY <2>1 DEF TimerRec
    <2> HIDE DEF r
    <2>5. /\ timer' \in Seq(TimerRec) /\ Len(timer') = Len(timer) /\ Ids' = Ids
          /\ timer'[i] = r /\ \A k \in Ids : k # i => timer'[k] = timer[k]
        BY <1>0, <2>0, <2>2, <2>3, OneTimer
    <2>6. /\ phase = "callback" /\ phase' = "pass"
          /\ cursor' = i - 1 /\ current' = 0
          /\ UNCHANGED <<now, listening, deadline, snap, passTop>>
        BY <1>5 DEF CallbackReturns
    <2>7. TypeOK' /\ PassInv'
        BY <1>0, <2>0, <2>5, <2>6 DEF TypeOK, PassInv
    <2>8. TimerInv(i)'
        <3>1. /\ timer[i].runs \in Nat /\ timer[i].runs > 0
              /\ timer[i].interval \in Nat
            BY <1>0, <1>5, <2>1, <2>6 DEF TimerRec, PassInv
        <3>2. TimerInv(i)
            BY <1>0, <2>0
        <3>3. CASE again
            BY <2>4, <2>5, <2>6, <3>1, <3>2, <3>3 DEF TimerInv
        <3>4. CASE ~again
            BY <2>4, <2>5, <2>6, <3>1, <3>2, <3>4 DEF TimerInv
        <3>5. QED
            BY <3>3, <3>4
    <2>9. ASSUME NEW k \in Ids, k # i PROVE TimerInv(k)'
        BY <1>0, <1>5, <2>5, <2>6, <2>9 DEF TimerInv
    <2>10. QED
        BY <2>5, <2>7, <2>8, <2>9 DEF IInv
<1>6. ASSUME timer' = timer, now' = now, TypeOK', PassInv',
             phase # "callback", phase' # "callback"
      PROVE  IInv'
    BY <1>0, <1>6 DEF IInv, TimerInv, Ids
<1>7. CASE PollTimesOut \/ EventsHandled
    BY <1>0, <1>6, <1>7 DEF PollTimesOut, EventsHandled, StartPass, TypeOK,
       PassInv, Never
<1>8. CASE EndScript \/ PollReturnsEvents \/ PollInterrupted \/ PollFails
           \/ LoopEnds \/ EndPass
    BY <1>0, <1>6, <1>8 DEF EndScript, PollReturnsEvents, PollInterrupted,
       PollFails, LoopEnds, EndPass, TypeOK, PassInv, loop, Never
<1>9. CASE UNCHANGED vars
    BY <1>0, <1>9 DEF vars, IInv, TypeOK, PassInv, TimerInv, Ids
<1>10. CASE Poll
    <2>1. PICK r \in Remaining \cup {IdleTimeout} :
            deadline' = IF ToInt(r) < 0 THEN Never ELSE now + ToInt(r)
        BY <1>10 DEF Poll
    <2>2. r \in Nat
        <3>1. \A i \in Ids : timer[i].due \in Nat
            BY <1>0, TimerFacts DEF TimerRec
        <3>2. now \in Nat
            BY <1>0 DEF TypeOK
        <3>3. Remaining \subseteq Nat
            BY <3>1, <3>2 DEF Remaining
        <3>4. QED
            BY <3>3, TimerAssumption
    <2>3. ToInt(r) \in Int
        BY <2>2, TimerAssumption DEF ToInt
    <2>4. deadline' \in Nat \cup {Never}
        BY <1>0, <2>1, <2>3 DEF TypeOK
    <2>5. QED
        BY <1>0, <1>6, <1>10, <2>4 DEF Poll, TypeOK, PassInv
<1>11. CASE Fire
    BY <1>4, <1>11 DEF Fire
<1>12. CASE CallbackReturns
    <2>1. current \in Ids
        BY <1>0, <1>12 DEF CallbackReturns, TypeOK
    <2>2. QED
        BY <1>5, <1>12, <2>1
<1>13. QED
    BY <1>1, <1>2, <1>3, <1>7, <1>8, <1>9, <1>10, <1>11, <1>12 DEF Next, Reactor

LEMMA IInvHolds == Spec => []IInv
<1>1. Init => listening \in BOOLEAN
    BY Zenon DEF Init
<1>2. Init => IInv
    BY <1>1 DEF Init, IInv, TypeOK, PassInv, TimerInv, Ids, Never
<1>3. QED
    BY <1>2, IInvStep, PTL DEF Spec

\* Every reachable state of the reactor's timers is type correct.
THEOREM TypeCorrect == Spec => []TypeOK
    BY IInvHolds, PTL DEF IInv

\* live.after runs its callback at most once, and only live.clear stops a
\* repeating timer (reactor_fire_due_timers, reactor_clear_timer).
THEOREM Spent == Spec => []SpentOnlyOnce
<1>1. IInv => SpentOnlyOnce
    BY DEF IInv, TimerInv, SpentOnlyOnce
<1>2. QED
    BY <1>1, IInvHolds, PTL

\* No callback starts early, after live.clear, in the pass that created its
\* timer, or less than an interval after its previous run.
THEOREM OnTime == Spec => StartsOnlyWhenDue
<1> DEFINE A == \A i \in Ids : Starts(i) =>
                    /\ timer[i].due <= now
                    /\ ~timer[i].cleared
                    /\ i <= passTop
                    /\ timer[i].runs > 0 =>
                        /\ timer[i].interval > 0
                        /\ now >= timer[i].ended + timer[i].interval
<1>1. IInv /\ [Next]_vars => [A]_vars
    <2> SUFFICES ASSUME IInv, [Next]_vars, NEW i \in Ids, Starts(i)
                 PROVE  /\ timer[i].due <= now
                        /\ ~timer[i].cleared
                        /\ i <= passTop
                        /\ timer[i].runs > 0 =>
                            /\ timer[i].interval > 0
                            /\ now >= timer[i].ended + timer[i].interval
        OBVIOUS
    <2>0. /\ TypeOK /\ PassInv /\ TimerInv(i)
          /\ Len(timer) \in Nat /\ Ids = 1 .. Len(timer)
          /\ timer[i] \in TimerRec
        BY TimerFacts DEF IInv
    <2>1. Fire
        BY DEF Next, Reactor, Starts, EndScript, Poll, PollTimesOut,
           EventsHandled, StartPass, CallbackReturns, EndPass, LoopEnds,
           PollReturnsEvents, PollInterrupted, PollFails, Tick, Listen,
           AddTimer, ClearTimer, vars
    <2>2. i \in 1 .. cursor /\ Due(i) /\ phase = "pass"
        BY <2>1 DEF Fire, Starts
    <2>3. snap \in Nat /\ now \in Nat /\ cursor \in Nat /\ passTop \in Nat
        BY <2>0 DEF TypeOK
    <2>4. timer[i].due \in Nat /\ timer[i].ended \in Nat /\ timer[i].interval \in Nat
        BY <2>0 DEF TimerRec
    <2>5. QED
        BY <2>0, <2>2, <2>3, <2>4 DEF PassInv, TimerInv, Due
<1>2. QED
    BY <1>1, IInvHolds, PTL DEF Spec, StartsOnlyWhenDue

-----------------------------------------------------------------------------
(* The poll timeout. *)

\* Every active timer is due within the range of epoll_wait's timeout.
WithinRange ==
    \A i \in Ids :
        /\ timer[i].interval <= IntMax
        /\ timer[i].active => timer[i].due <= now + IntMax

\* A timeout within the range of int survives the conversion.
LEMMA ToIntExact ==
    ASSUME NEW r \in 0 .. IntMax PROVE ToInt(r) = r
<1> DEFINE m == IntMax + 1
<1>1. m \in Nat \ {0} /\ r + m \in 0 .. 2 * m - 1
    BY TimerAssumption
<1>2. \A a, b \in Nat : a < b => a % b = a
    OBVIOUS
<1>3. (r + m) % (2 * m) = r + m
    <2>1. r + m \in Nat /\ 2 * m \in Nat /\ r + m < 2 * m
        BY <1>1
    <2> HIDE DEF m
    <2>2. QED
        BY <1>2, <2>1
<1>4. ToInt(r) = ((r + m) % (2 * m)) - m
    BY TimerAssumption DEF ToInt
<1> HIDE DEF m
<1>5. QED
    BY <1>1, <1>3, <1>4

\* Steps that start no timer and reschedule none.
LEMMA WithinRangeKept ==
    ASSUME IInv, WithinRange, IInv', now' >= now, Ids' = Ids,
           \A i \in Ids : /\ timer'[i].interval = timer[i].interval
                          /\ timer'[i].due = timer[i].due
                          /\ timer'[i].active => timer[i].active
    PROVE  WithinRange'
<1>1. now \in Nat /\ now' \in Nat /\ \A i \in Ids : timer[i].due \in Nat
    BY TimerFacts DEF IInv, TypeOK, TimerRec
<1>2. QED
    BY <1>1, TimerAssumption DEF WithinRange

LEMMA WithinRangeStep ==
    ASSUME Delay \subseteq 0 .. IntMax, IInv, WithinRange, [Next]_vars, IInv'
    PROVE  WithinRange'
<1>0. /\ TypeOK /\ now \in Nat /\ Len(timer) \in Nat /\ Ids = 1 .. Len(timer)
      /\ \A i \in Ids : timer[i] \in TimerRec
    BY TimerFacts DEF IInv, TypeOK
<1>1. ASSUME NEW d \in Delay, NEW e \in BOOLEAN, AddTimer(d, e)
      PROVE  WithinRange'
    <2> DEFINE r == NewTimer(d, e)
    <2>1. r.interval <= IntMax /\ r.due <= now + IntMax
        BY <1>0, TimerAssumption DEF NewTimer
    <2>2. r \in TimerRec
        BY <1>0, NewTimerRec
    <2>3. timer' = Append(timer, r) /\ now' = now
        BY <1>1 DEF AddTimer
    <2> HIDE DEF r
    <2>4. /\ Ids' = 1 .. Len(timer) + 1
          /\ timer'[Len(timer) + 1] = r
          /\ \A i \in Ids : timer'[i] = timer[i]
        BY <1>0, <2>2, <2>3 DEF TypeOK, Ids
    <2>5. \A i \in Ids' : i \in Ids \/ i = Len(timer) + 1
        BY <1>0, <2>4
    <2>6. QED
        BY <2>1, <2>3, <2>4, <2>5 DEF WithinRange
<1>2. ASSUME NEW i \in Ids, ClearTimer(i) PROVE WithinRange'
    <2>1. now' = now /\ Ids' = Ids
        BY <1>0, <1>2 DEF ClearTimer, Ids, TypeOK
    <2>2. ASSUME NEW k \in Ids
          PROVE  /\ timer'[k].interval = timer[k].interval
                 /\ timer'[k].due = timer[k].due
                 /\ timer'[k].active => timer[k].active
        BY <1>0, <1>2 DEF ClearTimer, Ids, TypeOK, TimerRec
    <2>3. QED
        BY <1>0, <2>1, <2>2, WithinRangeKept
<1>3. CASE Fire
    <2>1. PICK i \in 1 .. cursor : timer' = [timer EXCEPT ![i].runs = @ + 1]
        BY <1>3 DEF Fire
    <2>2. now' = now /\ Ids' = Ids /\ i \in Ids
        BY <1>0, <1>3, <2>1 DEF Fire, Ids, TypeOK
    <2>3. ASSUME NEW k \in Ids
          PROVE  /\ timer'[k].interval = timer[k].interval
                 /\ timer'[k].due = timer[k].due
                 /\ timer'[k].active => timer[k].active
        BY <1>0, <2>1, <2>2 DEF Ids, TypeOK, TimerRec
    <2>4. QED
        BY <1>0, <2>2, <2>3, WithinRangeKept
<1>4. CASE CallbackReturns
    <2> DEFINE c == current
    <2>1. now' = now /\ Ids' = Ids /\ c \in Ids
        BY <1>0, <1>4 DEF CallbackReturns, Ids, TypeOK
    <2>2. CASE ~(timer[c].interval > 0 /\ timer[c].active)
        <3>1. timer' = [timer EXCEPT ![c].active = FALSE]
            BY <1>4, <2>2 DEF CallbackReturns
        <3>2. ASSUME NEW k \in Ids
              PROVE  /\ timer'[k].interval = timer[k].interval
                     /\ timer'[k].due = timer[k].due
                     /\ timer'[k].active => timer[k].active
            BY <1>0, <2>1, <3>1 DEF Ids, TypeOK, TimerRec
        <3>3. QED
            BY <1>0, <2>1, <3>2, WithinRangeKept
    <2>3. CASE timer[c].interval > 0 /\ timer[c].active
        <3>1. timer' = [timer EXCEPT ![c].due = now + timer[c].interval,
                                     ![c].ended = now]
            BY <1>4, <2>3 DEF CallbackReturns
        <3>2. ASSUME NEW k \in Ids
              PROVE  /\ timer'[k].interval = timer[k].interval
                     /\ timer'[k].active = timer[k].active
                     /\ timer'[k].due = IF k = c THEN now + timer[k].interval
                                        ELSE timer[k].due
            BY <1>0, <2>1, <3>1 DEF Ids, TypeOK, TimerRec
        <3>3. \A k \in Ids : timer[k].interval \in Nat
            BY <1>0 DEF TimerRec
        <3>4. ASSUME NEW k \in Ids
              PROVE  /\ timer'[k].interval <= IntMax
                     /\ timer'[k].active => timer'[k].due <= now + IntMax
            <4>1. /\ timer[k].interval <= IntMax
                  /\ timer[k].active => timer[k].due <= now + IntMax
                BY DEF WithinRange
            <4>2. timer[k].interval \in Nat /\ now \in Nat
                BY <1>0, <3>3
            <4>3. QED
                BY <3>2, <4>1, <4>2, TimerAssumption
        <3>5. QED
            BY <2>1, <3>4 DEF WithinRange
    <2>4. QED
        BY <2>2, <2>3
<1>5. CASE timer' = timer /\ now' \in {now, now + 1}
    BY <1>0, <1>5, WithinRangeKept DEF Ids
<1>6. CASE \/ Tick \/ Listen \/ EndScript \/ Poll \/ PollTimesOut \/ EventsHandled
           \/ EndPass \/ LoopEnds \/ PollReturnsEvents \/ PollInterrupted
           \/ PollFails \/ UNCHANGED vars
    BY <1>5, <1>6 DEF Tick, Listen, EndScript, Poll, PollTimesOut, EventsHandled,
       StartPass, EndPass, LoopEnds, PollReturnsEvents, PollInterrupted,
       PollFails, vars
<1>7. QED
    BY <1>1, <1>2, <1>3, <1>4, <1>6 DEF Next, Reactor

\* Entering the poll sets a deadline no later than any active timer.
LEMMA PollOnTime ==
    ASSUME IInv, WithinRange, Poll PROVE NoOversleep'
<1>0. /\ TypeOK /\ now \in Nat /\ Ids = 1 .. Len(timer)
      /\ \A i \in Ids : timer[i] \in TimerRec
    BY TimerFacts DEF IInv, TypeOK
<1>1. UNCHANGED <<now, timer>> /\ Ids' = Ids
    BY DEF Poll, Ids
<1>2. PICK r \in Remaining \cup {IdleTimeout} :
        /\ IsNextTimeout(r)
        /\ deadline' = IF ToInt(r) < 0 THEN Never ELSE now + ToInt(r)
    BY DEF Poll
<1>3. ASSUME NEW i \in Ids, timer[i].active
      PROVE  /\ deadline' # Never
             /\ deadline' <= timer[i].due \/ deadline' <= now
    <2> DEFINE q == IF timer[i].due < now THEN 0 ELSE timer[i].due - now
    <2>1. q \in Remaining
        BY <1>3 DEF Remaining
    <2>2. r \in Remaining /\ r <= q
        BY <1>2, <2>1 DEF IsNextTimeout
    <2>3. timer[i].due \in Nat /\ timer[i].due <= now + IntMax
        BY <1>0, <1>3 DEF WithinRange, TimerRec
    <2>4. q \in 0 .. IntMax
        BY <1>0, <2>3, TimerAssumption
    <2>5. r \in Nat
        BY <1>0, <2>2 DEF Remaining, TimerRec
    <2>6. r \in 0 .. IntMax
        BY <2>2, <2>4, <2>5, TimerAssumption
    <2>7. ToInt(r) = r
        BY <2>6, ToIntExact
    <2>8. deadline' = now + r
        BY <1>2, <2>5, <2>7
    <2>9. QED
        BY <1>0, <2>2, <2>3, <2>5, <2>8 DEF Never
<1>4. QED
    BY <1>1, <1>3 DEF NoOversleep

\* As long as programs pass delays that fit in epoll_wait's int, the loop never
\* sleeps past an active timer (reactor_next_timeout_ms, reactor_run).
THEOREM NeverOversleeps ==
    ASSUME Delay \subseteq 0 .. IntMax
    PROVE  Spec => []NoOversleep
<1>1. Init => WithinRange /\ NoOversleep
    BY DEF Init, WithinRange, NoOversleep, Ids
<1>2. IInv /\ WithinRange /\ [Next]_vars /\ IInv' => WithinRange'
    BY WithinRangeStep
<1>3. IInv /\ WithinRange /\ NoOversleep /\ [Next]_vars => NoOversleep'
    <2> SUFFICES ASSUME IInv, WithinRange, NoOversleep, [Next]_vars,
                        phase' = "poll"
                 PROVE  NoOversleep'
        BY DEF NoOversleep
    <2>1. CASE Poll
        BY <2>1, PollOnTime
    <2>2. CASE Tick \/ UNCHANGED vars
        <3>1. /\ phase = "poll" /\ UNCHANGED <<timer, deadline>>
              /\ now' \in {now, now + 1} /\ Ids' = Ids
            BY <2>2 DEF Tick, vars, loop, Ids
        <3>2. /\ now \in Nat /\ deadline \in Nat \cup {Never}
              /\ \A i \in Ids : timer[i].due \in Nat
            BY TimerFacts DEF IInv, TypeOK, TimerRec
        <3>3. QED
            BY <3>1, <3>2 DEF NoOversleep, Never
    <2>3. QED
        BY <2>1, <2>2 DEF Next, Reactor, EndScript, PollTimesOut,
           EventsHandled, StartPass, Fire, CallbackReturns, EndPass, LoopEnds,
           PollReturnsEvents, PollInterrupted, PollFails, AddTimer, ClearTimer,
           Listen, InCode, loop
<1>4. QED
    BY <1>1, <1>2, <1>3, IInvHolds, PTL DEF Spec

\* reactor_run returns only when no server listens and no timer is active: each
\* was cleared, or was a one-shot timer and has run once.
THEOREM ExitIdle == Spec => []ExitOnlyWhenIdle
<1> DEFINE Left == phase = "exit" => ~HasWork
<1>1. Init => Left
    BY DEF Init
<1>2. Left /\ [Next]_vars => Left'
    <2> SUFFICES ASSUME Left, [Next]_vars, phase' = "exit" PROVE ~HasWork'
        OBVIOUS
    <2>1. CASE phase = "exit"
        BY <2>1 DEF Next, Reactor, EndScript, Poll, PollTimesOut, EventsHandled,
           StartPass, Fire, CallbackReturns, EndPass, LoopEnds,
           PollReturnsEvents, PollInterrupted, PollFails, Tick, AddTimer,
           ClearTimer, Listen, InCode, vars, HasWork, Ids
    <2>2. CASE phase # "exit"
        <3>1. LoopEnds
            BY <2>2 DEF Next, Reactor, EndScript, Poll, PollTimesOut,
               EventsHandled, StartPass, Fire, CallbackReturns, EndPass,
               PollReturnsEvents, PollInterrupted, PollFails, Tick, AddTimer,
               ClearTimer, Listen, vars
        <3>2. QED
            BY <3>1 DEF LoopEnds, HasWork, Ids
    <2>3. QED
        BY <2>1, <2>2
<1>3. IInv /\ Left => ExitOnlyWhenIdle
    BY DEF IInv, TimerInv, HasWork, ExitOnlyWhenIdle
<1>4. QED
    BY <1>1, <1>2, <1>3, IInvHolds, PTL DEF Spec
=============================================================================
