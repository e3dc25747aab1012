------------------------------- MODULE Timers -------------------------------
(***************************************************************************)
(* The reactor's timers: live.after, live.every and live.clear, the list   *)
(* of src/src/runtime/reactor_common.c, and the loop of reactor_run        *)
(* (reactor_epoll.c) that sleeps until the next one is due and fires them. *)
(*                                                                         *)
(* Timers are prepended to the list and never unlinked, and ids count up,  *)
(* so the list in the order it is walked is the ids in descending order:   *)
(* the model keeps a sequence indexed by id.  Time is now_ms(); it may     *)
(* pass at any moment, also while a callback runs.                         *)
(***************************************************************************)
EXTENDS Integers, Sequences, FiniteSets

CONSTANTS Delay,       \* the delays programs pass to live.after and live.every
          IntMax,      \* greatest value of epoll_wait's int timeout (2^31 - 1)
          IdleTimeout, \* the poll timeout with a listener and no timer (1000)
          MaxTimers,   \* bound: timers created
          MaxTime      \* bound: the clock stops here

ASSUME TimerAssumption ==
    /\ Delay \subseteq Nat
    /\ IntMax \in Nat
    /\ IdleTimeout \in Nat \ {0}
    /\ MaxTimers \in Nat /\ MaxTime \in Nat

VARIABLES
    now,       \* now_ms()
    timer,     \* timer[id]: the Timer with that id
    listening, \* whether a server listens (g_listening_count > 0)
    phase,     \* where the main thread is
    deadline,  \* when epoll_wait times out; Never for a negative timeout
    snap,      \* "now" of the current reactor_fire_due_timers
    cursor,    \* the newest timer the pass has not yet looked at
    current,   \* the timer whose callback runs
    passTop    \* history: the newest timer when the pass began

vars == <<now, timer, listening, phase, deadline, snap, cursor, current, passTop>>
loop == <<deadline, snap, cursor, current, passTop>>

Never == -1
Ids == DOMAIN timer

\* runs, cleared, ended: history (times the callback was started, whether
\* live.clear named the timer, when it was rescheduled).
NewTimer(delay, every) ==
    [due |-> now + delay, interval |-> IF every THEN delay ELSE 0,
     active |-> TRUE, runs |-> 0, cleared |-> FALSE, ended |-> 0]

Due(i) == timer[i].active /\ timer[i].due <= snap

Init ==
    /\ now = 0
    /\ timer = <<>>
    /\ listening = FALSE
    /\ phase = "script"
    /\ deadline = 0 /\ snap = 0 /\ cursor = 0 /\ current = 0 /\ passTop = 0
-----------------------------------------------------------------------------
(* What Jaguar code does to timers, from the script, an I/O handler or a   *)
(* timer callback.                                                         *)

InCode == phase \in {"script", "io", "callback"}

\* live.after / live.every -> reactor_add_timer
AddTimer(delay, every) ==
    /\ InCode
    /\ Len(timer) < MaxTimers
    /\ timer' = Append(timer, NewTimer(delay, every))
    /\ UNCHANGED <<now, listening, phase, loop>>

\* live.clear -> reactor_clear_timer
ClearTimer(id) ==
    /\ InCode
    /\ timer' = [timer EXCEPT ![id].active = FALSE, ![id].cleared = TRUE]
    /\ UNCHANGED <<now, listening, phase, loop>>

\* server.listen / socket.listen -> reactor_mark_server_listening
Listen ==
    /\ InCode
    /\ listening' = TRUE
    /\ UNCHANGED <<now, timer, phase, loop>>

Tick ==
    /\ now < MaxTime
    /\ now' = now + 1
    /\ UNCHANGED <<timer, listening, phase, loop>>
-----------------------------------------------------------------------------
(* The loop. *)

\* The script, or the handlers of one poll, have run.
EndScript ==
    /\ phase = "script"
    /\ phase' = "loop"
    /\ UNCHANGED <<now, timer, listening, loop>>

\* Faulty variant: timers that are spent or cleared count as work.
HasWorkWhileListed == listening \/ Ids # {}

\* reactor_has_work
HasWork == listening \/ \E i \in Ids : timer[i].active

\* The implicit conversion of the long timeout to epoll_wait's int.
ToInt(x) == ((x + IntMax + 1) % (2 * (IntMax + 1))) - (IntMax + 1)

\* reactor_next_timeout_ms: the least time to an active timer, never negative.
Remaining == {IF timer[i].due < now THEN 0 ELSE timer[i].due - now :
                i \in {k \in Ids : timer[k].active}}
\* Faulty variant: the time to the newest active timer, not to the first due.
IsNewestTimeout(r) ==
    IF Remaining = {} THEN r = IF listening THEN IdleTimeout ELSE -1
    ELSE \E i \in Ids :
            /\ timer[i].active /\ \A k \in Ids : timer[k].active => k <= i
            /\ r = IF timer[i].due < now THEN 0 ELSE timer[i].due - now

IsNextTimeout(r) ==
    IF Remaining = {} THEN r = IF listening THEN IdleTimeout ELSE -1
    ELSE r \in Remaining /\ \A q \in Remaining : r <= q

\* while (reactor_has_work()): compute the timeout and call epoll_wait.
Poll ==
    /\ phase = "loop"
    /\ HasWork
    /\ \E r \in Remaining \cup {IdleTimeout} :
        /\ IsNextTimeout(r)
        /\ deadline' = IF ToInt(r) < 0 THEN Never ELSE now + ToInt(r)
    /\ phase' = "poll"
    /\ UNCHANGED <<now, timer, listening, snap, cursor, current, passTop>>

\* reactor_fire_due_timers reads the clock once and starts at the list's head.
StartPass ==
    /\ snap' = now
    /\ cursor' = Len(timer)
    /\ passTop' = Len(timer)
    /\ phase' = "pass"
    /\ UNCHANGED <<now, timer, listening, current>>

\* Faulty variant: "no events" goes back to the top of the loop.
PollTimesOutSkips ==
    /\ phase = "poll"
    /\ deadline # Never /\ deadline <= now
    /\ deadline' = 0
    /\ phase' = "loop"
    /\ UNCHANGED <<now, timer, listening, snap, cursor, current, passTop>>

\* epoll_wait times out with no event ...
PollTimesOut ==
    /\ phase = "poll"
    /\ deadline # Never /\ deadline <= now
    /\ deadline' = 0
    /\ StartPass

\* ... or returns events, whose coroutines run first ...
PollReturnsEvents ==
    /\ phase = "poll"
    /\ listening
    /\ phase' = "io"
    /\ deadline' = 0
    /\ UNCHANGED <<now, timer, listening, snap, cursor, current, passTop>>

EventsHandled ==
    /\ phase = "io"
    /\ StartPass
    /\ UNCHANGED deadline

\* Faulty variant: EINTR ends the loop.
PollInterruptedEnds ==
    /\ phase = "poll"
    /\ phase' = "exit"
    /\ deadline' = 0
    /\ UNCHANGED <<now, timer, listening, snap, cursor, current, passTop>>

\* ... or is interrupted: back to the top without firing anything.
PollInterrupted ==
    /\ phase = "poll"
    /\ phase' = "loop"
    /\ deadline' = 0
    /\ UNCHANGED <<now, timer, listening, snap, cursor, current, passTop>>

\* Any other error is printed and ends the loop, whatever is pending.
PollFails ==
    /\ phase = "poll"
    /\ phase' = "failed"
    /\ deadline' = 0
    /\ UNCHANGED <<now, timer, listening, snap, cursor, current, passTop>>

LoopEnds ==
    /\ phase = "loop"
    /\ ~HasWork
    /\ phase' = "exit"
    /\ UNCHANGED <<now, timer, listening, loop>>

\* Walk on to the next active timer that is due, and call its function.
Fire ==
    /\ phase = "pass"
    /\ \E i \in 1 .. cursor :
        /\ Due(i)
        /\ \A k \in i + 1 .. cursor : ~Due(k)
        /\ current' = i
        /\ timer' = [timer EXCEPT ![i].runs = @ + 1]
    /\ phase' = "callback"
    /\ UNCHANGED <<now, listening, deadline, snap, cursor, passTop>>

\* Faulty variant: a one-shot timer is not deactivated.
CallbackReturnsActive ==
    /\ phase = "callback"
    /\ timer' =
        IF timer[current].interval > 0 /\ timer[current].active
        THEN [timer EXCEPT ![current].due = now + timer[current].interval,
                           ![current].ended = now]
        ELSE timer
    /\ cursor' = current - 1
    /\ current' = 0
    /\ phase' = "pass"
    /\ UNCHANGED <<now, listening, deadline, snap, passTop>>

\* Faulty variant: rescheduling revives a timer its own callback cleared.
CallbackReturnsRevives ==
    /\ phase = "callback"
    /\ timer' =
        IF timer[current].interval > 0
        THEN [timer EXCEPT ![current].due = now + timer[current].interval,
                           ![current].active = TRUE, ![current].ended = now]
        ELSE [timer EXCEPT ![current].active = FALSE]
    /\ cursor' = current - 1
    /\ current' = 0
    /\ phase' = "pass"
    /\ UNCHANGED <<now, listening, deadline, snap, passTop>>

\* The callback has returned: reschedule a repeating timer from the present
\* time unless it was cleared, deactivate any other.
CallbackReturns ==
    /\ phase = "callback"
    /\ timer' =
        IF timer[current].interval > 0 /\ timer[current].active
        THEN [timer EXCEPT ![current].due = now + timer[current].interval,
                           ![current].ended = now]
        ELSE [timer EXCEPT ![current].active = FALSE]
    /\ cursor' = current - 1
    /\ current' = 0
    /\ phase' = "pass"
    /\ UNCHANGED <<now, listening, deadline, snap, passTop>>

EndPass ==
    /\ phase = "pass"
    /\ \A i \in 1 .. cursor : ~Due(i)
    /\ phase' = "loop"
    /\ snap' = 0 /\ cursor' = 0 /\ passTop' = 0
    /\ UNCHANGED <<now, timer, listening, deadline, current>>
-----------------------------------------------------------------------------
Reactor ==
    \/ EndScript \/ Poll \/ PollTimesOut \/ EventsHandled \/ Fire
    \/ CallbackReturns \/ EndPass \/ LoopEnds

Next ==
    \/ Reactor \/ PollReturnsEvents \/ PollInterrupted \/ PollFails \/ Tick \/ Listen
    \/ \E d \in Delay, e \in BOOLEAN : AddTimer(d, e)
    \/ \E i \in Ids : ClearTimer(i)

Spec == Init /\ [][Next]_vars

\* Time passes, and the main thread runs: code returns, a poll whose timeout
\* has expired returns, signals interrupt it only finitely often in a row.
Fairness ==
    /\ WF_vars(Tick)
    /\ WF_vars(EndScript) /\ WF_vars(Poll) /\ SF_vars(PollTimesOut)
    /\ WF_vars(EventsHandled) /\ WF_vars(Fire) /\ WF_vars(CallbackReturns)
    /\ WF_vars(EndPass) /\ WF_vars(LoopEnds)

FairSpec == Spec /\ Fairness
-----------------------------------------------------------------------------
(* Properties. *)

TimerRec == [due : Nat, interval : Nat, active : BOOLEAN,
             runs : Nat, cleared : BOOLEAN, ended : Nat]

\* Every variable of the timer model keeps its type.
TypeOK ==
    /\ now \in Nat
    /\ timer \in Seq(TimerRec)
    /\ listening \in BOOLEAN
    /\ phase \in {"script", "loop", "poll", "io", "pass", "callback", "exit",
                  "failed"}
    /\ deadline \in Nat \cup {Never}
    /\ snap \in Nat /\ cursor \in Nat /\ current \in Nat /\ passTop \in Nat
    /\ cursor <= Len(timer) /\ current <= Len(timer) /\ passTop <= Len(timer)
    /\ phase = "callback" => current \in 1 .. cursor

Starts(i) == phase = "pass" /\ phase' = "callback" /\ current' = i

\* When a callback starts, its timer is due, was never named by live.clear
\* (not even by a callback of the same pass), existed when the pass began (a
\* zero-delay timer set by a callback cannot starve I/O), and, if it ran
\* before, repeats: its interval has passed since its last return.
StartsOnlyWhenDue ==
    [][\A i \in Ids : Starts(i) =>
        /\ timer[i].due <= now
        /\ ~timer[i].cleared
        /\ i <= passTop
        /\ timer[i].runs > 0 =>
            /\ timer[i].interval > 0
            /\ now >= timer[i].ended + timer[i].interval]_vars

\* A timer with an interval stays scheduled until live.clear names it; one
\* without has run exactly once when it is spent.
SpentOnlyOnce ==
    \A i \in Ids :
        /\ timer[i].interval = 0 => timer[i].runs <= 1
        /\ ~timer[i].active /\ ~timer[i].cleared =>
            timer[i].interval = 0 /\ timer[i].runs = 1

\* epoll_wait never oversleeps: while the main thread is in it, no active
\* timer is due before the timeout it was given, although timers were added,
\* cleared and rescheduled since the previous poll.
NoOversleep ==
    phase = "poll" =>
        \A i \in Ids : timer[i].active =>
            deadline # Never /\ (deadline <= timer[i].due \/ deadline <= now)

\* The loop is left for good only when no server listens and no timer is active
\* (reactor_run, reactor_has_work), and then nothing was dropped: each timer was
\* cleared, or has no interval and has run exactly once.
ExitOnlyWhenIdle ==
    phase = "exit" =>
        /\ ~listening
        /\ \A i \in Ids :
            /\ ~timer[i].active
            /\ timer[i].cleared \/ (timer[i].interval = 0 /\ timer[i].runs = 1)

\* Every timer runs or is cleared, if the model's clock can reach its time
\* (and the system call the loop lives on does not fail).
TimersFire ==
    \A i \in 1 .. MaxTimers :
        (i \in Ids /\ timer[i].due <= MaxTime) ~>
            (phase = "failed" \/ (i \in Ids /\ (timer[i].runs > 0 \/ timer[i].cleared)))

\* A script with timers only exits once none of them is left.
ExitsWhenDone ==
    LET Idle == ~listening /\ \A i \in Ids : ~timer[i].active
    IN  [](phase # "script" /\ Idle => <>(~Idle \/ phase \in {"exit", "failed"}))

=============================================================================
