------------------------------ MODULE Reactor ------------------------------
(***************************************************************************)
(* The event loop's coroutines: src/src/runtime/coro.c, the descriptor     *)
(* registrations of reactor_epoll.c, reactor_await_fd, the accept loops of *)
(* http.c and ws.c and the connection coroutines they start.  What a       *)
(* connection says is left out: between two suspensions a coroutine runs   *)
(* its own code, and the model keeps what that code does to coroutines,    *)
(* descriptors and registrations.                                          *)
(*                                                                         *)
(* Everything here happens on the main thread, so control is in one place: *)
(* in the innermost coroutine of the resume chain (stack), or in the       *)
(* script, the loop or a timer callback when the chain is empty.  Coroutine*)
(* names stand for addresses and descriptors for numbers: both are reused  *)
(* after coro_destroy and close.                                           *)
(***************************************************************************)
EXTENDS Naturals, Sequences, FiniteSets

CONSTANTS Coro,      \* addresses coroutines may be allocated at
          ListenFd,  \* g_listen_fd of http.c, g_ws_listen_fd of ws.c
          ConnFd,    \* descriptors accept() may return
          None,      \* no registration, no descriptor
          MaxEvents  \* MAX_EVENTS: events per epoll_wait

Fd == ListenFd \cup ConnFd
Event == {"read", "write"}

ASSUME ReactorAssumption ==
    /\ ListenFd \cap ConnFd = {}
    /\ None \notin Fd \cup Coro
    /\ MaxEvents \in Nat \ {0}

VARIABLES
    state,  \* of each coroutine: "free" (not allocated), "ready", "running"
    own,    \* the descriptor a coroutine serves (ConnCtx, g_listen_fd)
    waits,  \* what a suspended coroutine passed to reactor_await_fd
    stack,  \* coroutines inside coro_resume, the running one last
    reg,    \* epoll's registrations: for each descriptor the coroutine to resume
    batch,  \* events[i .. n-1] of reactor_run: the coroutines still to resume
    phase,  \* where the main thread is when the chain is empty
    shared  \* history: a second coroutine has used some descriptor

vars == <<state, own, waits, stack, reg, batch, phase, shared>>

Live == {c \in Coro : state[c] # "free"}
Owned == {own[c] : c \in Live}
Suspended == {c \in Coro : state[c] = "ready"}
Pending == {batch[i] : i \in DOMAIN batch}
Chain == {stack[i] : i \in DOMAIN stack}

\* coro_current()
Running(c) == stack # <<>> /\ c = stack[Len(stack)]
Accepting(c) == Running(c) /\ own[c] \in ListenFd
Serving(c) == Running(c) /\ own[c] \in ConnFd

\* Jaguar code runs: the script, a timer callback, a connection's handler.
InCode ==
    \/ stack = <<>> /\ phase \in {"script", "timers"}
    \/ \E c \in Coro : Serving(c)

Init ==
    /\ state = [c \in Coro |-> "free"]
    /\ own = [c \in Coro |-> None]
    /\ waits = [c \in Coro |-> None]
    /\ stack = <<>>
    /\ reg = [f \in Fd |-> None]
    /\ batch = <<>>
    /\ phase = "script"
    /\ shared = FALSE
-----------------------------------------------------------------------------
(* Registrations. *)

Wait(f, ev) == [fd |-> f, ev |-> ev]

\* reactor_watch_fd: EPOLL_CTL_ADD, and EPOLL_CTL_MOD if the descriptor is
\* registered already; either way the last caller is the one to be resumed.
Watch(f, ev, c) == reg' = [reg EXCEPT ![f] = [co |-> c, ev |-> ev]]

\* reactor_unwatch_fd, and what the kernel does when a descriptor is closed.
Unwatch(f) == reg' = [reg EXCEPT ![f] = None]
-----------------------------------------------------------------------------
(* Coroutines. *)

\* http_server_listen, ws_server_listen: create the accept coroutine and run
\* it to its first await.
Listen(c, f) ==
    /\ InCode
    /\ state[c] = "free"
    /\ state' = [state EXCEPT ![c] = "ready"]
    /\ own' = [own EXCEPT ![c] = f]
    /\ waits' = [waits EXCEPT ![c] = Wait(f, "read")]
    /\ Watch(f, "read", c)
    /\ shared' = (shared \/ f \in Owned)
    /\ UNCHANGED <<stack, batch, phase>>

\* accept() gave a connection: create its coroutine and resume it from here.
Accept(a, c, f) ==
    /\ Accepting(a)
    /\ state[c] = "free"
    /\ f \notin Owned
    /\ state' = [state EXCEPT ![c] = "running"]
    /\ own' = [own EXCEPT ![c] = f]
    /\ stack' = Append(stack, c)
    /\ UNCHANGED <<waits, reg, batch, phase, shared>>

\* What coroutine c may wait for: an accept loop for its listening socket, a
\* connection for its own, and a handler that sends on somebody else's socket
\* for that one.
MayAwait(c, f, ev) ==
    \/ Accepting(c) /\ f = own[c] /\ ev = "read"
    \/ Serving(c) /\ f = own[c]
    \/ Serving(c) /\ f \in Owned \cap ConnFd /\ ev = "write"

\* Faulty variant: a yield that always goes back to the loop (uc_link).
AwaitToLoop(c, f, ev) ==
    /\ MayAwait(c, f, ev)
    /\ Watch(f, ev, c)
    /\ waits' = [waits EXCEPT ![c] = Wait(f, ev)]
    /\ state' = [state EXCEPT ![c] = "ready"]
    /\ stack' = <<>>
    /\ shared' = (shared \/ f # own[c])
    /\ UNCHANGED <<own, batch, phase>>

\* Faulty variant: the yield comes before the registration.
AwaitYieldsFirst(c, f, ev) ==
    /\ MayAwait(c, f, ev)
    /\ waits' = [waits EXCEPT ![c] = Wait(f, ev)]
    /\ state' = [state EXCEPT ![c] = "ready"]
    /\ stack' = SubSeq(stack, 1, Len(stack) - 1)
    /\ shared' = (shared \/ f # own[c])
    /\ UNCHANGED <<own, reg, batch, phase>>

\* reactor_await_fd, on EAGAIN in net_read_some or net_write_all and at the top
\* of an accept loop: register, then coro_yield() to whoever resumed c.
Await(c, f, ev) ==
    /\ MayAwait(c, f, ev)
    /\ Watch(f, ev, c)
    /\ waits' = [waits EXCEPT ![c] = Wait(f, ev)]
    /\ state' = [state EXCEPT ![c] = "ready"]
    /\ stack' = SubSeq(stack, 1, Len(stack) - 1)
    /\ shared' = (shared \/ f # own[c])
    /\ UNCHANGED <<own, batch, phase>>

\* http_conn_entry or ws_conn_entry returns, having closed its descriptor; the
\* resumer sees CORO_DONE and destroys the coroutine.
Finish(c) ==
    /\ Serving(c)
    /\ Unwatch(own[c])
    /\ state' = [state EXCEPT ![c] = "free"]
    /\ own' = [own EXCEPT ![c] = None]
    /\ stack' = SubSeq(stack, 1, Len(stack) - 1)
    /\ UNCHANGED <<waits, batch, phase, shared>>
-----------------------------------------------------------------------------
(* reactor_run. *)

\* The script has run.
EndScript ==
    /\ phase = "script"
    /\ phase' = "loop"
    /\ UNCHANGED <<state, own, waits, stack, reg, batch, shared>>

\* reactor_has_work() is false: nobody listens, and no timer is left (timers
\* are the subject of module Timers; here one may be pending or not).
LoopEnds ==
    /\ phase = "loop"
    /\ \A c \in Live : own[c] \notin ListenFd
    /\ phase' = "exit"
    /\ UNCHANGED <<state, own, waits, stack, reg, batch, shared>>

\* The descriptors one epoll_wait may report, in any order.
Reports ==
    {b \in UNION {[1 .. n -> Fd] : n \in 1 .. MaxEvents} :
        /\ \A i \in DOMAIN b : reg[b[i]] # None
        /\ \A i, k \in DOMAIN b : b[i] = b[k] => i = k}

\* epoll_wait returns the registered coroutines of ready descriptors.
PollReturns(b) ==
    /\ phase = "loop"
    /\ batch' = [i \in DOMAIN b |-> reg[b[i]].co]
    /\ phase' = "events"
    /\ UNCHANGED <<state, own, waits, stack, reg, shared>>

\* No event before the timeout.
PollTimesOut ==
    /\ phase = "loop"
    /\ phase' = "timers"
    /\ UNCHANGED <<state, own, waits, stack, reg, batch, shared>>

\* An error other than EINTR ends the loop.
PollFails ==
    /\ phase = "loop"
    /\ phase' = "exit"
    /\ UNCHANGED <<state, own, waits, stack, reg, batch, shared>>

\* Faulty variant: the registration outlives the wait.
HandleEventStillWatched(c) ==
    /\ phase = "events" /\ stack = <<>>
    /\ batch # <<>> /\ c = Head(batch)
    /\ batch' = Tail(batch)
    /\ state' = [state EXCEPT ![c] = "running"]
    /\ stack' = <<c>>
    /\ waits' = [waits EXCEPT ![c] = None]
    /\ UNCHANGED <<own, reg, phase, shared>>

\* Faulty variant: only the first event of a batch is handled.
HandleEventFirstOnly(c) ==
    /\ phase = "events" /\ stack = <<>>
    /\ batch # <<>> /\ c = Head(batch)
    /\ batch' = <<>>
    /\ state' = [state EXCEPT ![c] = "running"]
    /\ stack' = <<c>>
    /\ Unwatch(waits[c].fd)
    /\ waits' = [waits EXCEPT ![c] = None]
    /\ UNCHANGED <<own, phase, shared>>

\* coro_resume on the next event's coroutine, which comes back from coro_yield
\* in reactor_await_fd and removes the registration of its descriptor.
HandleEvent(c) ==
    /\ phase = "events" /\ stack = <<>>
    /\ batch # <<>> /\ c = Head(batch)
    /\ batch' = Tail(batch)
    /\ state' = [state EXCEPT ![c] = "running"]
    /\ stack' = <<c>>
    /\ Unwatch(waits[c].fd)
    /\ waits' = [waits EXCEPT ![c] = None]
    /\ UNCHANGED <<own, phase, shared>>

\* reactor_fire_due_timers: its callbacks run outside any coroutine.
EventsDone ==
    /\ phase = "events" /\ stack = <<>> /\ batch = <<>>
    /\ phase' = "timers"
    /\ UNCHANGED <<state, own, waits, stack, reg, batch, shared>>

TimersDone ==
    /\ phase = "timers"
    /\ phase' = "loop"
    /\ UNCHANGED <<state, own, waits, stack, reg, batch, shared>>
-----------------------------------------------------------------------------
Next ==
    \/ \E c \in Coro, f \in ListenFd : Listen(c, f)
    \/ \E a, c \in Coro, f \in ConnFd : Accept(a, c, f)
    \/ \E c \in Coro, f \in Fd, ev \in Event : Await(c, f, ev)
    \/ \E c \in Coro : Finish(c) \/ HandleEvent(c)
    \/ \E b \in Reports : PollReturns(b)
    \/ EndScript \/ LoopEnds \/ PollTimesOut \/ PollFails \/ EventsDone \/ TimersDone

Spec == Init /\ [][Next]_vars

\* The main thread runs, handlers suspend or return, the backlog of an accept
\* loop runs dry, and a registered descriptor becomes ready and is reported
\* sooner or later.
Fairness ==
    /\ WF_vars(EndScript) /\ WF_vars(EventsDone) /\ WF_vars(TimersDone)
    /\ WF_vars(\E c \in Coro : HandleEvent(c))
    /\ \A c \in Coro :
        /\ WF_vars(Serving(c) /\ (Finish(c) \/ \E f \in Fd, ev \in Event : Await(c, f, ev)))
        /\ SF_vars(Accepting(c) /\ Await(c, own[c], "read"))
    /\ \A f \in Fd : SF_vars(\E b \in Reports :
                                PollReturns(b) /\ \E i \in DOMAIN b : b[i] = f)

FairSpec == Spec /\ Fairness
-----------------------------------------------------------------------------
(* Properties. *)

\* Every variable of the reactor model keeps its type.
TypeOK ==
    /\ state \in [Coro -> {"free", "ready", "running"}]
    /\ own \in [Coro -> Fd \cup {None}]
    /\ waits \in [Coro -> [fd : Fd, ev : Event] \cup {None}]
    /\ stack \in Seq(Coro)
    /\ reg \in [Fd -> [co : Coro, ev : Event] \cup {None}]
    /\ batch \in Seq(Coro)
    /\ phase \in {"script", "loop", "events", "timers", "exit"}
    /\ shared \in BOOLEAN
    /\ \A c \in Live : own[c] \in Fd

\* epoll's data pointers and the events still to be handled in a batch always
\* name allocated, suspended coroutines, and never the same one twice: what
\* earlier events of the batch do (finish, accept, wait for the descriptor of
\* a later one) never makes reactor_run resume freed memory or a coroutine
\* that is already running.
NoDanglingCoro ==
    /\ \A f \in Fd : reg[f] # None =>
        /\ reg[f].co \in Suspended
        /\ waits[reg[f].co] = Wait(f, reg[f].ev)
    /\ Pending \subseteq Suspended
    /\ \A i, k \in DOMAIN batch : batch[i] = batch[k] => i = k

\* The coroutines marked as running are exactly those in the chain of resumes
\* that coro_yield unwinds, each once, and the loop polls only when it is empty.
ResumeChain ==
    /\ \A c \in Coro : state[c] = "running" <=> c \in Chain
    /\ \A i, k \in DOMAIN stack : stack[i] = stack[k] => i = k
    /\ stack # <<>> => phase = "events"

\* While every descriptor has one user, a suspended coroutine will be resumed
\* when what it awaits is ready: it is registered for it, or its event has been
\* reported.  (A second accept loop or a send from another connection's handler
\* takes over the registration, and then the first coroutine is forgotten.)
NoStrandedCoro ==
    ~shared =>
        \A c \in Suspended :
            \/ reg[waits[c].fd] = [co |-> c, ev |-> waits[c].ev]
            \/ c \in Pending

\* A suspended coroutine is resumed, however many others come and go, unless a
\* descriptor gets a second user or the loop ends.
AwaitReturns ==
    \A c \in Coro : state[c] = "ready" ~> (state[c] = "running" \/ phase = "exit" \/ shared)
=============================================================================
