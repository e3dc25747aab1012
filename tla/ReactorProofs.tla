--------------------------- MODULE ReactorProofs ---------------------------
(***************************************************************************)
(* Theorems about the reactor's coroutines: types, the absence of dangling *)
(* coroutine pointers and the discipline of nested resumes hold for every  *)
(* program; that no suspended coroutine is forgotten holds as long as no    *)
(* descriptor has had a second user.                                       *)
(***************************************************************************)
EXTENDS Reactor, SequenceTheorems, TLAPS

\* A suspended coroutine remembers what it awaits; only a pass over the events
\* of a poll has events left.
Suspension ==
    /\ \A c \in Suspended : waits[c] \in [fd : Fd, ev : Event]
    /\ phase # "events" => batch = <<>>

IInv == TypeOK /\ NoDanglingCoro /\ ResumeChain /\ Suspension

\* The innermost coroutine of the chain, and the chain without it.
LEMMA Innermost ==
    ASSUME IInv, NEW c \in Coro, Running(c)
    PROVE  /\ state[c] = "running" /\ phase = "events"
           /\ LET s == SubSeq(stack, 1, Len(stack) - 1)
              IN  /\ s \in Seq(Coro)
                  /\ Len(s) = Len(stack) - 1
                  /\ \A i \in 1 .. Len(s) : s[i] = stack[i]
                  /\ {s[i] : i \in DOMAIN s} = Chain \ {c}
<1>1. Len(stack) \in Nat \ {0} /\ stack[Len(stack)] = c /\ stack \in Seq(Coro)
    BY DEF IInv, TypeOK, Running
<1>2. c \in Chain
    BY <1>1 DEF Chain
<1>3. state[c] = "running" /\ phase = "events"
    BY <1>1, <1>2 DEF IInv, ResumeChain
<1> DEFINE s == SubSeq(stack, 1, Len(stack) - 1)
<1>4. /\ s \in Seq(Coro) /\ Len(s) = Len(stack) - 1
      /\ \A i \in 1 .. Len(s) : s[i] = stack[i]
    <2>1. \A i \in 1 .. Len(stack) - 1 : stack[i] \in Coro
        BY <1>1
    <2>2. 1 \in Int /\ Len(stack) - 1 \in Int
        BY <1>1
    <2>3. /\ s \in Seq(Coro)
          /\ Len(s) = IF 1 <= Len(stack) - 1 THEN Len(stack) - 1 - 1 + 1 ELSE 0
          /\ \A i \in 1 .. Len(stack) - 1 - 1 + 1 : s[i] = stack[1 + i - 1]
        BY <2>1, <2>2, SubSeqProperties
    <2> HIDE DEF s
    <2>4. Len(s) = Len(stack) - 1
        <3>1. \A n \in Nat \ {0} :
                (IF 1 <= n - 1 THEN n - 1 - 1 + 1 ELSE 0) = n - 1
            OBVIOUS
        <3>2. Len(s) = IF 1 <= Len(stack) - 1 THEN Len(stack) - 1 - 1 + 1 ELSE 0
            BY <2>3
        <3>3. QED
            BY <1>1, <3>1, <3>2
    <2>5. ASSUME NEW i \in 1 .. Len(s) PROVE s[i] = stack[i]
        <3>1. i \in 1 .. Len(stack) - 1 - 1 + 1 /\ 1 + i - 1 = i
            BY <1>1, <2>4
        <3>2. s[i] = stack[1 + i - 1]
            BY <2>3, <3>1
        <3>3. QED
            BY <3>1, <3>2
    <2>6. QED
        BY <2>3, <2>4, <2>5
<1>5. DOMAIN s = 1 .. Len(stack) - 1 /\ DOMAIN stack = 1 .. Len(stack)
    BY <1>1, <1>4
<1> HIDE DEF s
<1>6. \A i \in DOMAIN s : s[i] = stack[i] /\ i \in DOMAIN stack /\ i # Len(stack)
    BY <1>1, <1>4, <1>5
<1>7. \A i \in DOMAIN stack : i \in DOMAIN s \/ i = Len(stack)
    BY <1>1, <1>5
<1>8. \A i \in DOMAIN stack : stack[i] = c => i = Len(stack)
    BY <1>1, <1>5 DEF IInv, ResumeChain
<1>9. {s[i] : i \in DOMAIN s} = Chain \ {c}
    BY <1>1, <1>6, <1>7, <1>8 DEF Chain
<1>10. QED
    BY <1>3, <1>4, <1>9 DEF s

\* Registrations name different coroutines.
LEMMA OneFdEach ==
    ASSUME NoDanglingCoro, NEW f \in Fd, NEW g \in Fd,
           reg[f] # None, reg[g] # None, reg[f].co = reg[g].co
    PROVE  f = g
<1> DEFINE x == reg[f].co
<1>1. waits[x] = Wait(f, reg[f].ev) /\ waits[x] = Wait(g, reg[g].ev)
    BY DEF NoDanglingCoro
<1>2. Wait(f, reg[f].ev).fd = f /\ Wait(g, reg[g].ev).fd = g
    BY DEF Wait
<1>3. QED
    BY <1>1, <1>2

\* The types are kept.
LEMMA TypeStep ==
    ASSUME IInv, [Next]_vars PROVE TypeOK'
<1> USE DEF Fd, Event
<1>0. TypeOK /\ Suspension /\ Pending \subseteq Suspended
    BY DEF IInv, NoDanglingCoro
<1>1. ASSUME NEW c \in Coro, NEW f \in ListenFd, Listen(c, f) PROVE TypeOK'
    BY <1>0, <1>1 DEF Listen, Watch, Wait, TypeOK, Live
<1>2. ASSUME NEW a \in Coro, NEW c \in Coro, NEW f \in ConnFd, Accept(a, c, f)
      PROVE  TypeOK'
    BY <1>0, <1>2 DEF Accept, TypeOK, Live
<1>3. ASSUME NEW c \in Coro, NEW f \in Fd, NEW ev \in Event, Await(c, f, ev)
      PROVE  TypeOK'
    <2>1. Running(c)
        BY <1>3 DEF Await, MayAwait, Accepting, Serving
    <2>2. stack' \in Seq(Coro) /\ state[c] = "running"
        BY <2>1, <1>3, Innermost DEF Await
    <2>3. QED
        BY <1>0, <1>3, <2>2 DEF Await, Watch, Wait, TypeOK, Live
<1>4. ASSUME NEW c \in Coro, Finish(c) PROVE TypeOK'
    <2>1. Running(c) /\ own[c] \in Fd
        BY <1>4 DEF Finish, Serving
    <2>2. stack' \in Seq(Coro)
        BY <2>1, <1>4, Innermost DEF Finish
    <2>3. QED
        BY <1>0, <1>4, <2>1, <2>2 DEF Finish, Unwatch, TypeOK, Live
<1>5. ASSUME NEW c \in Coro, HandleEvent(c) PROVE TypeOK'
    <2>1. batch' \in Seq(Coro)
        BY <1>0, <1>5, HeadTailProperties DEF HandleEvent, TypeOK
    <2>2. c \in Suspended
        BY <1>0, <1>5 DEF HandleEvent, Pending, TypeOK
    <2>3. waits[c].fd \in Fd
        BY <1>0, <2>2 DEF Suspension
    <2>4. QED
        BY <1>0, <1>5, <2>1, <2>2, <2>3 DEF HandleEvent, Unwatch, TypeOK, Live,
            Suspended
<1>6. ASSUME NEW b \in Reports, PollReturns(b) PROVE TypeOK'
    <2>1. PICK n \in 1 .. MaxEvents : b \in [1 .. n -> Fd]
        BY DEF Reports
    <2>2. \A i \in 1 .. n : reg[b[i]] # None /\ b[i] \in Fd
        BY <2>1 DEF Reports
    <2>3. \A i \in 1 .. n : reg[b[i]].co \in Coro
        BY <1>0, <2>2 DEF TypeOK
    <2>4. batch' = [i \in 1 .. n |-> reg[b[i]].co]
        BY <1>6, <2>1 DEF PollReturns
    <2>5. n \in Nat
        BY ReactorAssumption
    <2>6. batch' \in Seq(Coro)
        BY <2>3, <2>4, <2>5
    <2>7. QED
        BY <1>0, <1>6, <2>6 DEF PollReturns, TypeOK, Live
<1>7. CASE EndScript \/ LoopEnds \/ PollTimesOut \/ PollFails \/ EventsDone
           \/ TimersDone \/ UNCHANGED vars
    BY <1>0, <1>7 DEF EndScript, LoopEnds, PollTimesOut, PollFails, EventsDone,
        TimersDone, vars, TypeOK, Live
<1>8. QED
    BY <1>1, <1>2, <1>3, <1>4, <1>5, <1>6, <1>7 DEF Next

\* Types and allocated coroutines, for the steps below.
LEMMA Facts ==
    ASSUME IInv
    PROVE  /\ state \in [Coro -> {"free", "ready", "running"}]
           /\ waits \in [Coro -> [fd : Fd, ev : Event] \cup {None}]
           /\ reg \in [Fd -> [co : Coro, ev : Event] \cup {None}]
           /\ batch \in Seq(Coro) /\ stack \in Seq(Coro)
           /\ \A c \in Coro : c \in Suspended <=> state[c] = "ready"
           /\ Suspended \subseteq Coro
    BY DEF IInv, TypeOK, Suspended

\* One coroutine c is suspended on f: nothing else that is registered or
\* pending is touched.
LEMMA WatchKeeps ==
    ASSUME IInv, NEW c \in Coro, NEW f \in Fd, NEW ev \in Event,
           state[c] # "ready",
           state' = [state EXCEPT ![c] = "ready"],
           waits' = [waits EXCEPT ![c] = Wait(f, ev)],
           Watch(f, ev, c), batch' = batch
    PROVE  NoDanglingCoro' /\ \A d \in Suspended' : waits'[d] \in [fd : Fd, ev : Event]
<1>1. Suspended' = Suspended \cup {c} /\ c \notin Suspended
    BY Facts DEF Suspended
<1>2. \A d \in Suspended : waits'[d] = waits[d]
    BY <1>1, Facts
<1>3. waits'[c] = Wait(f, ev) /\ Wait(f, ev) \in [fd : Fd, ev : Event]
    BY Facts DEF Wait
<1>4. ASSUME NEW g \in Fd, reg'[g] # None
      PROVE  reg'[g].co \in Suspended' /\ waits'[reg'[g].co] = Wait(g, reg'[g].ev)
    <2>1. CASE g = f
        <3>1. reg'[g] = [co |-> c, ev |-> ev]
            BY <2>1, Facts DEF Watch
        <3>2. QED
            BY <1>1, <1>3, <2>1, <3>1
    <2>2. CASE g # f
        <3>1. reg'[g] = reg[g]
            BY <2>2, Facts DEF Watch
        <3>2. reg[g].co \in Suspended /\ waits[reg[g].co] = Wait(g, reg[g].ev)
            BY <1>4, <3>1 DEF IInv, NoDanglingCoro
        <3>3. QED
            BY <1>1, <1>2, <3>1, <3>2
    <2>3. QED
        BY <2>1, <2>2
<1>5. Pending' \subseteq Suspended'
    BY <1>1 DEF IInv, NoDanglingCoro, Pending
<1>6. \A i, k \in DOMAIN batch' : batch'[i] = batch'[k] => i = k
    BY DEF IInv, NoDanglingCoro
<1>7. NoDanglingCoro'
    BY <1>4, <1>5, <1>6 DEF NoDanglingCoro
<1>8. \A d \in Suspended' : waits'[d] \in [fd : Fd, ev : Event]
    BY <1>1, <1>2, <1>3 DEF IInv, Suspension
<1>9. QED
    BY <1>7, <1>8

\* A coroutine that was not suspended changes, and is not suspended after it;
\* registrations only disappear.
LEMMA OthersKeep ==
    ASSUME IInv, NEW c \in Coro, state[c] # "ready", NEW v, v # "ready",
           state' = [state EXCEPT ![c] = v], waits' = waits, batch' = batch,
           \A g \in Fd : reg'[g] \in {reg[g], None}
    PROVE  NoDanglingCoro' /\ \A d \in Suspended' : waits'[d] \in [fd : Fd, ev : Event]
<1>1. Suspended' = Suspended
    BY Facts DEF Suspended
<1>2. Pending' = Pending
    BY DEF Pending
<1>3. QED
    BY <1>1, <1>2 DEF IInv, NoDanglingCoro, Suspension

\* The chain without its innermost coroutine c, which stops running.
LEMMA PopKeeps ==
    ASSUME IInv, NEW c \in Coro, Running(c), NEW v \in {"free", "ready"},
           state' = [state EXCEPT ![c] = v],
           stack' = SubSeq(stack, 1, Len(stack) - 1), phase' = phase
    PROVE  ResumeChain'
<1>1. /\ phase = "events" /\ Len(stack') = Len(stack) - 1
      /\ stack' \in Seq(Coro)
      /\ \A i \in 1 .. Len(stack') : stack'[i] = stack[i]
    BY Innermost
<1>2. Chain' = Chain \ {c}
    <2>1. Chain' = {stack'[i] : i \in DOMAIN stack'}
        BY DEF Chain
    <2>2. {stack'[i] : i \in DOMAIN stack'} = Chain \ {c}
        BY Innermost
    <2>3. QED
        BY <2>1, <2>2
<1>3. ASSUME NEW d \in Coro PROVE state'[d] = "running" <=> d \in Chain'
    BY <1>2, <1>3, Facts DEF IInv, ResumeChain
<1>4. Len(stack) \in Nat /\ DOMAIN stack = 1 .. Len(stack)
      /\ DOMAIN stack' = 1 .. Len(stack')
    BY <1>1, Facts
<1>5. \A i \in DOMAIN stack' : i \in DOMAIN stack /\ stack'[i] = stack[i]
    BY <1>1, <1>4
<1>6. \A i, k \in DOMAIN stack' : stack'[i] = stack'[k] => i = k
    BY <1>5 DEF IInv, ResumeChain
<1>7. QED
    BY <1>1, <1>3, <1>6 DEF ResumeChain

\* Every step preserves the inductive invariant, one action at a time.
LEMMA IInvStep ==
    ASSUME IInv, [Next]_vars PROVE IInv'
<1> USE DEF Fd, Event
<1>0. TypeOK'
    BY TypeStep
<1>1. ASSUME NEW c \in Coro, NEW f \in ListenFd, Listen(c, f) PROVE IInv'
    <2>1. NoDanglingCoro' /\ \A d \in Suspended' : waits'[d] \in [fd : Fd, ev : Event]
        BY <1>1, WatchKeeps DEF Listen
    <2>2. ResumeChain'
        BY <1>1, Facts DEF Listen, IInv, ResumeChain, Chain
    <2>3. Suspension'
        BY <1>1, <2>1 DEF Listen, IInv, Suspension
    <2>4. QED
        BY <1>0, <2>1, <2>2, <2>3 DEF IInv
<1>2. ASSUME NEW a \in Coro, NEW c \in Coro, NEW f \in ConnFd, Accept(a, c, f)
      PROVE  IInv'
    <2>1. NoDanglingCoro' /\ \A d \in Suspended' : waits'[d] \in [fd : Fd, ev : Event]
        BY <1>2, OthersKeep DEF Accept
    <2>2. phase = "events" /\ phase' = phase
        BY <1>2 DEF Accept, Accepting, Running, IInv, ResumeChain
    <2>3. c \notin Chain
        BY <1>2 DEF Accept, IInv, ResumeChain
    <2>4. /\ Len(stack) \in Nat /\ DOMAIN stack = 1 .. Len(stack)
          /\ DOMAIN stack' = 1 .. Len(stack) + 1
          /\ stack'[Len(stack) + 1] = c
          /\ \A i \in 1 .. Len(stack) : stack'[i] = stack[i]
        BY <1>2, Facts DEF Accept
    <2>5. Chain' = Chain \cup {c}
        <3>1. \A i \in DOMAIN stack' : i \in DOMAIN stack \/ i = Len(stack) + 1
            BY <2>4
        <3>2. \A i \in DOMAIN stack : i \in DOMAIN stack' /\ stack'[i] = stack[i]
            BY <2>4
        <3>3. Len(stack) + 1 \in DOMAIN stack'
            BY <2>4
        <3>4. QED
            BY <2>4, <3>1, <3>2, <3>3 DEF Chain
    <2>6. \A i, k \in DOMAIN stack' : stack'[i] = stack'[k] => i = k
        BY <2>3, <2>4 DEF Chain, IInv, ResumeChain
    <2>7. ResumeChain'
        BY <1>2, <2>2, <2>5, <2>6, Facts DEF Accept, IInv, ResumeChain
    <2>8. Suspension'
        BY <2>1, <2>2 DEF Suspension
    <2>9. QED
        BY <1>0, <2>1, <2>7, <2>8 DEF IInv
<1>3. ASSUME NEW c \in Coro, NEW f \in Fd, NEW ev \in Event, Await(c, f, ev)
      PROVE  IInv'
    <2>1. Running(c)
        BY <1>3 DEF Await, MayAwait, Accepting, Serving
    <2>2. state[c] = "running" /\ phase = "events"
        BY <2>1, Innermost
    <2>3. NoDanglingCoro' /\ \A d \in Suspended' : waits'[d] \in [fd : Fd, ev : Event]
        BY <1>3, <2>2, WatchKeeps DEF Await
    <2>4. ResumeChain'
        BY <1>3, <2>1, PopKeeps DEF Await
    <2>5. QED
        BY <1>0, <1>3, <2>2, <2>3, <2>4 DEF IInv, Suspension, Await
<1>4. ASSUME NEW c \in Coro, Finish(c) PROVE IInv'
    <2>1. Running(c) /\ own[c] \in Fd
        BY <1>4 DEF Finish, Serving
    <2>2. state[c] = "running" /\ phase = "events"
        BY <2>1, Innermost
    <2>3. \A g \in Fd : reg'[g] \in {reg[g], None}
        BY <1>4, Facts DEF Finish, Unwatch
    <2>4. NoDanglingCoro' /\ \A d \in Suspended' : waits'[d] \in [fd : Fd, ev : Event]
        BY <1>4, <2>2, <2>3, OthersKeep DEF Finish
    <2>5. ResumeChain'
        BY <1>4, <2>1, PopKeeps DEF Finish
    <2>6. QED
        BY <1>0, <1>4, <2>2, <2>4, <2>5 DEF IInv, Suspension, Finish
<1>5. ASSUME NEW c \in Coro, HandleEvent(c) PROVE IInv'
    <2> DEFINE f == waits[c].fd
    <2>1. /\ batch # <<>> /\ c = Head(batch) /\ batch' = Tail(batch)
          /\ stack = <<>> /\ stack' = <<c>> /\ phase = "events" /\ phase' = phase
        BY <1>5 DEF HandleEvent
    <2>2. /\ Len(batch) \in Nat \ {0} /\ DOMAIN batch = 1 .. Len(batch)
          /\ c = batch[1] /\ DOMAIN batch' = 1 .. Len(batch) - 1
          /\ \A i \in 1 .. Len(batch) - 1 : batch'[i] = batch[i + 1]
        BY <2>1, Facts
    <2>3. c \in Pending
        BY <2>2 DEF Pending
    <2>4. c \in Suspended /\ state[c] = "ready"
        BY <2>3, Facts DEF IInv, NoDanglingCoro
    <2>5. Suspended' = Suspended \ {c}
        BY <1>5, Facts DEF HandleEvent, Suspended
    <2>6. \A d \in Suspended' : waits'[d] = waits[d]
        BY <1>5, <2>5, Facts DEF HandleEvent
    <2>7. ASSUME NEW g \in Fd, reg'[g] # None
          PROVE  /\ reg'[g].co \in Suspended'
                 /\ waits'[reg'[g].co] = Wait(g, reg'[g].ev)
        <3>1. g # f /\ reg'[g] = reg[g]
            BY <1>5, <2>7, Facts DEF HandleEvent, Unwatch
        <3>2. reg[g].co \in Suspended /\ waits[reg[g].co] = Wait(g, reg[g].ev)
            BY <2>7, <3>1 DEF IInv, NoDanglingCoro
        <3>3. Wait(g, reg[g].ev).fd = g
            BY DEF Wait
        <3>4. reg[g].co # c
            BY <3>1, <3>2, <3>3
        <3>5. QED
            BY <2>5, <2>6, <3>1, <3>2, <3>4
    <2>8. \A i \in DOMAIN batch' :
            i + 1 \in DOMAIN batch /\ i + 1 # 1 /\ batch'[i] = batch[i + 1]
        BY <2>2
    <2>9. 1 \in DOMAIN batch
        BY <2>2
    <2>10. ASSUME NEW i \in DOMAIN batch' PROVE batch'[i] \in Suspended'
        <3>1. i + 1 \in DOMAIN batch /\ i + 1 # 1 /\ batch'[i] = batch[i + 1]
            BY <2>8
        <3>2. batch[i + 1] # c
            BY <2>2, <2>9, <3>1 DEF IInv, NoDanglingCoro
        <3>3. batch[i + 1] \in Suspended
            BY <3>1 DEF IInv, NoDanglingCoro, Pending
        <3>4. QED
            BY <2>5, <3>1, <3>2, <3>3
    <2>11. \A i, k \in DOMAIN batch' : batch'[i] = batch'[k] => i = k
        <3> SUFFICES ASSUME NEW i \in DOMAIN batch', NEW k \in DOMAIN batch',
                            batch'[i] = batch'[k]
                     PROVE  i = k
            OBVIOUS
        <3>1. i + 1 = k + 1
            BY <2>8 DEF IInv, NoDanglingCoro
        <3>2. i \in Nat /\ k \in Nat
            BY <2>2
        <3>3. QED
            BY <3>1, <3>2
    <2>12. NoDanglingCoro'
        BY <2>7, <2>10, <2>11 DEF NoDanglingCoro, Pending
    <2>13. Chain = {} /\ Chain' = {c}
        BY <2>1 DEF Chain
    <2>14. \A d \in Coro : state'[d] = "running" <=> d \in Chain'
        BY <1>5, <2>13, Facts DEF HandleEvent, IInv, ResumeChain
    <2>15. ResumeChain'
        BY <2>1, <2>14 DEF ResumeChain
    <2>16. Suspension'
        BY <2>1, <2>5, <2>6 DEF IInv, Suspension
    <2>17. QED
        BY <1>0, <2>12, <2>15, <2>16 DEF IInv
<1>6. ASSUME NEW b \in Reports, PollReturns(b) PROVE IInv'
    <2>1. /\ \A i \in DOMAIN b : b[i] \in Fd /\ reg[b[i]] # None
          /\ \A i, k \in DOMAIN b : b[i] = b[k] => i = k
        BY DEF Reports
    <2>2. /\ batch' = [i \in DOMAIN b |-> reg[b[i]].co] /\ phase' = "events"
          /\ UNCHANGED <<state, waits, stack, reg>>
        BY <1>6 DEF PollReturns
    <2>3. Suspended' = Suspended
        BY <2>2 DEF Suspended
    <2>4. Pending' \subseteq Suspended'
        BY <2>1, <2>2, <2>3 DEF IInv, NoDanglingCoro, Pending
    <2>5. \A i, k \in DOMAIN batch' : batch'[i] = batch'[k] => i = k
        BY <2>1, <2>2, OneFdEach DEF IInv
    <2>6. NoDanglingCoro'
        BY <2>2, <2>3, <2>4, <2>5 DEF IInv, NoDanglingCoro
    <2>7. ResumeChain'
        BY <2>2 DEF IInv, ResumeChain, Chain
    <2>8. Suspension'
        BY <2>2, <2>3 DEF IInv, Suspension
    <2>9. QED
        BY <1>0, <2>6, <2>7, <2>8 DEF IInv
<1>7. CASE EndScript \/ LoopEnds \/ PollTimesOut \/ PollFails \/ EventsDone
           \/ TimersDone \/ UNCHANGED vars
    <2>1. UNCHANGED <<state, waits, stack, reg, batch>>
        BY <1>7 DEF EndScript, LoopEnds, PollTimesOut, PollFails, EventsDone,
            TimersDone, vars
    <2>2. NoDanglingCoro' /\ Suspended' = Suspended
        BY <2>1 DEF IInv, NoDanglingCoro, Suspended, Pending
    <2>3. ResumeChain' /\ Suspension'
        BY <1>7, <2>1, <2>2 DEF EndScript, LoopEnds, PollTimesOut, PollFails,
            EventsDone, TimersDone, vars, IInv, ResumeChain, Suspension, Chain
    <2>4. QED
        BY <1>0, <2>2, <2>3 DEF IInv
<1>8. QED
    BY <1>1, <1>2, <1>3, <1>4, <1>5, <1>6, <1>7 DEF Next

LEMMA IInvHolds == Spec => []IInv
<1>1. Init => IInv
    <2>1. Init => TypeOK
        <3> SUFFICES ASSUME Init PROVE TypeOK
            OBVIOUS
        <3>1. shared \in BOOLEAN
            BY DEF Init
        <3>2. QED
            BY <3>1 DEF Init, TypeOK, Live
    <2>2. Init => NoDanglingCoro /\ ResumeChain /\ Suspension
        BY DEF Init, NoDanglingCoro, ResumeChain, Suspension, Suspended, Pending, Chain
    <2>3. QED
        BY <2>1, <2>2 DEF IInv
<1>2. QED
    BY <1>1, IInvStep, PTL DEF Spec

\* Every reachable state of the reactor is type correct.
THEOREM TypeCorrect == Spec => []TypeOK
<1>1. IInv => TypeOK
    BY DEF IInv
<1>2. QED
    BY <1>1, IInvHolds, PTL

\* reactor_run never resumes freed memory or a running coroutine, whatever
\* handlers do with each other's descriptors: epoll's pointers and the events
\* of a batch name distinct suspended coroutines.
THEOREM PointersLive == Spec => []NoDanglingCoro
<1>1. IInv => NoDanglingCoro
    BY DEF IInv
<1>2. QED
    BY <1>1, IInvHolds, PTL

\* Nested coro_resume calls unwind in order and leave nothing running behind.
THEOREM ChainDiscipline == Spec => []ResumeChain
<1>1. IInv => ResumeChain
    BY DEF IInv
<1>2. QED
    BY <1>1, IInvHolds, PTL
-----------------------------------------------------------------------------
(* As long as a descriptor has one user. *)

\* Every coroutine waits for the descriptor it serves, and no two serve one.
OneUser ==
    /\ \A c \in Suspended : waits[c].fd = own[c]
    /\ \A c, d \in Live : own[c] = own[d] => c = d

\* What a suspended coroutine needs in order to be resumed.
Registered(c) == reg[waits[c].fd] = [co |-> c, ev |-> waits[c].ev]
Kept == \A c \in Suspended : Registered(c) \/ c \in Pending

LEMMA OneUserStep ==
    ASSUME ~shared', IInv, IInv', OneUser, [Next]_vars PROVE OneUser'
<1>0. \A c \in Coro : (c \in Suspended => c \in Live) /\ (c \in Live => own[c] \in Owned)
    BY DEF Suspended, Live, Owned
<1>1. ASSUME NEW c \in Coro, NEW f \in ListenFd, Listen(c, f) PROVE OneUser'
    <2>1. f \notin Owned
        BY <1>1 DEF Listen
    <2>2. QED
        BY <1>0, <1>1, <2>1, Facts DEF Listen, OneUser, Suspended, Live, Wait, IInv,
            TypeOK
<1>2. ASSUME NEW a \in Coro, NEW c \in Coro, NEW f \in ConnFd, Accept(a, c, f)
      PROVE  OneUser'
    BY <1>0, <1>2, Facts DEF Accept, OneUser, Suspended, Live, IInv, TypeOK
<1>3. ASSUME NEW c \in Coro, NEW f \in Fd, NEW ev \in Event, Await(c, f, ev)
      PROVE  OneUser'
    <2>1. Running(c) /\ f = own[c]
        BY <1>3 DEF Await, MayAwait, Accepting, Serving
    <2>2. state[c] = "running"
        BY <2>1, Innermost
    <2>3. QED
        BY <1>0, <1>3, <2>1, <2>2, Facts DEF Await, OneUser, Suspended, Live, Wait
<1>4. ASSUME NEW c \in Coro, Finish(c) PROVE OneUser'
    BY <1>0, <1>4, Facts DEF Finish, OneUser, Suspended, Live, IInv, TypeOK
<1>5. ASSUME NEW c \in Coro, HandleEvent(c) PROVE OneUser'
    <2>1. c \in Suspended
        BY <1>5, Facts DEF HandleEvent, IInv, NoDanglingCoro, Pending
    <2>2. QED
        BY <1>0, <1>5, <2>1, Facts DEF HandleEvent, OneUser, Suspended, Live
<1>6. CASE \/ \E b \in Reports : PollReturns(b)
           \/ EndScript \/ LoopEnds \/ PollTimesOut \/ PollFails \/ EventsDone
           \/ TimersDone \/ UNCHANGED vars
    <2>1. UNCHANGED <<state, own, waits>>
        BY <1>6 DEF PollReturns, EndScript, LoopEnds, PollTimesOut, PollFails,
            EventsDone, TimersDone, vars
    <2>2. QED
        BY <2>1 DEF OneUser, Suspended, Live
<1>7. QED
    BY <1>1, <1>2, <1>3, <1>4, <1>5, <1>6 DEF Next

\* A step that changes only registrations of descriptor f, and resumes or
\* suspends only coroutines that serve f, forgets nobody.
LEMMA OtherFdsKept ==
    ASSUME IInv, OneUser, Kept, NEW c \in Coro, NEW f \in Fd,
           \A g \in Fd \ {f} : reg'[g] = reg[g],
           \A d \in Coro \ {c} : waits'[d] = waits[d] /\ state'[d] = state[d],
           \A d \in Suspended \ {c} : own[d] # f,
           Pending \ {c} \subseteq Pending',
           c \in Suspended' => Registered(c)'
    PROVE  Kept'
<1> SUFFICES ASSUME NEW d \in Suspended'
             PROVE  Registered(d)' \/ d \in Pending'
    BY DEF Kept
<1>1. CASE d = c
    BY <1>1
<1>2. CASE d # c
    <2>1. d \in Suspended /\ waits'[d] = waits[d] /\ d \in Coro
        BY <1>2 DEF Suspended
    <2>2. waits[d].fd # f /\ waits[d].fd \in Fd
        BY <1>2, <2>1 DEF OneUser, IInv, Suspension
    <2>3. reg'[waits[d].fd] = reg[waits[d].fd]
        BY <2>2
    <2>4. Registered(d) \/ d \in Pending
        BY <2>1 DEF Kept
    <2>5. QED
        BY <1>2, <2>1, <2>3, <2>4 DEF Registered
<1>3. QED
    BY <1>1, <1>2

LEMMA NoStrandedStep ==
    ASSUME ~shared', IInv, OneUser, Kept, [Next]_vars
    PROVE  Kept'
<1>0. \A c \in Suspended : c \in Live /\ c \in Coro /\ own[c] \in Owned
    BY DEF Suspended, Live, Owned
<1>1. ASSUME NEW c \in Coro, NEW f \in ListenFd, Listen(c, f) PROVE Kept'
    <2>1. f \in Fd /\ f \notin Owned
        BY <1>1 DEF Listen, Fd
    <2>2. Registered(c)'
        BY <1>1, <2>1, Facts DEF Listen, Registered, Watch, Wait
    <2>3. Pending' = Pending
        BY <1>1 DEF Listen, Pending
    <2>4. /\ \A g \in Fd \ {f} : reg'[g] = reg[g]
          /\ \A d \in Coro \ {c} : waits'[d] = waits[d] /\ state'[d] = state[d]
        BY <1>1, Facts DEF Listen, Watch
    <2>5. QED
        BY <1>0, <2>1, <2>2, <2>3, <2>4, OtherFdsKept
<1>2. ASSUME NEW a \in Coro, NEW c \in Coro, NEW f \in ConnFd, Accept(a, c, f)
      PROVE  Kept'
    <2>1. f \in Fd /\ f \notin Owned
        BY <1>2 DEF Accept, Fd
    <2>2. c \notin Suspended' /\ Pending' = Pending
        BY <1>2, Facts DEF Accept, Suspended, Pending
    <2>3. /\ \A g \in Fd \ {f} : reg'[g] = reg[g]
          /\ \A d \in Coro \ {c} : waits'[d] = waits[d] /\ state'[d] = state[d]
        BY <1>2, Facts DEF Accept
    <2>4. QED
        BY <1>0, <2>1, <2>2, <2>3, OtherFdsKept
<1>3. ASSUME NEW c \in Coro, NEW f \in Fd, NEW ev \in Event, Await(c, f, ev)
      PROVE  Kept'
    <2>1. Running(c) /\ f = own[c]
        BY <1>3 DEF Await, MayAwait, Accepting, Serving
    <2>2. c \in Live
        BY <2>1, Innermost DEF Live
    <2>3. \A d \in Suspended \ {c} : own[d] # f
        BY <1>0, <2>1, <2>2 DEF OneUser
    <2>4. Registered(c)'
        BY <1>3, Facts DEF Await, Registered, Watch, Wait
    <2>5. Pending' = Pending
        BY <1>3 DEF Await, Pending
    <2>6. /\ \A g \in Fd \ {f} : reg'[g] = reg[g]
          /\ \A d \in Coro \ {c} : waits'[d] = waits[d] /\ state'[d] = state[d]
        BY <1>3, Facts DEF Await, Watch
    <2>7. QED
        BY <2>3, <2>4, <2>5, <2>6, OtherFdsKept
<1>4. ASSUME NEW c \in Coro, Finish(c) PROVE Kept'
    <2>1. Running(c) /\ own[c] \in Fd
        BY <1>4 DEF Finish, Serving, Fd
    <2>2. c \in Live
        BY <2>1, Innermost DEF Live
    <2>3. \A d \in Suspended \ {c} : own[d] # own[c]
        BY <1>0, <2>2 DEF OneUser
    <2>4. c \notin Suspended' /\ Pending' = Pending
        BY <1>4, Facts DEF Finish, Suspended, Pending
    <2>5. /\ \A g \in Fd \ {own[c]} : reg'[g] = reg[g]
          /\ \A d \in Coro \ {c} : waits'[d] = waits[d] /\ state'[d] = state[d]
        BY <1>4, Facts DEF Finish, Unwatch
    <2>6. QED
        BY <2>1, <2>3, <2>4, <2>5, OtherFdsKept
<1>5. ASSUME NEW c \in Coro, HandleEvent(c) PROVE Kept'
    <2>1. c \in Suspended
        BY <1>5, Facts DEF HandleEvent, IInv, NoDanglingCoro, Pending
    <2>2. c \in Live /\ own[c] = waits[c].fd /\ own[c] \in Fd
        BY <1>0, <2>1 DEF OneUser, IInv, Suspension
    <2>3. \A d \in Suspended \ {c} : own[d] # own[c]
        BY <1>0, <2>2 DEF OneUser
    <2>4. c \notin Suspended'
        BY <1>5, Facts DEF HandleEvent, Suspended
    <2>5. Pending \ {c} \subseteq Pending'
        <3>1. /\ Len(batch) \in Nat \ {0} /\ DOMAIN batch = 1 .. Len(batch)
              /\ c = batch[1] /\ DOMAIN batch' = 1 .. Len(batch) - 1
              /\ \A i \in 1 .. Len(batch) - 1 : batch'[i] = batch[i + 1]
            BY <1>5, Facts DEF HandleEvent
        <3>2. ASSUME NEW i \in DOMAIN batch, batch[i] # c
              PROVE  batch[i] \in Pending'
            <4>1. i # 1 /\ i - 1 \in DOMAIN batch' /\ (i - 1) + 1 = i
                BY <3>1, <3>2
            <4>2. batch'[i - 1] = batch[i]
                BY <3>1, <4>1
            <4>3. QED
                BY <4>1, <4>2 DEF Pending
        <3>3. QED
            BY <3>2 DEF Pending
    <2>6. /\ \A g \in Fd \ {own[c]} : reg'[g] = reg[g]
          /\ \A d \in Coro \ {c} : waits'[d] = waits[d] /\ state'[d] = state[d]
        BY <1>5, <2>2, Facts DEF HandleEvent, Unwatch
    <2>7. QED
        BY <2>2, <2>3, <2>4, <2>5, <2>6, OtherFdsKept
<1>6. CASE \/ \E b \in Reports : PollReturns(b)
           \/ EndScript \/ LoopEnds \/ PollTimesOut \/ PollFails \/ EventsDone
           \/ TimersDone \/ UNCHANGED vars
    <2>1. UNCHANGED <<state, waits, reg>> /\ (batch' = batch \/ phase = "loop")
        BY <1>6 DEF PollReturns, EndScript, LoopEnds, PollTimesOut, PollFails,
            EventsDone, TimersDone, vars
    <2>2. Suspended' = Suspended /\ Pending \subseteq Pending'
        BY <2>1 DEF Suspended, Pending, IInv, Suspension
    <2>3. QED
        BY <2>1, <2>2 DEF Kept, Registered
<1>7. QED
    BY <1>1, <1>2, <1>3, <1>4, <1>5, <1>6 DEF Next

\* As long as handlers send only on their own sockets and no server listens
\* twice, a suspended coroutine is never forgotten: it stays registered for what
\* it awaits until its event is taken from a batch.
THEOREM NobodyStranded == Spec => []NoStrandedCoro
<1> DEFINE J == ~shared => OneUser /\ Kept
<1>1. Init => J
    BY DEF Init, OneUser, Kept, Suspended, Live
<1>2. IInv /\ IInv' /\ J /\ [Next]_vars => J'
    <2> SUFFICES ASSUME IInv, IInv', J, [Next]_vars, ~shared'
                 PROVE  OneUser' /\ Kept'
        OBVIOUS
    <2>1. ~shared
        BY DEF Next, Listen, Accept, Await, Finish, HandleEvent, PollReturns,
           EndScript, LoopEnds, PollTimesOut, PollFails, EventsDone, TimersDone, vars
    <2>2. QED
        BY <2>1, OneUserStep, NoStrandedStep
<1>3. J => NoStrandedCoro
    BY DEF NoStrandedCoro, Kept, Registered
<1>4. QED
    BY <1>1, <1>2, <1>3, IInvHolds, PTL DEF Spec
=============================================================================
