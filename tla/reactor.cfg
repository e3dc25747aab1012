SPECIFICATION FairSpec
CONSTANTS
    Coro = {c1, c2, c3, c4}
    ListenFd = {http}
    ConnFd = {f1, f2}
    None = none
    MaxEvents = 2
INVARIANTS NoDanglingCoro ResumeChain NoStrandedCoro
PROPERTY AwaitReturns
CHECK_DEADLOCK FALSE
