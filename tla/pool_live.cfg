SPECIFICATION FairSpec
CONSTANTS
    Thread = {t1, t2}
    Main = main
    Spawned = {s1}
    Job = {j1, j2}
    NoOne = noone
    BlockingContexts = {"script"}
INVARIANT NoStrandedWaiter
PROPERTIES OnAllReturns JobsFinish
