SPECIFICATION Spec
CONSTANTS
    Thread = {t1, t2, t3}
    Main = main
    Spawned = {s1, s2}
    Job = {j1, j2, j3}
    NoOne = noone
    BlockingContexts = {"script", "timer", "spawn"}
SYMMETRY Symmetry
INVARIANTS Accounting NoSleepWhileJobQueued OneInterpreter
PROPERTY ImplementsBatchExecutor
CHECK_DEADLOCK FALSE
