SPECIFICATION FairSpec
CONSTANTS
    Delay = {0, 1}
    IntMax = 7
    IdleTimeout = 2
    MaxTimers = 3
    MaxTime = 3
INVARIANTS SpentOnlyOnce NoOversleep ExitOnlyWhenIdle
PROPERTIES StartsOnlyWhenDue TimersFire ExitsWhenDone
CHECK_DEADLOCK FALSE
