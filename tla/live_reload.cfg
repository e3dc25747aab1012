SPECIFICATION FairSpec
CONSTANTS
    Content = {a, b}
    Torn = torn
    NoText = notext
    MaxWrites = 5
INVARIANTS NothingForgotten ReloadsPaid
PROPERTY NewestRuns
CHECK_DEADLOCK FALSE
