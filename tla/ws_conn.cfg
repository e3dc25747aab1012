SPECIFICATION FairSpec
CONSTANTS
    Path = {"/chat"}
    MaxHead = 3
    MaxFrames = 2
    MaxSends = 1
INVARIANTS WholeFrames CloseCallback
PROPERTIES ImplementsMessageSocket ClientGoneEnds
CHECK_DEADLOCK FALSE
