SPECIFICATION FairSpec
CONSTANTS
    Path = {"/chat"}
    MaxHead = 3
    MaxFrames = 1
    MaxSends = 0
PROPERTIES DisconnectAnnounced
CHECK_DEADLOCK FALSE
