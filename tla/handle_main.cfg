SPECIFICATION FairSpec
CONSTANTS
    Handle = {h1, h2, f1}
    FileHandle = {f1}
    Main = main
    Peer = {p1}
    NoOne = noone
    JoinContexts = {"script"}
INVARIANTS JoinedOnce NoStrandedJoiner
PROPERTIES ImplementsFuture JoinReturns
