SPECIFICATION Spec
CONSTANTS
    Nodes = {"a", "b"}
    Names = {"a", "b"}
    Target <- MCTarget
    Links <- MCLinks
    Keyed <- AB
    Conns = {1, 2, 3}
    Senders <- AB
    Callers <- None
    MaxQueue = 2
    InboxResults = 1
    InboxEpochs = 4
    Disturbances <- Connections
    MaxDisturbances = 2
    MaxMessages = 3
    MaxCalls <- NoCalls
    MaxPeers = 4
INVARIANTS OneAtATime
CHECK_DEADLOCK FALSE
