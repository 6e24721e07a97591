SPECIFICATION Spec
CONSTANTS
    Nodes = {"a", "b"}
    Names = {"a", "b"}
    Target <- MCTarget
    Links <- MCLinks
    Keyed <- AB
    Conns = {1, 2, 3}
    Senders <- BA
    Callers <- None
    MaxQueue = 2
    InboxResults = 1
    InboxEpochs = 4
    Disturbances <- Connections
    MaxDisturbances = 2
    MaxMessages = 2
    MaxCalls <- NoCalls
    MaxPeers = 4
INVARIANTS DeliveredRan
CHECK_DEADLOCK FALSE
