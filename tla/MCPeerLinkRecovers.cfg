SPECIFICATION FairSpec
CONSTANTS
    Nodes = {"a", "b"}
    Names = {"a", "b"}
    Target <- MCTarget
    Links <- MCLinks
    Keyed <- AB
    Conns = {1, 2}
    Senders <- AB
    Callers <- None
    MaxQueue = 1
    InboxResults = 1
    InboxEpochs = 4
    Disturbances <- BrokenOrRefused
    MaxDisturbances = 2
    MaxMessages = 1
    MaxCalls <- NoCalls
    MaxPeers = 5
PROPERTIES LinkRecovers QueueDrains
CHECK_DEADLOCK FALSE
