SPECIFICATION Spec
CONSTANTS
    Nodes = {"a", "b"}
    Names = {"a", "b", "a2"}
    Target <- MCTarget
    Links <- MCLinks
    Keyed <- AB
    Conns = {1, 2, 3}
    Senders <- BA
    Callers <- Both
    MaxQueue = 2
    InboxResults = 1
    InboxEpochs = 4
    Disturbances <- Anything
    MaxDisturbances = 2
    MaxMessages = 3
    MaxCalls <- CallFirst
    MaxPeers = 4
CONSTRAINT MessagesOrTopology
INVARIANTS PeersFitTogether FatesAreTrue RunsInOrder
CHECK_DEADLOCK FALSE
