SPECIFICATION Spec
CONSTANTS
    Clients = {c}
    Legacy = {}
    Bytes = bytes
    Payloads = {bytes}
    NoPayload = NoPayload
    NoSequence = NoSequence
    Epochs = {1}
    MaxStart = 2
    MaxOperations = 2
    TTL = 1
    MaxQueued = 2
    MaxConnections = 2
    MaxTokens = 2
    MaxInFlight = 1
    Operations <- MCOperations
    Sequence <- MCSequence
CHECK_DEADLOCK FALSE
INVARIANT WrittenOnce
