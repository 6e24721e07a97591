SPECIFICATION Spec
CONSTANTS
    Clients = {c}
    Legacy = {}
    Bytes = bytes
    Payloads = {bytes}
    NoPayload = NoPayload
    NoSequence = NoSequence
    Epochs = {1}
    MaxStart = 3
    MaxOperations = 1
    TTL = 1
    MaxQueued = 2
    MaxConnections = 2
    MaxTokens = 2
    MaxInFlight = 2
    Operations <- MCOperations
    Sequence <- MCSequence
CONSTRAINT OneConnectionOrTwoInputs
CHECK_DEADLOCK FALSE
INVARIANTS InputsAddUp TypedOrder
PROPERTIES ActsOnSeenScreen
