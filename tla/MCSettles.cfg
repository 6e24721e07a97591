SPECIFICATION PartSpec
CONSTANTS
    Clients = {c}
    Legacy = {c}
    Bytes = bytes
    Payloads = {bytes}
    NoPayload = NoPayload
    NoSequence = NoSequence
    Epochs = {1}
    MaxStart = 2
    MaxOperations = 1
    TTL = 1
    MaxQueued = 2
    MaxConnections = 1
    MaxTokens = 2
    MaxInFlight = 1
    Operations <- MCOperations
    Sequence <- MCSequence
    GitRequests = {1, 2, 3, 4, 5, 6}
    RepoKey <- MCRepo
    JoinKey <- MCKey
    NoKey = NoKey
    maxGlobal = 2
    maxPerRepo = 1
    Loops = {"a", "b"}
    Steps = 1
    Ends = {"b"}
    KeepTabs = 1
    TabCap = 2
    SpaceCap = 1
    MaxRuns = 2
    MaxUpsets = 1
    MaxTyped = 1
    MaxRefused = 2
    MaxDisturbed = 1
    MAX_INPUT_SEQUENCE_SPAN = 2
    inputQueueMaxBytes = 1
    transportOutboxMaxBytes = 2
INVARIANTS SlotsWellUsed
PROPERTIES QueueSettles GitInOrder GitAnswered RunsEnd PassedSettles
CHECK_DEADLOCK FALSE
