SPECIFICATION PartSpec
CONSTANTS
    a1 = a1
    a2 = a2
    a3 = a3
    b1 = b1
    plain = plain
    noSequence = noSequence
    Clients = {c}
    Sessions = {s}
    Epochs = {1, 2}
    MaxStart = 3
    Payloads = {p, q}
    NoPayload = NoPayload
    MaxOperations = 1
    TTL = 2
    MaxTime = 3
    MaxAdmissions = 4
    NoSequence <- noSequence
    Operations <- MCOperations
    Sequence <- MCSequence
    Views = {v, w}
    MaxHeldChunks = 1
    MaxOutputs = 1
    MaxTroubles = 1
    LastEpoch = 2
    LateReceipts = FALSE
INVARIANTS AtMostOnce MemoryFits FreshIsAdmitted OneAuthority NothingSkipped AnsweredOnce
PROPERTIES WindowBeforeRepeat AnswersAreTrue AuthorityReturns
CHECK_DEADLOCK FALSE
