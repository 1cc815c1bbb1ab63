CONSTANTS
    k1 = k1
    k2 = k2
    anonymous = anonymous
    state = state
    start = start
    Keys <- MCKeys
    NoKey = anonymous
    Commands <- MCCommands
    Deferred <- MCDeferred
    QueueCap = 2
    CacheCap = 1
    QueueTtl = 1
    ReplyWait = 1
    MaxTickets = 3
    MaxTime = 2
SPECIFICATION Spec
INVARIANTS
    AtMostOneLive
PROPERTIES
    AbandonedNeverStarts
    SubmissionOrder
    ShutdownCompletes
    ImplementsRetryWindow
