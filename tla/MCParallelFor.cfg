CONSTANTS
    outer = outer
    inner = inner
    other = other
    first = first
    Calls <- MCCalls
    NoCall = NoCall
    Nest <- MCNest
    Count = 3
    Grain = 2
    Threads <- MCThreads
    NoTask = NoTask
    MaxWorkers = 2
SPECIFICATION Spec

INVARIANTS
    ExactlyOnce
    NoTaskOutlivesCall
    ErrorReported
PROPERTIES
    CallsEnd
CHECK_DEADLOCK FALSE
