SPECIFICATION Spec

CONSTANTS
    Total = 2
    MaxRequests = 2

INVARIANTS
    ArchiveConsistent
    AcknowledgedSaveIsCurrent
    PauseIsKept

PROPERTIES
    SaveEnds
    FrozenIsReleased
