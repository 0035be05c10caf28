CONSTANTS
    MaxChanges = 3
    Window = 1
    OperationGrace = 1
    MaxFaults = 3
SPECIFICATION FairSpec
INVARIANTS
    RecordIsConfirmed
    FallbackIsWhole
PROPERTIES
    UnconfirmedIsUndone
    ManagedComesUp
CHECK_DEADLOCK FALSE
