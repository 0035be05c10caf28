CONSTANTS
    Launchers = {l1, l2}
    MaxVersion = 2
    MaxOps = 2
    MaxPoints = 3
    Retention = 1
    MaxEdits = 1
    MaxFaults = 2
SPECIFICATION FairSpec
INVARIANTS
    OperationsAreSerialized
    PointsAreWhole
PROPERTIES
    OutcomeIsTrue
    EveryOperationEnds
CHECK_DEADLOCK FALSE
