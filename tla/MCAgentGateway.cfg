CONSTANTS
    Agents = {a}
    MaxDecisions = 2
    Connections = 3
    Reserve = 1
    PerAgent = 1
    Relays = 2
    MaxJobs = 1
    MaxFaults = 1
SPECIFICATION FairSpec
INVARIANTS
    ReserveIsKept
    RevocationBoundsWork
PROPERTIES
    RevokedIsCutOff
