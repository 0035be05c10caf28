CONSTANTS
    a1 = a1
    a2 = a2
    Agents <- MCAgents
    Mainframe = M
    o1 = o1
    o2 = o2
    Ids = {o1, o2}
    Batch = 1
    MaxEdits <- MCMaxEdits
    MaxFaults = 1
SPECIFICATION FairSpec
INVARIANTS
    HistoryIsShared
    LeavingDetaches
    NoConflictWithItself
    NothingIsSkipped
PROPERTIES
    DraftsAreKept
    Converges
CHECK_DEADLOCK FALSE
