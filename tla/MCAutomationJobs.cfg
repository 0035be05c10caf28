CONSTANTS
    a1 = a1
    f1 = f1
    f2 = f2
    w1 = w1
    Automations = {a1}
    NoAutomation = NoAutomation
    Stages = 2
    Delayed <- MCDelayed
    Policy <- MCPolicy
    Futures = {f1, f2}
    WebThreads = {w1}
    Pool = 1
    MaxAttempts = 2
    Lease = 1
    StageDelay = 1
    MaxBackoff = 1
    MaxJobs = 1
    MaxFaults = 3
SPECIFICATION FairSpec
INVARIANTS
    OverlapOnlyAfterRunNow
PROPERTIES
    StagesKeepTheirPlace
    EveryJobSettles
CHECK_DEADLOCK FALSE
