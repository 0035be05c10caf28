CONSTANTS
    a1 = a1
    Automations = {a1}
    Occurrences = {2, 3, 5}
    Missed = "run_late"
    Grace = 1
    RetryAfter = 2
    Interval = 1
    TriggerAfter = 2
    RecoverAfter = 2
    Cooldown = 2
    NetworkWait = 1
    SkipOverlapping = TRUE
    MaxTime = 5
    MaxWaiting = 1
    MaxArmings = 3
    MaxErrors = 1
    MaxCrashes = 2
SPECIFICATION FairSpec
PROPERTIES
    OccurrencesFireInOrder
    EventsFireOnce
    PendingResolves
