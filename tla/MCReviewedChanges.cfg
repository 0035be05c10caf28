CONSTANTS
    r1 = r1
    r2 = r2
    Reviews <- MCReviews
    Loaded = {r1}
    Forms = {r2}
    NoReview = NoReview
    MaxJobs = 2
    MaxAge = 0
    HistoryLimit = 2
    QueueLimit = 1
    UserLimit = 2
    Workers = 1
    Moves = 1
SPECIFICATION FairSpec
INVARIANTS
    FailedMeansUntouched
    OneJobPerReview
    RevisionCertifiesState
PROPERTIES
    ReviewsAreCurrent
    EveryRunSettles
