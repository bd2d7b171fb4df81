SPECIFICATION Spec
CONSTANTS
    j1 = j1
    j2 = j2
    i1 = i1
    q1 = q1
    p1 = p1
    p2 = p2
    None = None
    Scheduler = Scheduler
    Jobs <- TwoJobs
    Pairs <- OneIntegration
    PairOf <- SamePair
    Scheduled <- TwoJobs
    Requests <- OneRequest
    MaxRunning = 1
    Pages <- TwoPages
    Obsolete <- SharedPage
CHECK_DEADLOCK FALSE
CONSTRAINT
    PairBound
INVARIANTS
    OneLive
    CapKept
PROPERTIES
    SucceededIsTrue
