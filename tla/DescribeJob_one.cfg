SPECIFICATION FairSpec
CONSTANTS
    j1 = j1
    j2 = j2
    i1 = i1
    q1 = q1
    p1 = p1
    p2 = p2
    None = None
    Scheduler = Scheduler
    Jobs <- OneJob
    Pairs <- OneIntegration
    PairOf <- OnlyPair
    Scheduled <- OneJob
    Requests <- NoRequests
    MaxRunning = 1
    Pages <- OnePage
    Obsolete <- PageOfOnlyJob
CHECK_DEADLOCK FALSE
PROPERTIES
    JobsEnd
