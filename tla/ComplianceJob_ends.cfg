SPECIFICATION FairSpec
CONSTANTS
    j1 = j1
    j2 = j2
    r1 = r1
    r2 = r2
    s1 = s1
    s2 = s2
    None = None
    Jobs <- OneJob
    Runners <- OneRow
    Summs <- OneSumm
    TriggerTypes <- Scheduled
    JobOf <- RowOfOneJob
    ControlOf <- OwnControl
PROPERTIES
    JobEnds
CHECK_DEADLOCK FALSE
