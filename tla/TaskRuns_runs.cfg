SPECIFICATION FairSpec
CONSTANTS
    r1 = r1
    r2 = r2
    s1 = s1
    s2 = s2
    q1 = q1
    None = None
    Requests <- OneRequest
    Migrator = m
    Runs <- TwoRuns
    Schedules <- TwoSchedules
    Order <- FirstThenSecond
    OriginOf <- Origins
    Frequency <- Frequencies
    Timeout = 3
    Minute = 2
    Max = 0
    MaxAge = 3
CHECK_DEADLOCK FALSE
ACTION_CONSTRAINT
    StaysSequential
INVARIANTS
    LimitKept
PROPERTIES
    FinishedStays
    NotMuchTooEarly
    PartialLoadStays
    Settles
