SPECIFICATION FairSpec
CONSTANTS
    r1 = r1
    r2 = r2
    v1 = v1
    v2 = v2
    v3 = v3
    None = None
    Jobs <- AllJobs
    Runners <- TwoRunners
    Poison <- BadRunner
    Cap = 1
CHECK_DEADLOCK FALSE
CONSTRAINT
    OneKind
INVARIANTS
    RunsOnce
    CapKept
PROPERTIES
    RunnersEnd
    VerdictStays
    StrandedForEver
