SPECIFICATION Spec
CONSTANTS
    j1 = j1
    j2 = j2
    r1 = r1
    r2 = r2
    s1 = s1
    s2 = s2
    None = None
    Jobs <- TwoJobs
    Runners <- TwoRows
    Summs <- OneSumm
    TriggerTypes <- Manual
    JobOf <- RowPerJob
    ControlOf <- OwnControls
CONSTRAINT TwoJobsBound
INVARIANTS
    NoRunnerLeftBehind
CHECK_DEADLOCK FALSE
