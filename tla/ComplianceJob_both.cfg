SPECIFICATION Spec
CONSTANTS
    j1 = j1
    j2 = j2
    r1 = r1
    r2 = r2
    s1 = s1
    s2 = s2
    None = None
    Jobs <- OneJob
    Runners <- OneRow
    Summs <- TwoSumms
    TriggerTypes <- BothTypes
    JobOf <- RowOfOneJob
    ControlOf <- OwnControl
SYMMETRY SummSymmetry
INVARIANTS
    OneSummarizer
    SuccessWasSummarized
PROPERTIES
    FinishedStaysFinished
CONSTRAINT
    OneOfEachKind
CHECK_DEADLOCK FALSE
