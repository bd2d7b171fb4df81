SPECIFICATION FairSpec
CONSTANTS
    q1 = q1
    x1 = x1
    x2 = x2
    d1 = d1
    d2 = d2
    p1 = p1
    p2 = p2
    None = None
    Scans <- OneScan
    Seqs <- TwoSeqs
    Jobs <- TwoJobs
    Pairs <- TwoPairs
    PairOf <- PairOfJob
    Needs <- NeedsBoth
    Wants <- WantsBoth
    Supported <- OnlyFirst
    MaxStarts = 2
    MaxParts = 2
    MaxMade = 2
CONSTRAINT
    OneKind
    SimpleScans
    ScanSizes
INVARIANTS
    FinishedWasScanned
    RunnersAccounted
PROPERTIES
    OutcomeStays
    OrphanStays
    NextJobAfterDependencies
    SequencesEnd
CHECK_DEADLOCK FALSE
