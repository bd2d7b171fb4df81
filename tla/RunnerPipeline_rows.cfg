SPECIFICATION FairSpec
CONSTANTS
    r1 = r1
    r2 = r2
    w1 = w1
    None = None
    Runners <- MCRunners
    Workers <- MCWorkers
INVARIANTS
    AtMostOnce
    WithdrawnNeverRuns
    CountTellsRun
PROPERTIES
    ImplementsTable
    Settles
CHECK_DEADLOCK FALSE
