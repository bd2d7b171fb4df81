SPECIFICATION FairSpec
CONSTANTS
    m1 = m1
    m2 = m2
    m3 = m3
    j1 = j1
    j2 = j2
    None = None
    Msgs <- MCMsgs
    Parents <- MCParents
    ParentOf <- MCParentOf
INVARIANTS
    InterruptedIsCanceled
    CanceledIsCanceled
PROPERTIES
    StopsUnlessSkipped
CHECK_DEADLOCK FALSE
