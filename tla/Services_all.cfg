SPECIFICATION ServicesSpec
CONSTANTS
    p1 = p1
    p2 = p2
    d1 = d1
    d2 = d2
    Plugin <- TwoPlugins
    Installer <- TwoLoads
    Docs <- TwoDocs
    BulkWorker <- OneWorker
    InputCap = 1
    RetryCap = 1
    QueueCap = 1
    MaxDeliver = 2
    Connector <- TwoConnectors
    MaxUsers = 2
    Checker <- TwoChecks
    Editor <- TwoEdits
    MaxStop = 2
CHECK_DEADLOCK FALSE
CONSTRAINT
    OneAtATime
    OneRowForTwo
INVARIANTS
    RunsOwnCode
    UninstalledHasNone
    AcceptedIsAccounted
    CacheIsCurrent
PROPERTIES
    InstallEnds
    RetriedEnds
    ComesUp
