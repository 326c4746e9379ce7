SPECIFICATION FairSpec
CONSTANTS
    Sessions = {s1, s2}
    Clients = {c1}
    Creators = {k1, k2}
    Stoppers = {h1}
    Analysers = {a1, a2}
    MaxSessions = 1
    MaxCreations = 2
    MaxSubscribers = 1
    QueueSize = 3
    Retention = 3
    PageMax = 2
    MaxAnalyses = 2
    BufferSize = 1
    MaxReconnects = 1
    Scenarios <- MCScenarios
    None = None
INVARIANTS
    OnlySnapshotsHide
PROPERTIES
    CacheNeverGoesBack
    ShutdownLeavesNothing
    ClientLearnsOfTheEnd
CHECK_DEADLOCK FALSE
