SPECIFICATION Market
CONSTANTS
    None = None
    Interval = 1
    MaxClosedCandles = 3
    MaxMissingSequences = 1
    MaxRecordedIssues = 1
    ReconnectLimit = 1
    M1 = M1
    M5 = M5
    Timeframes = {M1, M5}
    LastTime = 5
    LastConflict = 0
    Observations <- MCObservations
INVARIANTS
    CompleteMeansContiguous
PROPERTIES
    ConfirmedNeverRewritten
    RecoveryIsProven
CHECK_DEADLOCK FALSE
