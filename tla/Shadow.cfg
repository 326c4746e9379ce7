SPECIFICATION FairSpec
CONSTANTS
    Runs = {r1, r2}
    Keys = {k1}
    Creators = {h1, h2}
    Enders = {e1, e2}
    MaxRuns = 2
    MaxObservations = 3
    MaxPending = 2
    MaxWatches = 2
    Window = 2
    WarmUp = 1
    Scenarios <- MCScenarios
    None = None
INVARIANTS
    LagNeverChangesADecision
    ContestedNeverStands
    RowCountsItsJournal
PROPERTIES
    EveryRunEnds
CHECK_DEADLOCK FALSE
