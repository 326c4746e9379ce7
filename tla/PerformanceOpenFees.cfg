SPECIFICATION PerformanceSpec
CONSTANTS
    None = None
    Interval = 1
    PointValue = 5
    Positions = {1, 2}
    Specs <- MCSpecs
    Inputs <- MCInputs
    Filters <- MCFilters
    Editors = {e1}
    MaxPositionsPerAnalysis = 2
    MaxJournalPage = 1
    MAX_VERIFIED_OPEN = 1
    MaxEdits = 0
INVARIANTS
    OpenFeesMatchEngine
CHECK_DEADLOCK FALSE
