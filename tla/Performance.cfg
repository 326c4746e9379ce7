SPECIFICATION PerformanceSpec
CONSTANTS
    None = None
    Interval = 1
    PointValue = 5
    Positions = {1, 2, 3}
    Specs <- MCSpecs
    Inputs <- MCInputs
    Filters <- MCFilters
    Editors = {e1, e2}
    MaxPositionsPerAnalysis = 2
    MaxJournalPage = 1
    MAX_VERIFIED_OPEN = 1
    MaxEdits = 2
INVARIANTS
    FoldMatchesEngine
    FiguresAddUp
    NoJournalEditLost
CONSTRAINT EditsBeforeTrading
CHECK_DEADLOCK FALSE
