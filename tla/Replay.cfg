SPECIFICATION Spec
CONSTANTS
    None = None
    Interval = 1
    PointValue = 10
    A = A
    B = B
    P1 = P1
    P2 = P2
    Tabs = {t1, t2}
    Candles <- MCCandles
    Creates <- MCCreates
    SupportedTimeframes = {"M5", "H1"}
    MaxTotalRows = 5
    StepCommands <- MCStepCommands
    OpenKeys = {P1, P2}
    Wanted <- MCWanted
    MaxAdvanceSteps = 2
    MaxPositions = 2
SYMMETRY TabSymmetry
VIEW WithoutAnswers
INVARIANTS
    ReadLinksMissNothing
PROPERTIES
    RetryKeepsItsTarget
