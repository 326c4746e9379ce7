CONSTANTS
    None = None
    Interval = 1
    PointValue = 2
    MaxBoundaries = 5
    MaxPositions = 2
    MaxWarmUp = 4
    w1 = w1
    w2 = w2
    ann = ann
    Workers <- MCWorkers
    Abandoners <- MCAbandoners
    Scenarios <- MCAsked
SPECIFICATION Spec
INVARIANTS
    TraceMatchesLedgers
    RiskWithinBudget
    OnlyRacersOverwrite
