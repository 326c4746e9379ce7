SPECIFICATION Lifetime
CONSTANTS
    None = None
    Interval = 2
    PointValue = 10
    Slippage = 1
    PriceLevels = {1, 5, 7, 9}
    Times = {0, 1, 2, 3, 5}
    Specs <- MCSpecs
    Approvals <- MCApprovals
    Bars <- MCBars
INVARIANTS
    UnitsAccounted
    ExitGuardsUnreachable
    LedgerBalances
    ReplayReproduces
    AmbiguityNeverCredited
    NoLookAhead
PROPERTIES
    StopNeverLoosens
