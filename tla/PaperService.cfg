SPECIFICATION FairSpec
CONSTANTS
    None = None
    Interval = 1
    PointValue = 10
    K1 = K1
    Keys = {K1}
    Workers = {w1, w2}
    Ops = {"CREATE", "OBSERVE", "CLOSE", "BREAKEVEN", "CANCEL", "GET"}
    Nows = {0, 3}
    MaxBars = 2
    MaxRetries = 1
    Commands <- MCCommands
INVARIANTS
    RowIsProjectionOfLedger
    AcknowledgedIsStored
PROPERTIES
    ImplementsAtomicLedger
    EveryRequestAnswered
