CONSTANTS
    None = None
    Operators = {"alice", "bob"}
    Scenarios <- MCScenarios
    Questions <- MCQuestions
    Symbol = "F"
    MaxAge = 1
    MaxRecords = 2
    MaxClock = 4
    MaxInterruptions = 1
    Setups <- MCSetups
    DecisionTimes = {1, 2, 3}
    FeedBound = 3
    FeedAge = 1
    Constituents = {"x", "y"}
    Coverage <- MCCoverage
    MaxDelivered = 4
SPECIFICATION MCSpec
INVARIANTS
    AsKnownAnswersStand
    ToldIsJournalled
    SourceAnswersHold
CHECK_DEADLOCK FALSE
