SPECIFICATION DeskSpec
CONSTANTS
    None = None
    Left = 1
    Right = 1
    EqualTolerance = 0
    BreachTolerance = 0
    MinTouches = 2
    MaxTouchesScored = 5
    FailureWindow = 1
    RetestWindow = 3
    ResolutionWindow = 2
    VolumeMultiple = 15
    BreakoutRecency = 2
    StrongAdx = 25
    RangeAdx = 20
    MaxPrice = 12
    ReversalLookback = 3
    MinimumRoles = 2
    Requests <- MCRequests
    Evidences <- MCEvidences
    MinimumReward <- MCMinimumReward
    NextBars <- MCNextBars
    MaxBars = 9
    Interval <- MCInterval
    MaxRows = 7
    MaxTotalRows = 30
    MinimumCandles = 2
    ExtremeMove = 100
    ImagePolicy <- MCPolicy
    Images <- MCImages
    Replies <- MCReplies
    Fields = {"LAST_PRICE"}
    Texts <- MCTexts
    Timeframes = {"1H"}
    ExpectedSymbols = {"A"}
    UploadSlots = {"1H", "5M"}
    Numeric = {"LAST_PRICE"}
    MaxReviews = 2
    MaxCorrections = 2
    Outcomes <- MCOutcomes
    Settings <- MCSettings
    Drafts <- MCDrafts
INVARIANTS
    NothingFromTheFuture
    MoneyEnginesAgree
    TellersAgree
    
    VetoHolds
    NarrationNeverCostsTheAnalysis
PROPERTY NothingRepaints
CONSTRAINT SecondBeforeCorrections
CHECK_DEADLOCK FALSE
