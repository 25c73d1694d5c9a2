SPECIFICATION AccountingSpec
CONSTANTS
    Counts = {input, cached}
    Required = {input}
    Values = {few, many}
    Callers = {"r1", "r2"}
    Artifacts = {"built in", "newer", "partial"}
    Embedded = "built in"
    Providers <- ProvidersOf
    IdentityBytes <- Weights
    Limits = {0, 1, 2}
    MaxFetches = 3
    MaxEvents = 4
    Candidates <- Lists
    ReportedModels <- AskedFor
    Dates = {"d1", "d2"}
    NoScope = "any"
    Budgets = {7, 20}
    Entries <- PricedModels
    AnthropicTurns <- MessagesTurns
    OpenAITurns <- ResponsesTurns
    LegacyContext = 1
    MaxRate = 6
    MaxAmount = 20
    MaxInt = 3
    DayLength = 3
    Horizon = 30
    PeriodStarts <- Starts
    MaxDates = 4
    MaxBuckets = 3
    Zones <- Clocks
    Windows <- AskedWindows
    Models = {"a", "b"}
    Resolutions <- Matched
    RowTimes = {5, 7, 8, 14}
    RowCounts = {0, 2}
    Amount = 5
    Sampled <- ReadWeeks
    Now = 15
    HeldBytes = {0, 1}
    MaxSum = 3
    MaxRows = 3
    MaxGroups = 2
    MaxIdentities = 2
INVARIANT
    SkippedEdgesAdvance
\* A stream, a query and a call end.
CHECK_DEADLOCK FALSE
