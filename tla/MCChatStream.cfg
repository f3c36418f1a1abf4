SPECIFICATION StreamSpec
CONSTANTS
    a = a
    b = b
    None = None
    StepLimit = 9
    RecentLimit = 3
    MaxRows = 3
    MaxTurns = 2
    MaxCalls = 2
    Candidates <- MCCandidates
    CandidateLists <- MCCandidateLists
INVARIANTS
    TypeOK
    ExecutedSqlPassedThisTurn
    AnswerGroundedInThisTurn
    ChartDrawnFromThisTurn
    ReplyEndsTurn
    AnsweredToolCalls
    RunsWithinStepLimit
    StreamShape
    DoneMeansStored
    OneChartPerTurn
    DrawnChartShown
    ToolEventsPaired
