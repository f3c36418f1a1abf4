SPECIFICATION Spec
CONSTANTS
    a = a
    b = b
    None = None
    StepLimit = 25
    RecentLimit = 3
    MaxRows = 3
    MaxTurns = 2
    Candidates <- MCCandidates
    CandidateLists <- MCCandidateLists
INVARIANTS
    ClarifyAsksThisTurn
