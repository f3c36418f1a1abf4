SPECIFICATION Spec
CONSTANTS
    a = a
    b = b
    None = None
    StepLimit = 25
    RecentLimit = 2
    MaxRows = 0
    MaxTurns = 2
    Candidates <- MCOneCandidate
    CandidateLists <- MCOneCandidateList
INVARIANTS
    IntentReadsThisTurn
    QuestionOnce
    AnsweredTurnsInContext
