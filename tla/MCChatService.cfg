SPECIFICATION Spec
CONSTANTS
    b1 = b1
    s1 = s1
    s2 = s2
    User = User
    Thread = Thread
    None = None
    RestoreLimit = 2
    MaxOverlap = 2
    MaxLosses = 0
    Requests <- MCThree
    Streaming <- MCStreaming
SYMMETRY MCSymmetry
INVARIANTS
    TypeOK
    RepliesFollowQuestions
    ExchangeKept
    BlockingReplyIsOwn
    AnswersOwnQuestion
