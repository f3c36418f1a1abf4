SPECIFICATION Spec
CONSTANTS
    t1 = t1
    u1 = u1
    c1 = c1
    c2 = c2
    c3 = c3
    None = None
    Foreign = Foreign
    Threads <- MCThreads
    Users <- MCUsers
    Calls <- MCCalls
    CallsOf <- MCCallsOf
    Times <- MCTimes
INVARIANTS
    LastMessageAtIsLatest
