SPECIFICATION FairSpec
CONSTANTS
    Callers = {c1, c2}
    PoolSize = 1
    MaxRestarts = 2
    MaxMessage = 2
    MaxCalls = 3
    LongCalls = {2}
CHECK_DEADLOCK FALSE
INVARIANTS
    RepliesReachTheirCall
    NoOrphanProcess
    LeftoverScratch
PROPERTIES
    QuarantineIsFinal
    InvocationReturns
