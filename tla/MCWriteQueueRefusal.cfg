SPECIFICATION RefusalSpec
CONSTANTS
    w1 = w1
    w2 = w2
    Workers <- MCWorkers
    Producers = {"p"}
    Slugs = {"a"}
    Offered <- Edits
    MaxRetries = 1
    HardLimit = 0
    MaxReplayCount = 1
    ReplayBatchLimit = 1
    OfferedModes = {"open", "refused"}
    MaxAge = 2
    MaxJobs = 2
    MaxReplays = 0
    MaxFaults = 1
    MaxEarlyResets = 1
    MaxRestarts = 0
SYMMETRY Symmetry
CHECK_DEADLOCK FALSE
INVARIANTS
    CompletedWasCommitted
    ArticlesFollowEvents
    RetriesBounded
    RefusalTakesEffect
