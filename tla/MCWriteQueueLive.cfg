SPECIFICATION FairSpec
CONSTANTS
    Workers = {"w1", "w2"}
    Producers = {"p"}
    Slugs = {"a"}
    Offered <- Asked
    MaxRetries = 1
    HardLimit = 0
    MaxReplayCount = 1
    ReplayBatchLimit = 1
    OfferedModes = {"open", "refused"}
    MaxAge = 2
    MaxJobs = 1
    MaxReplays = 1
    MaxFaults = 2
    MaxEarlyResets = 1
    MaxRestarts = 1
CHECK_DEADLOCK FALSE
PROPERTIES
    EveryJobSettles
