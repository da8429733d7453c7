SPECIFICATION PipelineSpec
CONSTANTS
    Workers = {"w1"}
    Producers = {"p1"}
    Slugs = {"a"}
    Offered <- Edits
    MaxRetries = 1
    HardLimit = 0
    MaxReplayCount = 1
    ReplayBatchLimit = 0
    OfferedModes = {"open"}
    MaxAge = 0
    MaxJobs = 3
    MaxReplays = 0
    MaxFaults = 0
    MaxEarlyResets = 0
    MaxRestarts = 1
    Visitors = {}
    Previewers = {"o1"}
    ConsoleOps = {"publish", "unpublish", "delete"}
    MaxTouches = 1
    MaxFailedReads = 1
    MaxEvents = 6
    RelayRetries = 1
    MaxLostWrites = 0
    MaxFailedAppends = 0
    MaxRelayCrashes = 0
CHECK_DEADLOCK FALSE
INVARIANTS
    StalePageHasPurgePending
    CachedTextWasCommitted
