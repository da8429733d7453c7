SPECIFICATION ScheduleSpec
CONSTANTS
    Workers = {"w"}
    Producers = {"api", "ticker"}
    Ticker = "ticker"
    Posts = {"p"}
    SlugOf <- OneSlug
    Slugs = {"a"}
    Offered <- Unknown
    MaxRetries = 1
    HardLimit = 1
    MaxReplayCount = 1
    ReplayBatchLimit = 1
    OfferedModes = {"open", "refused"}
    MaxAge = 0
    MaxJobs = 3
    MaxReplays = 1
    MaxFaults = 1
    MaxEarlyResets = 0
    MaxRestarts = 1
CHECK_DEADLOCK FALSE
INVARIANTS
    FreshBacklogBounded
    PublishedWasQueued
    PromotedAgainOnlyAfterFailure
PROPERTIES
    WithdrawnStaysBack
