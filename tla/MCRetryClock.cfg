SPECIFICATION FairClockSpec
CONSTANTS
    TicksPerDay = 20
    RetryLimit = 3
    MaxBackoff = 6
    MaxDays = 4
CHECK_DEADLOCK FALSE
INVARIANT NeverTriedEarly
PROPERTY DueInTheEnd
