SPECIFICATION FairRelaySpec
CONSTANTS
    MaxEvents = 4
    RelayRetries = 1
    MaxLostWrites = 2
    MaxFailedAppends = 2
    MaxRelayCrashes = 1
CHECK_DEADLOCK FALSE
INVARIANTS
    DeliveredReachedConsumers
    RepublishedOnlyAfterFailure
PROPERTIES
    ImplementsDelivery
