SPECIFICATION FairSpec
CONSTANTS
    Messages = {"m"}
    Senders = {"s"}
    MaxAttempts = 2
    MaxRows = 1
    MaxResends = 1
    MaxLost = 1
    MaxChoices = 2
    MaxCrashes = 1
CHECK_DEADLOCK FALSE
INVARIANTS
    ComposedOnce
    NothingVanishes
    DeliveredWasHanded
PROPERTIES
    CancelledStaysBack
    DueIsTaken
    QueueSettles
