SPECIFICATION Spec
CONSTANTS
    Orders = {"o1", "o2"}
    Members = {"m"}
    Tiers = {"paid", "gold"}
    TierPaid = "paid"
    Buyer <- SameBuyer
    TierSlug <- TwoTiers
    c1 = c1
    c2 = c2
    Callers <- MCCallers
    MaxFaults = 1
    MaxCrashes = 1
SYMMETRY Symmetry
INVARIANTS
    FulfilledOnce
    TierFollowsSubscription
    ReversalTakesBack
