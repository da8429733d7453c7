SPECIFICATION Spec
CONSTANTS
    Operators = {o1, o2}
    Threshold <- MCThreshold
    RestoredHistory = 2
    MaxTransitions = 3
    MaxRestarts = 1
    MaxLostRows = 1
SYMMETRY MCSymmetry
INVARIANTS LineageUnbroken OnlyForcedRowsLate ModeIsJournalled
PROPERTY RefusalLiftedByHand
