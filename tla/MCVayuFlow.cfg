SPECIFICATION Spec
CONSTANTS
    Flows = {"f"}
    Documents <- MCDocuments
    Events = {"e"}
    Operators = {"o"}
    MaxRunsPerHour = 1
    DrainLimit = 1
    MaxRows = 1
    MaxMinutes = 1
    MaxPresses = 2
    MaxDecisions = 2
    MaxLost = 1
    MaxCrashes = 1
CHECK_DEADLOCK FALSE
INVARIANTS
    EffectsOncePerTrigger
    RateOvershootBounded
PROPERTIES
    TerminalIsFinal
