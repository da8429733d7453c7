SPECIFICATION FairSpec
CONSTANTS
    Flows = {"f"}
    Documents <- TwoTexts
    Events = {"e"}
    Operators = {"o"}
    MaxRunsPerHour = 1
    DrainLimit = 1
    MaxRows = 2
    MaxMinutes = 1
    MaxPresses = 0
    MaxDecisions = 3
    MaxLost = 1
    MaxCrashes = 1
CHECK_DEADLOCK FALSE
PROPERTIES
    EditLeavesUnarmed
    DrainedOnRecord
    EveryRowDrains
