SPECIFICATION Spec
CONSTANTS
    Limit = 2
    SaveTotalLimit = 1
    MaxStep = 4
    MaxRuns = 2
    MaxFaults = 2
INVARIANTS
    Recoverable
PROPERTIES
    NewestCompleteSurvives
