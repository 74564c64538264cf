SPECIFICATION FairSpec
CONSTANTS
    NumWorkers = 3
    MaxGroups = 5
    MaxBatches = 2
    MaxFaults = 1
PROPERTIES
    CollectEnds
CHECK_DEADLOCK FALSE
