SPECIFICATION FairSpec
CONSTANTS
    Limit = 2
    SaveTotalLimit = 1
    MaxStep = 5
    MaxRuns = 1
    MaxFaults = 2
INVARIANTS
    TypeOK
    HeldBackIsOnDisk
    TrainEndSettles
    FinalIsInPlace
PROPERTIES
    OnSaveSeesComplete
    UnfinishedIsSpared
    RunEnds
