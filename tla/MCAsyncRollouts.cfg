SPECIFICATION FairSpec
CONSTANTS
    r0 = r0
    r1 = r1
    Main = r0
    Others <- OtherRanks
    Depths = {1, 2}
    Intervals = {1, 2}
    RolloutSizes = {1, 2, 3}
    Setups <- AllSetups
    Accumulation = 2
    LastStep = 6
    MaxFaults = 1
INVARIANTS
    TypeOK
    Fresh
    SyncExcludesGeneration
    NamesLoaded
    BarrierIsMet
PROPERTIES
    TrainingEnds
CHECK_DEADLOCK FALSE
