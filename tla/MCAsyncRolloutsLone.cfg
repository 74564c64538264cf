SPECIFICATION FairSpec
CONSTANTS
    r0 = r0
    r1 = r1
    Main = r0
    Others <- OtherRanks
    Depths = {1}
    Intervals = {1, 2}
    RolloutSizes = {2}
    Setups <- LoneSetups
    Accumulation = 2
    LastStep = 4
    MaxFaults = 0
INVARIANTS
    NoSyncFromBackground
CHECK_DEADLOCK FALSE
