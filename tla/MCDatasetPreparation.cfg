SPECIFICATION PreparationSpec
CONSTANTS
    p1 = p1
    p2 = p2
    p3 = p3
    Processes <- ThreeProcesses
    MaxRuns = 2
    MaxFaults = 2
    NumChunks = 5
    Kept = {1, 2, 4, 5}
    NumProc = 2
    MaxInFlight = 3
    WriterBatch = 2
INVARIANTS
    PreparationTypeOK
    OnlyFaultsRaise
    PreparedOnce
    LastCleans
    TokenizedWhole
PROPERTIES
    AllLeave
