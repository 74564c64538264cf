SPECIFICATION FairSpec
CONSTANTS
    n1 = n1
    n2 = n2
    Nodes <- TwoNodes
    Steps <- TwoSteps
    Keep = 1
    LocalKeep = 1
    MaxPending = 1
    InitMirror <- NoSteps
    InitStep = 0
    MaxAttempts = 2
    MaxFaults = 1
INVARIANTS
    ResumeIsWhole
    Delivered
PROPERTIES
    NewestSurvives
    ReachesMirror
