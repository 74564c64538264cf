SPECIFICATION Spec
CONSTANTS
    n1 = n1
    n2 = n2
    Nodes <- TwoNodes
    Steps <- ThreeSteps
    Keep = 1
    LocalKeep = 1
    MaxPending = 1
    InitMirror <- OneStep
    InitStep = 0
    MaxAttempts = 1
    MaxFaults = 1
SYMMETRY NodeSymmetry
INVARIANTS
    TypeOK
    MirrorBounded
    NeverPoorer
