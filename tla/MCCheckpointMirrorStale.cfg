SPECIFICATION Spec
CONSTANTS
    n1 = n1
    n2 = n2
    Nodes <- TwoNodes
    Steps <- TwoSteps
    Keep = 0
    LocalKeep = 1
    MaxPending = 2
    InitMirror <- NewestOfThree
    InitStep = 0
    MaxAttempts = 1
    MaxFaults = 0
SYMMETRY NodeSymmetry
INVARIANTS
    Delivered
