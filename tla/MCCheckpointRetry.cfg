SPECIFICATION Spec
CONSTANTS
    r0 = r0
    r1 = r1
    Ranks <- TwoRanks
    Writes <- TypicalSave
    Retries = 2
    MaxSaves = 2
    MaxFaults = 6
INVARIANTS
    TypeOK
    TriesBounded
    SameCollective
