SPECIFICATION Spec
CONSTANTS
    AtrPeriod = 2
    MMax = 2
    Ln = 2
    ShortLen = 1
    Zz = 2
    Warm = 3
    Seeds <- MCSeeds
    Shapes <- MCShapes
    Top = 12
    MaxBars = 14
    MaxRestarts = 1
INVARIANTS
    EvidenceIsCurrent
CHECK_DEADLOCK FALSE
