SPECIFICATION Spec
CONSTANTS
    Atoms <- MCAtoms
    Funcs <- MCFuncs
    Points <- MCPoints
    Leaves <- MCLeaves
    MaxPower = 4
    MaxNodes = 5
    MaxStack = 3
    MaxExponent = 2
    Fresh = "z"
INVARIANTS
    MeaningKept
    ChainIsFold
    SentMeansTheSame
    ExpandIsNormal
    CoefficientsRebuild
    GcdDivides
    EqualMeansTheSame
    SetsAreSets
    TypesTellParts
    SubsReplaces
CHECK_DEADLOCK FALSE
