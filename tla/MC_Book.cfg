SPECIFICATION Spec
CONSTANTS
    Refs = {r1, r2, r3}
    Prices = {1, 2, 3}
    MaxShares = 2
    MAX_LEVELS = 2
    Word = 8
    None = None
SYMMETRY RefSymmetry
INVARIANTS
    TypeOK
    LevelsSorted
    LevelsMirrorLiveOrders
    CountBehindByPartials
    BestIsFirstLevel
    LevelsNeverOverstate
    BestIsLive
