SPECIFICATION ElementSpec
CONSTANTS
    Half = 4
    Quiet = 4
    ExpMax = 7
    ExpOne = 4
    ExpLow = 2
INVARIANTS
    RoundsToNearestEven
    NanStaysNan
    ContractShared
    JudgesAgree
