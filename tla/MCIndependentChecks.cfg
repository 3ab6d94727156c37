SPECIFICATION ChecksSpec
CONSTANTS
    FaceSide = 2
    MaxDimension = 8
    Wave = 3
INVARIANTS
    RowsDelivered
    FaultCaught
    DecodersAgree
    VerdictsAgree
    RelaunchDiffers
