CONSTANTS
    ClockMod = 12
    Timeout = 5
    AirTime = 2
    MaxGap = 3
    ChipMayFail = TRUE
SPECIFICATION FairSpec
INVARIANTS IInv SendBounded
PROPERTIES NoFalseFailure SendEnds
