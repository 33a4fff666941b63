CONSTANTS
    ClockMod = 8
    TripMod = 3
    Timeouts = {0, 3}
    PollGap = 2
    MaxStall = 20
SPECIFICATION Spec
INVARIANTS NoFalseAlarm StallNoticed IInv
