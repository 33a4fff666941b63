CONSTANTS
    SeqMod = 2
    ClockMod = 25
    Interval = 8
    AckWindow = 4
    MinLoop = 1
    MaxLoop = 2
    BootClocks <- MCBootClocks
    Depth = 2
    EspPeriod = 3
    BootTime = 7
    Environments <- MCEnvironments
SPECIFICATION LinkSpec
INVARIANTS LinkIInv
PROPERTIES AckIsForCurrentData NoFalseTimeout
