CONSTANTS
    ClockMod = 13
    Depth = 2
    Interval <- PingOnly
    Timeout <- ShortTimeout
    SeqMax = 5
    NonceMod = 2
    MaxTurn = 2
    RpTurn = 1
    Environments <- SlowOnly
    BootClocks <- MCBootClocks
SPECIFICATION FairSpec
PROPERTIES TimeoutExact RequestEnds AskedAgain
