CONSTANTS
    ClockMod = 12
    Depth = 2
    Interval <- MCInterval
    Timeout <- MCTimeout
    SeqMax = 6
    NonceMod = 2
    MaxTurn = 1
    RpTurn = 4
    Environments <- Quick
    BootClocks <- MCBootClocks
SPECIFICATION Spec
INVARIANTS IInv OwnNumbers
PROPERTY AnswerIsForCurrentRequest
