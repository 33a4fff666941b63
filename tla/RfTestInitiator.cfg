CONSTANTS
    SeqMod = 3
    ClockMod = 25
    Interval = 8
    AckWindow = 3
    MinLoop = 1
    MaxLoop = 2
    BootClocks <- MCBootClocks
SPECIFICATION FairSpec
INVARIANTS EverySendResolved SendPeriod AttemptConsistent IInv
PROPERTIES TimeoutExact LateAckBounded SendsForever AttemptEnds
