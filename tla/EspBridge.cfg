CONSTANTS
    SeqMod = 2
    Depth = 3
    None = None
    Traffic <- MCTraffic
    SpiMayFail = TRUE
    CounterMod = 2
SPECIFICATION FairSpec
INVARIANTS PayloadMatchesPipe NeverLeftDeaf NoPhantomInterrupt IInv
PROPERTIES ImplementsLossyMailbox QueueIsServed
