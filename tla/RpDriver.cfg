CONSTANTS
    SeqMod = 2
    Depth = 3
    None = None
    Traffic <- MCTraffic
SPECIFICATION FairSpec
INVARIANTS IInv PayloadMatchesPipe
PROPERTIES ImplementsMailbox QueuedIsFetched
