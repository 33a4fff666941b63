CONSTANTS
    SeqMod = 2
    Depth = 3
    None = None
    Traffic <- MCDataOnly
    SpiMayFail = FALSE
    CounterMod = 2
SPECIFICATION FairSpec
INVARIANT NoDataFlushed
