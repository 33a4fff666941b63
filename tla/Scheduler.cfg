CONSTANTS
    TaskCount = 2
    Periods = {0, 2}
    Ids = {1, 2}
    TickMod = 7
    MaxUptime = 4
SPECIFICATION Spec
INVARIANTS NothingLeftBehind IInv
PROPERTY SpacedRuns
