CONSTANTS
    FirstSeqs <- MCFirstSeqs
    MaxFrames = 2
    Bursts <- MCBursts
    None = None
SPECIFICATION Spec
CHECK_DEADLOCK FALSE
INVARIANTS BoardsAccept ConsoleReads NoiseDetected
