CONSTANTS
    FirstSeqs <- MCFirstSeqs
    MaxFrames = 1
    Bursts = {}
    None = None
SPECIFICATION Spec
CHECK_DEADLOCK FALSE
INVARIANT ZeroPayloadKept
