SPECIFICATION Spec
CONSTANTS
    Asks <- NestingAsks
    MaxMem = 1
    MaxCalls = 2
    MaxNotes = 1
    MaxAsks = 1
    MaxStops = 1
    MayBreak = TRUE
PROPERTY PeerGoneFrees
