SPECIFICATION Spec
CONSTANTS
    Asks <- AllMessages
    MaxMem = 1
    MaxCalls = 2
    MaxNotes = 2
    MaxAsks = 2
    MaxStops = 1
    MayBreak = FALSE
INVARIANTS ChannelHeld NotesInOrder EachAskOnce OwnAnswer
