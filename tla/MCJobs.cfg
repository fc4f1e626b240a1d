SPECIFICATION Spec
CONSTANTS
    uv = uv
    pty = pty
    Procs = {uv, pty}
    Pty = {pty}
    Lists <- MCLists
    MaxOutput <- MCOutput
    Room = 1
    Buffer = 1
    MaxCalls = 2
CHECK_DEADLOCK FALSE
INVARIANTS ProcessesCounted OutputBeforeExit NothingDangles
PROPERTIES JobsEnd
