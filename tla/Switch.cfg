SPECIFICATION SwitchFairSpec
CONSTANTS
    Host = {a, b}
    Port = {p, q, r}
    MacPortTimeout = 1
    MaxMoves = 2
INVARIANTS
    OneEntryEach
    WrongIsOld
    FrameReaches
PROPERTIES
    Relearned
