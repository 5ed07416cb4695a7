SPECIFICATION FairSpec
CONSTANTS
    Conns = {c1, c2}
    MaxTurns = 2
    MaxChunks = 2
    MaxAsks = 1
    Budget = 1
    MaxResets = 1
    MaxEvents = 4
    ResetCost = 2
    MaxGen = 2
INVARIANTS AcpTypeOK ScopesAreLive NothingStuck OneTurn
PROPERTIES NeverParked NoDeadStream FramesKept EndIsTold TurnsEnd
CHECK_DEADLOCK FALSE
