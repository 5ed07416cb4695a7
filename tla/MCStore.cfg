SPECIFICATION Spec
CONSTANTS
    Devices = {d1, d2, d3}
    Configs <- Reconfigured
    AccessLife = 1
    RefreshLife = 2
    MaxDevices = 2
    MaxTokens = 5
    MaxTime = 2
    MaxPairs = 4
    MaxSaveFailures = 1
    MaxRestarts = 2
SYMMETRY
    Symmetry
INVARIANTS
    TypeOK
    RefreshChain
    AnsweredIsDurable
    DeadStaysDead
    RemovedForGood
CHECK_DEADLOCK FALSE
