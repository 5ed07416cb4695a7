SPECIFICATION FairSpec
CONSTANTS
    Devices = {host}
    Self = host
    Apis = {a1, a2}
    Free = Free
    Orphan = Orphan
    Configs <- OneConfig
    AccessLife = 2
    RefreshLife = 3
    Skew = 1
    MaxDevices = 1
    MaxTokens = 6
    MaxTime = 1
    MaxPairs = 3
    MaxSaveFailures = 0
    MaxRestarts = 0
    MaxCalls = 3
    MaxCrashes = 0
PROPERTY
    RotationKeepsNewer
CHECK_DEADLOCK FALSE
