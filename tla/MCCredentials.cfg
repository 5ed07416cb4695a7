SPECIFICATION FairSpec
CONSTANTS
    Devices = {host}
    Self = host
    Apis = {a1, a2}
    Free = Free
    Orphan = Orphan
    Configs <- OneConfig
    AccessLife = 2
    RefreshLife = 3
    Skew = 1
    MaxDevices = 1
    MaxTokens = 3
    MaxTime = 2
    MaxPairs = 3
    MaxSaveFailures = 1
    MaxRestarts = 1
    MaxCalls = 3
    MaxCrashes = 1
INVARIANTS
    CredentialsTypeOK
    ReuseNeedsLoss
    QuietFileIsLive
PROPERTY
    CallsEnd
CHECK_DEADLOCK FALSE
