SPECIFICATION FairSpec
CONSTANTS
    Candidates = {c1, c2}
    Options <- AllOptions
INVARIANTS
    EndReleases
    OneRecovery
    DetachedIsHealthy
PROPERTIES
    ImplementsContract
    ConnectSettles
    RecoveryEnds
CHECK_DEADLOCK FALSE
