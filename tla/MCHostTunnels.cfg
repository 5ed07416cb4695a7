SPECIFICATION FairSpec
CONSTANTS
    c1 = c1
    c2 = c2
    p1 = p1
    p2 = p2
    Conn = {c1, c2}
    Peer = {p1}
    PeerOf <- SamePeerOf
    Offers = {c2}
    Assigned = {c2}
    Ticketed = {c2}
    MayRevoke = {p1}
    Reorder = TRUE
    Repeat = TRUE
    CloseMayFail = TRUE
    MaxOutages = 1
INVARIANTS
    OneActivePerPeer
    RepliedIsServed
    BoundPathExclusive
    NothingLeftBehind
PROPERTY
    QueueDrains
CHECK_DEADLOCK FALSE
