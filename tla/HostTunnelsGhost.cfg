SPECIFICATION Spec
CONSTANTS
    c1 = c1
    c2 = c2
    p1 = p1
    p2 = p2
    Conn = {c1, c2}
    Peer = {p1, p2}
    PeerOf <- SamePeerOf
    Offers = {c1, c2}
    Assigned = {}
    Ticketed = {c1, c2}
    MayRevoke = {}
    Reorder = FALSE
    Repeat = FALSE
    CloseMayFail = FALSE
    MaxOutages = 0
INVARIANTS
    ActiveIsOpen
CHECK_DEADLOCK FALSE
