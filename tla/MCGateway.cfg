SPECIFICATION FairSpec
CONSTANTS
    m = m
    g = g
    a = a
    b = b
    m1 = m1
    g1 = g1
    a1 = a1
    a2 = a2
    b1 = b1
    None = None
    Device = {m, g, a, b}
    Host = {m, g}
    Modern = {m}
    Sock = {m1, g1, a1, a2, b1}
    DevOf <- MCDevOf
    Link = {1, 2}
    MayStall = {a1}
    MayFail = {a1}
    MayRevoke = {g}
    MaxSocks = 3
    MaxLinks = 2
INVARIANTS TypeOK TablesAgree EndIsTold OneLinkEach
PROPERTIES HealthyKeepsPlace NegotiationEnds
CHECK_DEADLOCK FALSE
