SPECIFICATION FairSpec
CONSTANTS
    Lease = 3
    Every = 1
    Fresh = 2
    Faults = {"suspend", "step"}
    Skews <- TwoSkews
    MaxTime = 6
    MaxRequests = 2
PROPERTIES
    Bounded
    RunsOut
CHECK_DEADLOCK FALSE
