SPECIFICATION FairSpec
CONSTANTS
    u1 = u1
    Users = {u1}
    MaxEdits = 2
    MaxFaults = 2
    MaxCrashes = 1
    MaxOrders = 1
INVARIANTS TypeOK DriftIsKnown
PROPERTIES StopIsRespected ComesBack
CHECK_DEADLOCK FALSE
