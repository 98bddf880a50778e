SPECIFICATION FairSpec
CONSTANTS
    t1 = t1
    p1 = p1
    p2 = p2
    Thread <- OneThread
    Request <- OneRequest
    Op <- Operations
    MaxRuns = 2
    MaxFaults = 1
CHECK_DEADLOCK FALSE
PROPERTIES
    WorkIsHandedBack
