SPECIFICATION Spec
CONSTANTS
    t1 = t1
    p1 = p1
    p2 = p2
    Thread <- OneThread
    Request <- TwoRequests
    Op <- Messages
    MaxRuns = 2
    MaxFaults = 0
SYMMETRY Interchangeable
CHECK_DEADLOCK FALSE
INVARIANTS
    TypeOK
    RivalsAreExplained
    ReviewOverWorkIsExplained
