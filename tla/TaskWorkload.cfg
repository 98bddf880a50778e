SPECIFICATION Spec
CONSTANTS
    t1 = t1
    t2 = t2
    t3 = t3
    s1 = s1
    s2 = s2
    w1 = w1
    w2 = w2
    e1 = e1
    l1 = l1
    l2 = l2
    nobody = nobody
    NoSurface <- nobody
    Equipped <- Everything
    Suited <- Leaves
    Task <- Family
    Surface <- TwoSurfaces
    Children <- FamilyChildren
    Worker = {w1, w2}
    Editor = {}
    Launcher = {}
    NewRow <- KidRows
    FormStatus <- NoStatuses
    FormMode <- NoModes
    Report <- WorkerReports
    Presence = {"idle"}
    Capacity = {2}
    RunCap = {1}
    MaxRuns = 2
    MaxDecisions = 0
    Deletable <- Kids
CHECK_DEADLOCK FALSE
SYMMETRY Interchangeable
INVARIANT
    ParentsCloseLast
PROPERTY
    ClaimsStayWithinLimits
    ImplementsWorkLease
