SPECIFICATION Spec
CONSTANTS
    t1 = t1
    t2 = t2
    t3 = t3
    s1 = s1
    s2 = s2
    w1 = w1
    w2 = w2
    e1 = e1
    l1 = l1
    l2 = l2
    nobody = nobody
    NoSurface <- nobody
    Equipped <- Everything
    Suited <- Everything
    Task <- OneTask
    Surface <- OneSurface
    Children <- NoChildren
    Worker = {w1}
    Editor = {}
    Launcher = {}
    NewRow <- CompletionRows
    FormStatus <- NoStatuses
    FormMode <- NoModes
    Report <- WorkerReports
    Presence = {"idle"}
    Capacity = {1}
    RunCap = {0}
    MaxRuns = 1
    MaxDecisions = 1
    Deletable <- NoTasks
CHECK_DEADLOCK FALSE
PROPERTY
    ReviewedTasksWereApproved
