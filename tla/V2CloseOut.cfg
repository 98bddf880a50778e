SPECIFICATION Spec
CONSTANTS
    a = a
    b = b
    r1 = r1
    x1 = x1
    p1 = p1
    p2 = p2
    None = none
    Task <- TwoTasks
    Worked = {a}
    Run = {r1}
    Artifact = {x1}
    Process <- TwoProcesses
    TaskStart = {"ready", "done"}
    RunStart = {"completed"}
    ArtifactStart = {"submitted"}
    Target <- Targets
    Verdict = {"approved", "rejected"}
SYMMETRY Interchangeable
INVARIANTS
    TypeOK
    ClosedOnEvidence
    AcceptedIsExplained
    NoOutputIsForgotten
PROPERTIES
    ClosedStaysClosed
