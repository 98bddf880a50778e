SPECIFICATION FairSpec
CONSTANTS
    p1 = p1
    p2 = p2
    tasks = tasks
    runs = runs
    a = a
    b = b
    d = d
    r = r
    Proc <- MCProc
    Collection <- MCCollection
    Call <- UpdateCalls
    ProcOf <- UpdateProcOf
    Kind <- UpdateKind
    Saves <- UpdateSaves
    MaxAttempts = 2
    MaxCrashes = 1
    StartsSeeded = TRUE
CHECK_DEADLOCK FALSE
INVARIANTS
    TypeOK
    NoLostUpdate
    NoTornUpdate
    SnapshotIsCurrent
    OneRunningUpdate
    ConflictNeedsRivals
PROPERTIES
    StaleSaveRefused
    EveryUpdateAnswered
    ImplementsAtomicStore
