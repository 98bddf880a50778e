SPECIFICATION Spec
CONSTANTS
    p1 = p1
    p2 = p2
    tasks = tasks
    runs = runs
    a = a
    b = b
    d = d
    r = r
    Proc <- MCProc
    Collection <- MCCollection
    Call <- ArchiveCalls
    ProcOf <- ArchiveProcOf
    Kind <- ArchiveKind
    Saves <- ArchiveSaves
    MaxAttempts = 5
    MaxCrashes = 0
    StartsSeeded = TRUE
CHECK_DEADLOCK FALSE
PROPERTIES
    StaleSaveRefused
