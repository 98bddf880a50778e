SPECIFICATION FairSpec
CONSTANTS
    Operator = {o1}
    Lines = {"stalled"}
    MaxFaults = 1
CHECK_DEADLOCK FALSE
INVARIANTS
    TypeOK
    OutcomeFollowsExit
PROPERTIES
    ImplementsRunLife
    RunEnds
