\* Stepping on every kind of circuit, pausing, resuming and the iteration budget.
SPECIFICATION FairSpec
CONSTANTS
    HMin = 1
    MinBreak = 3
    HMax = 32
    HPrint = 32
    TStop = 80
    NewHs = {2, 5, 16, 31, 70}
    Itl5 = 2
    Iterations = {0, 3}
    Runs <- AllRuns
INVARIANTS
    PendingCoversFuture
    LinesInStep
    SamplesIncrease
    PauseNotSkipped
PROPERTIES
    MarchSpec
    CornersUseBE
    GearHasHistory
    RunEnds
CHECK_DEADLOCK FALSE
