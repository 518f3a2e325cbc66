SPECIFICATION FairSpec
CONSTANTS
    Programs <- Scripts
    MaxLoopIters = 3
INVARIANTS GuardIsExact QuitNeverFails
PROPERTY EveryScriptEnds
CHECK_DEADLOCK FALSE
