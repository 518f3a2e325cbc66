\* The switch latch after a rejected attempt.
SPECIFICATION Spec
CONSTANTS
    HMin = 1
    MinBreak = 3
    HMax = 32
    HPrint = 32
    TStop = 80
    NewHs = {2, 5, 16, 31, 70}
    Itl5 = 0
    Iterations = {0}
    Runs <- SwitchRuns
INVARIANT
    LatchSettled
CHECK_DEADLOCK FALSE
