SPECIFICATION Spec
CONSTANTS
    GminStart = 30
    GminTarget = 6
    FactorMax = 8
    FactorMin = 2
    Full = 40
    RaiseStart = 12
    RaiseMin = 1
    RaiseCap = 3
    PrelimSteps = 2
    Options <- DefaultOptions
INVARIANT AttemptsStartClean
CHECK_DEADLOCK FALSE
