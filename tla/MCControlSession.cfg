SPECIFICATION SessionSpec
CONSTANTS
    Kinds = {"op"}
    LetNames = {x}
    MeasNames = {a, b}
    MaxPlots = 3
    MaxStops = 2
    None = None
INVARIANTS NamesUnique PauseIsOwned
CHECK_DEADLOCK FALSE
