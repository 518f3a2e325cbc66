\* The second statement that fails: MeasNames = {a, b}, MaxPlots = 4, PROPERTY MeasureBindsItsResult.
SPECIFICATION SessionSpec
CONSTANTS
    Kinds = {"op"}
    LetNames = {x}
    MeasNames = {a}
    MaxPlots = 3
    MaxStops = 2
    None = None
PROPERTY ResumeReplacesPausedLeg
CHECK_DEADLOCK FALSE
