SPECIFICATION AnalysesSpec
CONSTANTS
    Rows <- MCRows
    Sweeps <- MCSweeps
    Circuits <- MCCircuits
    None = None
INVARIANTS PointsAreAsked GuessIsNeighbour ResultAsDeclared
CHECK_DEADLOCK FALSE
