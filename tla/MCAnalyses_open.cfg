\* The second statement that fails: Circuits <- MCOfComplex, INVARIANT MeasuresReturn.
SPECIFICATION AnalysesSpec
CONSTANTS
    Rows <- MCRows
    Sweeps <- MCSweeps
    Circuits <- MCRepeated
    None = None
INVARIANT EveryAnalysisRuns
CHECK_DEADLOCK FALSE
