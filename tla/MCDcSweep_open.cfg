\* The second statement that fails: Sweeps <- LossyNonlinear, INVARIANT LinesStampedOnce.
SPECIFICATION Spec
CONSTANTS
    Rows <- MCRows
    Sweeps <- CurrentInside
INVARIANT PointsAreAsked
CHECK_DEADLOCK FALSE
