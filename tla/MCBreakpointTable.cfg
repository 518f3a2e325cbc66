\* The sorted vector implements the set of pending breakpoints.
SPECIFICATION Spec
CONSTANTS
    MinBreak = 2
    Times = {0, 1, 2, 3, 4, 5, 6, 7, 8, 9}
    MaxBreaks = 3
PROPERTIES
    ImplementsSet
    InsertKeepsSeparation
