SPECIFICATION FairSpec
CONSTANTS
    LibProjects <- MCLibProjects
    IncludeProjects <- MCIncludeProjects
    SearchDirs <- NoDirs
    MaxLibDepth = 2
    MaxIncludeDepth = 3
    Literals = {"1", "2", "3"}
    MaxNesting = 3
INVARIANTS TextInPlace VisitingIsOpen ValuesAsScoped NamesAsScoped
PROPERTY ImportEnds
CHECK_DEADLOCK FALSE
