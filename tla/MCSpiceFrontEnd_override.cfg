\* INVARIANT may also be SourcesResolved, ModelsRemapped or NodesRemapped.
SPECIFICATION FairSpec
CONSTANTS
    LibProjects <- NoProjects
    IncludeProjects <- OverrideProjects
    SearchDirs <- NoDirs
    MaxLibDepth = 2
    MaxIncludeDepth = 3
    Literals = {"1", "2", "3"}
    MaxNesting = 3
INVARIANT OverridesApply
CHECK_DEADLOCK FALSE
