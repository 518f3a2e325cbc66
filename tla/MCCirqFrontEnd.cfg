SPECIFICATION FairSpec
CONSTANTS
    Projects <- CirqProjects
    SearchPaths <- NoPaths
    Literals = {"0", "1k", "2k"}
    False = "0"
INVARIANTS CyclesReported MergedAsWritten GuardsAreExact
    PathsUnique ValuesAsScoped InstancesConnected
PROPERTY CompileEnds
CHECK_DEADLOCK FALSE
