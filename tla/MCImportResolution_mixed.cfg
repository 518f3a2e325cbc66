SPECIFICATION FairSpec
CONSTANTS
    Projects <- MixedProjects
    SearchPaths <- NoPaths
INVARIANT PlainImportsMerge
CHECK_DEADLOCK FALSE
