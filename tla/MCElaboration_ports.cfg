\* Two more statements that fail: Sources <- GlobalSources, INVARIANT GlobalsAreShared;
\* Sources <- ScopedSources, PROPERTY ShadowingAllowed.
SPECIFICATION FairSpec
CONSTANTS
    Sources <- NestedSources
    Literals = {"0", "1k", "2k"}
    False = "0"
INVARIANT ConnectedAsWritten
CHECK_DEADLOCK FALSE
