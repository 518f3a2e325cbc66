SPECIFICATION AssemblySpec
CONSTANTS
    Circuits <- SoundCircuits
    Ground <- GroundNet
    Lower <- LowerCase
INVARIANTS
    UnknownsOwned
    ReadersFindRows
    ControlsReachSource
CHECK_DEADLOCK FALSE
