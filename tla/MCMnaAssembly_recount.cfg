\* A second statement that fails: Circuits <- OwnerCircuits, INVARIANT UnknownsOwned.
SPECIFICATION AssemblySpec
CONSTANTS
    Circuits <- RecountCircuits
    Ground <- GroundNet
    Lower <- LowerCase
INVARIANTS
    ReadersFindRows
CHECK_DEADLOCK FALSE
