SPECIFICATION ParseSpec
CONSTANT Sources <- MCSources
INVARIANTS ContinuationsAttach KeptAsNested ForksAsWritten
CHECK_DEADLOCK FALSE
