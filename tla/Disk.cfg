CONSTANTS
    Geometries <- Small
    Sectors = {3, 4}
    MaxCommands = 3
    MaxFaults = 2
SPECIFICATION Spec
INVARIANTS TypeOK Committed
PROPERTIES ReadsBack AutoCommits
CHECK_DEADLOCK FALSE
