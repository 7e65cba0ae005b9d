CONSTANTS
    Geometries <- Small
    Sectors = {3, 4}
    MaxCommands = 3
    MaxFaults = 0
SPECIFICATION Spec
INVARIANT AutoCommitted
CHECK_DEADLOCK FALSE
