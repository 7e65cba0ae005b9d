CONSTANTS
    Hosts = {a, b}
    None = None
    MaxRequests = 4
    MaxFaults = 2
SPECIFICATION Spec
INVARIANTS TypeOK Settles GetsWhatWasClicked
PROPERTIES BusyEnds
CHECK_DEADLOCK FALSE
