CONSTANTS
    MaxPorts  = 4
    MaxEvents = 2
SPECIFICATION Spec
INVARIANT NeverBoth
