CONSTANTS
    MaxTyped = 2
    MaxUser = 0
    MaxCallers = 1
    Lines = {"ssh", "A"}
SPECIFICATION Spec
INVARIANT CallerHeard
CHECK_DEADLOCK FALSE
