CONSTANTS
    MaxTyped = 2
    MaxUser = 1
    MaxCallers = 2
    Lines = {"tcp", "ssh", "shell", "A", "O", "H", "Z", "S0=0", "S0=1"}
SPECIFICATION Spec
INVARIANTS TypeOK  OneLine
PROPERTIES RingEnds LineFreed
CHECK_DEADLOCK FALSE
