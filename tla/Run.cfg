CONSTANTS
    MaxPorts  = 4
    MaxEvents = 2
SPECIFICATION Spec
INVARIANTS TypeOK UiTruth OnePort NoPortLeft TapePlaysOn StaysDown
PROPERTIES NotFrozen ResumeAfterTape
