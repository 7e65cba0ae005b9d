CONSTANTS
    Devices = {d1, d2, d3, d4}
    Slots   = {n1, n2, n3}
    NoDev   = NoDev
    NoSlot  = NoSlot
SPECIFICATION Spec
SYMMETRY Symmetry
INVARIANT TableSound
PROPERTY SwapTrades
