CONSTANTS
    Files     = {f1}
    Untitled  = {u1}
    Shims     = {s1, s2}
    Boots     = {b1}
    NumSlots  = 3
    Requests <- BootLoaderXc
    HighSpeed = TRUE
    May       = {"interfere"}
    MaxEvents = 1
    NoDev     = NoDev
    NoSlot    = NoSlot
SPECIFICATION Spec
SYMMETRY Symmetry
INVARIANT NoDangling
