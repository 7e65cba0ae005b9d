CONSTANTS
    Files     = {f1, f2}
    Untitled  = {u1}
    Shims     = {s1, s2}
    Boots     = {b1}
    NumSlots  = 2
    Requests <- BootLoaderXc
    HighSpeed = TRUE
    May       = {}
    MaxEvents = 1
    NoDev     = NoDev
    NoSlot    = NoSlot
SPECIFICATION Spec
SYMMETRY Symmetry
INVARIANTS TypeOK NoDangling NoDiskLost SessionTells ShimGone ArmedAtD1
PROPERTY TableContract
