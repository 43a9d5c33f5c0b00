\* Two processes and the interrupt handler; a request may exceed a region.
SPECIFICATION Spec
CONSTANTS
    Procs = {p1, p2}
    Idle = Idle
    NULL = NULL
    Bases <- MCBases
    Unit = 2
    MaxMems = 2
    Sizes <- MCSizes
    IndexFirst = FALSE
SYMMETRY Symmetry
INVARIANTS
    NoOverlap
    WithinRegions
    Tiling
    RegionsKnown
CHECK_DEADLOCK FALSE
