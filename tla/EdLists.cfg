\* Chains of control and bulk EDs, and a tree of four heads with intervals
\* 1, 2 and 4.
SPECIFICATION Spec
CONSTANTS
    c1 = c1 c2 = c2 c3 = c3 b1 = b1 i1 = i1 i2 = i2 i3 = i3 s1 = s1
    NULL = NULL
    Eds <- MCEds
    type <- MCType
    Devices <- MCDevices
    Bits = 2
    Periods = {1, 2, 5}
    Together <- MCTogether
SYMMETRY Symmetry
INVARIANTS
    LinksExact
    LoadExact
    ListsStopped
    OnOneList
PROPERTIES
    NotInSameFrame
CHECK_DEADLOCK FALSE
