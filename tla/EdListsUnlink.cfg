\* An interrupt ED behind one of a longer interval is unlinked.
SPECIFICATION Spec
CONSTANTS
    c1 = c1 c2 = c2 c3 = c3 b1 = b1 i1 = i1 i2 = i2 i3 = i3 s1 = s1
    NULL = NULL
    Eds <- MCEds
    type <- MCType
    Devices <- MCDevices
    Bits = 2
    Periods = {1, 3}
    Together <- MCTogether
INVARIANT UnlinkedGone
CHECK_DEADLOCK FALSE
