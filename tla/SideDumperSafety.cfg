\* Two submitting processes, interrupts, one device in the table and one
\* beyond it; a driver that starts.
SPECIFICATION Spec
CONSTANTS
    Procs = {p1, p2}
    Worker = Worker
    Rmmod = Rmmod
    Idle = Idle
    DevNums <- MCDevNums
    TableSize = 2
    NumberSpan = 4
    StartFailures = {"hc_found_ohci", "kernel_thread"}
    MaxUrbs = 3
SYMMETRY Symmetry
INVARIANTS
    TypeOK
    NoEmptyWake
    TokenBalance
    ListNeverContended
    DrainIsAlone
    ItemsReachable
    BuffersLive
CHECK_DEADLOCK FALSE
PROPERTIES
    ImplementsFifo
