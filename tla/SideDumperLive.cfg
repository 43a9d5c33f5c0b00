\* Liveness under the scheduler's fairness, of a driver that starts.
SPECIFICATION FairSpec
CONSTANTS
    Procs = {p1}
    Worker = Worker
    Rmmod = Rmmod
    Idle = Idle
    DevNums <- MCDevNums
    TableSize = 2
    NumberSpan = 8
    StartFailures = {}
    MaxUrbs = 2
PROPERTIES
    QueuedLeaves
    RemovalEnds
CHECK_DEADLOCK FALSE
