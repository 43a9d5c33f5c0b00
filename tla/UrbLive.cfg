\* Liveness, each urb submitted once.
SPECIFICATION FairSpec
CONSTANTS
    p1 = p1 p2 = p2 u1 = u1 u2 = u2 e1 = e1 e2 = e2
    Procs = {p1}
    Eds = {e1}
    Urbs = {u1, u2}
    NoUrb = NoUrb
    EdOf <- Together
    Length <- OneLong
    Requeued = {}
    AsyncUnlink = {}
    Features = {"error", "unlink", "callback"}
    MaxLives = 1
PROPERTIES
    RemovalsDone
    UnlinkedFreed
CHECK_DEADLOCK FALSE
