\* A requeued urb and an asynchronously unlinked one at two endpoints, a
\* controller that may hang, and the device freed at the end.
SPECIFICATION Spec
CONSTANTS
    p1 = p1 p2 = p2 u1 = u1 u2 = u2 e1 = e1 e2 = e2
    Procs = {p1}
    Eds = {e1, e2}
    Urbs = {u1, u2}
    NoUrb = NoUrb
    EdOf <- Apart
    Length <- Short
    Requeued = {u1}
    AsyncUnlink = {u2}
    Features = {"error", "fail", "unlink", "callback", "free", "hang"}
    MaxLives = 2
INVARIANTS
    RemovalInv
CHECK_DEADLOCK FALSE
