\* Two processes and completion handlers, both urbs at one endpoint.
SPECIFICATION Spec
CONSTANTS
    p1 = p1 p2 = p2 u1 = u1 u2 = u2 e1 = e1 e2 = e2
    Procs = {p1, p2}
    Eds = {e1}
    Urbs = {u1, u2}
    NoUrb = NoUrb
    EdOf <- Together
    Length <- OneLong
    Requeued = {}
    AsyncUnlink = {}
    Features = {"error", "fail", "unlink", "callback"}
    MaxLives = 2
SYMMETRY Symmetry
INVARIANTS
    TdsAccounted
    RemovalMarked
    RemovalArmed
    DeletedWhenIdle
    UseHeld
    LinkedIsOper
CHECK_DEADLOCK FALSE
PROPERTIES
    ImplementsContract
