\* Two urbs at an endpoint of any type; an OUT endpoint has a part of the
\* behaviours of an IN one.
SPECIFICATION Spec
CONSTANTS
    u1 = u1 u2 = u2
    Urbs = {u1, u2}
    NoUrb = NoUrb
    Addresses <- MCAddresses
    In = TRUE
    Chunk = 2
    Lengths <- MCLengths
INVARIANTS
    QueueInOrder
    TdsOwned
    LengthExact
PROPERTIES
    UrbReturned
CHECK_DEADLOCK FALSE
