\* Three clients for two tracked keys, two attempts each, two threads.
CONSTANTS
    Requests = {r1, r2, r3, r4, r5}
    Clients = {c1, c2, c3}
    NoClient = NoClient
    Threads = 2
    MaxAttempts = 2
    Window = 2
    MaxTracked = 2
SPECIFICATION Spec
SYMMETRY Symmetry
CHECK_DEADLOCK FALSE
INVARIANTS
    TypeOK
    OvershootBounded
    TableBounded
PROPERTIES
    RefusedForCause
