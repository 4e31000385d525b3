\* Four requests at once, each a review or a PUT.
CONSTANTS
    Requests = {r1, r2, r3, r4}
    NoOne = NoOne
SPECIFICATION Spec
SYMMETRY Symmetry
CHECK_DEADLOCK FALSE
INVARIANTS
    TypeOK
    ReviewsCounted
PROPERTIES
    RequestsAreAtomic
