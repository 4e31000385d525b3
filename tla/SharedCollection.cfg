\* Four requests about one collection and two documents.
CONSTANTS
    Requests = {r1, r2, r3, r4}
    Collection = {biology}
    Documents = {d1, d2}
    None = None
SPECIFICATION Spec
SYMMETRY Symmetry
CHECK_DEADLOCK FALSE
INVARIANTS
    TypeOK
    LastOneCounts
    AnswersAreRecent
PROPERTIES
    RequestsAreAtomic
