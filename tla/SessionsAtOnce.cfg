\* Five requests at once: registrations of one name, logins, logouts, calls.
CONSTANTS
    Requests = {r1, r2, r3, r4, r5}
    Names = {ada}
    Nobody = Nobody
    Lifetime = 2
SPECIFICATION Spec
SYMMETRY Symmetry
CHECK_DEADLOCK FALSE
INVARIANTS
    TypeOK
    LoggedOutStaysOut
    SessionKept
    OneRegistration
PROPERTIES
    RequestsAreAtomic
